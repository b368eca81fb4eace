--------------------------- MODULE BrowserProofs ----------------------------
(***************************************************************************)
(* One tab never acts in anybody's name but the one it shows, whoever logs *)
(* in, however many calls are in flight and whatever the pages do with     *)
(* their answers.  With a second tab this is false: both read the storage  *)
(* the other has written.                                                  *)
(*                                                                         *)
(* What the pages promise needs no such limit.  For any number of tabs the *)
(* list settles on the answer to its filters, reports are true and no edit *)
(* overwrites what its author has not seen.                                *)
(***************************************************************************)
EXTENDS AssetPages, TLAPS

\* The copy in storage is the one the tab shows, or was dropped when it expired.
CopiesAgree == \A t \in Tabs : storage # None => memory[t] = storage

OneTab == \E t : Tabs = {t}

-----------------------------------------------------------------------------
(* The session.                                                             *)

LEMMA InitSession == Init => SessionTypeOK /\ CopiesAgree
  BY SessionAssumption DEF Init, SessionInit, SessionTypeOK, CopiesAgree

LEMMA LoadedSession ==
    ASSUME SessionTypeOK
    PROVE  LoadSession \in Token \cup {None} /\ LoadSession \in {storage, None}
  BY DEF SessionTypeOK, LoadSession

LEMMA RequestTyped ==
    ASSUME SessionTypeOK, NEW t \in Tabs, NEW e \in People \cup {"page"}
    PROVE  Request(t, e) \in Call
  BY LoadedSession DEF Request, Call

LEMMA AnswerTyped ==
    ASSUME NEW r \in Call, NEW a \in {"ok", "refused", "failed", "conflict"}
    PROVE  [r EXCEPT !.answer = a] \in Call /\ [r EXCEPT !.answer = a].answer = a
  BY DEF Call

LEMMA AnsweredCall ==
    ASSUME SessionTypeOK, NEW c \in Slots, calls[c] # None,
           NEW a \in {"ok", "refused", "failed", "conflict"},
           \/ calls' = [calls EXCEPT ![c].answer = a]
           \/ \E k \in Token : calls' = [calls EXCEPT ![c].answer = a, ![c].gives = k]
    PROVE  calls' \in [Slots -> Call \cup {None}] /\ calls'[c].answer = a
<1>1. calls[c] \in Call
  BY DEF SessionTypeOK
<1>2. \E r \in Call : r.answer = a /\ calls' = [calls EXCEPT ![c] = r]
  <2>1. CASE calls' = [calls EXCEPT ![c].answer = a]
    <3>1. calls' = [calls EXCEPT ![c] = [calls[c] EXCEPT !.answer = a]]
      BY <2>1
    <3>2. /\ [calls[c] EXCEPT !.answer = a] \in Call
          /\ [calls[c] EXCEPT !.answer = a].answer = a
      BY <1>1, AnswerTyped
    <3> QED
      BY <3>1, <3>2, Zenon
  <2>2. ASSUME NEW k \in Token, calls' = [calls EXCEPT ![c].answer = a, ![c].gives = k]
        PROVE  \E r \in Call : r.answer = a /\ calls' = [calls EXCEPT ![c] = r]
    <3>1. calls' = [calls EXCEPT ![c] = [calls[c] EXCEPT !.answer = a, !.gives = k]]
      BY <2>2, <1>1 DEF SessionTypeOK
    <3>2. /\ [calls[c] EXCEPT !.answer = a, !.gives = k] \in Call
          /\ [calls[c] EXCEPT !.answer = a, !.gives = k].answer = a
      <4>1. PICK r \in Call : r = calls[c]
        BY <1>1
      <4>2. [r EXCEPT !.answer = a, !.gives = k] \in Call
        BY DEF Call
      <4>3. [r EXCEPT !.answer = a, !.gives = k].answer = a
        BY DEF Call
      <4> QED
        BY <4>1, <4>2, <4>3
    <3> QED
      BY <3>1, <3>2, Zenon
  <2> QED
    BY <2>1, <2>2
<1> QED
  BY <1>2 DEF SessionTypeOK

\* The ways in which a step of the application changes calls and session; whatever else
\* the pages do leaves these alone.
Asking == \E c \in Slots, t \in Tabs, e \in People \cup {"page"} :
             Send(c, t, e) /\ UNCHANGED <<memory, time, seeds>>
Answering == \E c \in Slots, a \in {"ok", "refused", "failed", "conflict"} :
                /\ calls[c] # None
                /\ \/ calls' = [calls EXCEPT ![c].answer = a]
                   \/ \E k \in Token : calls' = [calls EXCEPT ![c].answer = a, ![c].gives = k]
                /\ UNCHANGED <<storage, memory, time, seeds>>
Closing == \E c \in Slots :
              /\ calls[c] # None
              /\ calls' = [calls EXCEPT ![c] = None]
              /\ UNCHANGED <<time, seeds>>
              /\ Arrive(c) \/ UNCHANGED <<storage, memory>>
Turning == \/ UNCHANGED session
           \/ \E t \in Tabs : Logout(t) \/ LoadApplication(t)
           \/ LifetimePasses \/ Reseed

LEMMA FourWays ==
    ASSUME SessionTypeOK, [Next]_vars
    PROVE  Asking \/ Answering \/ Closing \/ Turning
<1> DEFINE Goal == Asking \/ Answering \/ Closing \/ Turning
<1>1. ASSUME NEW c \in Slots, calls[c] # None PROVE calls[c].tab \in Tabs
  BY <1>1 DEF SessionTypeOK, Call
<1>2. ASSUME NEW c \in Slots, NEW t \in Tabs,
             \/ \E p \in People : SubmitLogin(c, t, p)
             \/ OpenList(c, t) \/ ReloadList(c, t) \/ OpenDetail(c, t) \/ LoadAgain(c, t)
             \/ Save(c, t) \/ ConfirmConflict(c, t)
      PROVE  Asking
  BY <1>2 DEF SubmitLogin, OpenList, ReloadList, OpenDetail, LoadAgain, Save, ConfirmConflict,
              RunEffect, Load, Asking
<1>3. ASSUME NEW t \in Tabs, NEW l, Render(t, l) PROVE Asking \/ Turning
  BY <1>3 DEF Render, RunEffect, Asking, Turning
<1>4. ASSUME NEW t \in Tabs,
             \/ \E k \in Keywords : TypeKeyword(t, k)
             \/ \E p \in Pages : ChangePage(t, p)
             \/ ChangeMode(t) \/ ResetFilters(t) \/ Debounce(t)
      PROVE  Asking \/ Turning
  BY <1>4, <1>3 DEF TypeKeyword, ChangePage, ChangeMode, ResetFilters, Debounce
<1>5. ASSUME NEW t \in Tabs,
             \/ OpenForm(t) \/ CancelForm(t) \/ DismissConflict(t)
             \/ Leave(t) \/ LogoutLeaves(t) \/ StartAgain(t)
      PROVE  Turning
  BY <1>5 DEF OpenForm, CancelForm, DismissConflict, Leave, LogoutLeaves, StartAgain, Turning
<1>6. ASSUME NEW c \in Slots, Serve(c) PROVE Answering
  <2>1. ASSUME NEW p \in People PROVE Issue(p) \in Token
    BY DEF Issue, Token, SessionTypeOK
  <2>2. CASE AnswerLogin(c)
    BY <2>1, <2>2 DEF AnswerLogin, Waiting, Answering
  <2>3. CASE RefuseOrFail(c)
    BY <2>3 DEF RefuseOrFail, Waiting, Reply, Answering
  <2>4. CASE ServeRead(c) \/ ServeEdit(c)
    BY <2>4 DEF ServeRead, ServeEdit, Waiting, Reply, Answering
  <2> QED
    BY <1>6, <2>2, <2>3, <2>4 DEF Serve
<1>7. ASSUME NEW c \in Slots, Deliver(c) PROVE Asking \/ Closing
  <2>1. calls[c] # None /\ calls[c].tab \in Tabs
    BY <1>7, <1>1 DEF Deliver, Answered
  <2>2. CASE FetchRest(c) \/ ActSucceeds(c)
    BY <1>7, <2>1, <2>2 DEF Deliver, FetchRest, ActSucceeds, Asking
  <2>3. CASE ~(FetchRest(c) \/ ActSucceeds(c))
    BY <1>7, <2>1, <2>3 DEF Deliver, Drop, Closing
  <2> QED
    BY <2>2, <2>3
<1>8. CASE OthersEdit \/ UNCHANGED vars
  BY <1>8 DEF OthersEdit, vars, Turning
<1> QED
  BY <1>2, <1>4, <1>5, <1>6, <1>7, <1>8 DEF Next, UserActs, System, Turning

LEMMA SessionStep ==
    ASSUME SessionTypeOK, [Next]_vars
    PROVE  SessionTypeOK' /\ (OneTab /\ CopiesAgree => CopiesAgree')
<1> DEFINE Goal == SessionTypeOK' /\ (OneTab /\ CopiesAgree => CopiesAgree')
<1>1. CASE Asking
  <2>1. PICK c \in Slots, t \in Tabs, e \in People \cup {"page"} :
           Send(c, t, e) /\ UNCHANGED <<memory, time, seeds>>
    BY <1>1 DEF Asking
  <2>2. Request(t, e) \in Call
    BY RequestTyped
  <2>3. storage' \in Token \cup {None} /\ storage' \in {storage, None}
    BY <2>1, LoadedSession  DEF Send
  <2>4. calls' \in [Slots -> Call \cup {None}]
    BY <2>1, <2>2 DEF Send, SessionTypeOK
  <2> QED
    BY <2>1, <2>3, <2>4 DEF SessionTypeOK, CopiesAgree
<1>2. CASE Answering
  <2>1. PICK c \in Slots, a \in {"ok", "refused", "failed", "conflict"} :
           /\ calls[c] # None
           /\ \/ calls' = [calls EXCEPT ![c].answer = a]
              \/ \E k \in Token : calls' = [calls EXCEPT ![c].answer = a, ![c].gives = k]
    BY <1>2 DEF Answering
  <2>2. calls' \in [Slots -> Call \cup {None}]
    BY <2>1, AnsweredCall
  <2> QED
    BY <1>2, <2>2 DEF Answering, SessionTypeOK, CopiesAgree
<1>3. CASE Closing
  <2>1. PICK c \in Slots : /\ calls[c] # None
                           /\ calls' = [calls EXCEPT ![c] = None]
                           /\ UNCHANGED <<time, seeds>>
                           /\ Arrive(c) \/ UNCHANGED <<storage, memory>>
    BY <1>3 DEF Closing
  <2>2. calls[c].tab \in Tabs /\ calls[c].gives \in Token \cup {None}
    BY <2>1 DEF SessionTypeOK, Call
  <2> QED
    BY <2>1, <2>2 DEF SessionTypeOK, CopiesAgree, Arrive, OneTab
<1>4. CASE Turning
  <2>1. CASE UNCHANGED session
    BY <2>1 DEF session, SessionTypeOK, CopiesAgree
  <2>2. ASSUME NEW t \in Tabs, Logout(t) PROVE Goal
    BY <2>2 DEF Logout, SessionTypeOK, CopiesAgree, OneTab
  <2>3. ASSUME NEW t \in Tabs, LoadApplication(t) PROVE Goal
    BY <2>3, LoadedSession DEF LoadApplication, SessionTypeOK, CopiesAgree, OneTab
  <2>4. CASE LifetimePasses \/ Reseed
    BY <2>4, SessionAssumption DEF LifetimePasses, Reseed, SessionTypeOK, CopiesAgree
  <2> QED
    BY <1>4, <2>1, <2>2, <2>3, <2>4 DEF Turning
<1> QED
  BY <1>1, <1>2, <1>3, <1>4, FourWays

\* A new call carries the token in storage, and that is the one the tab shows.
LEMMA NewCallsAsShown ==
    ASSUME SessionTypeOK, CopiesAgree, [Next]_vars, NEW c \in Slots,
           calls'[c] # None, calls'[c] # calls[c], calls'[c].answer = None
    PROVE  calls'[c].token \in {None, memory[calls'[c].tab]}
<1>1. CASE Asking
  <2>1. PICK d \in Slots, t \in Tabs, e \in People \cup {"page"} : Send(d, t, e)
    BY <1>1 DEF Asking
  <2>2. calls'[c] = Request(t, e)
    BY <2>1 DEF Send, SessionTypeOK
  <2> QED
    BY <2>2, LoadedSession DEF Request, CopiesAgree
<1>2. CASE Answering
  <2>1. PICK d \in Slots, a \in {"ok", "refused", "failed", "conflict"} :
           /\ calls[d] # None
           /\ \/ calls' = [calls EXCEPT ![d].answer = a]
              \/ \E k \in Token : calls' = [calls EXCEPT ![d].answer = a, ![d].gives = k]
    BY <1>2 DEF Answering
  <2>2. c = d /\ calls[c] \in Call
    BY <2>1 DEF SessionTypeOK
  <2>3. calls'[c].answer = a
    BY <2>1, <2>2, AnsweredCall
  <2> QED
    BY <2>3, NoneAssumption
<1>3. CASE Closing
  BY <1>3 DEF Closing, SessionTypeOK
<1>4. CASE Turning
  BY <1>4 DEF Turning, session, Logout, LoadApplication, LifetimePasses, Reseed
<1> QED
  BY <1>1, <1>2, <1>3, <1>4, FourWays

\* base-client.ts takes the token from localStorage, not from what the tab shows: with one
\* tab the two never name different people, for any number of people and of calls in flight.
THEOREM OneTabActsAsShown == ASSUME OneTab PROVE Spec => ActsAsShown
<1> DEFINE Shown == \A c \in Slots :
                       calls'[c] # None /\ calls'[c] # calls[c] /\ calls'[c].answer = None =>
                          calls'[c].token \in {None, memory[calls'[c].tab]}
<1> DEFINE I == SessionTypeOK /\ CopiesAgree
<1>1. I /\ [Next]_vars => I'
  BY SessionStep
<1>2. I /\ [Next]_vars => [Shown]_session
  BY NewCallsAsShown
<1> QED
  BY <1>1, <1>2, InitSession, PTL DEF Spec, ActsAsShown

-----------------------------------------------------------------------------
(* The pages.                                                               *)

\* A component waits for call c, in code of kind k.
Awaits(c, k) == context[c] # None /\ context[c].kind = k /\ context[c].mine

\* useSubmitAction has not finished: its action or the reload after it is on the way.
Running(c) == Awaits(c, "act") \/ (Awaits(c, "get") /\ context[c].then = "success")

PagesTyped ==
    /\ version \in 1..MaxVersion
    /\ list \in [Tabs -> ListState] /\ detail \in [Tabs -> DetailState]
    /\ context \in [Slots -> Context \cup {None}]
    /\ \A c \in Slots : context[c] # None <=> calls[c] # None /\ calls[c].errand = "page"

\* A list waits for the call that asked what it shows, and no other call is waited for.
LoadInv ==
    \A t \in Tabs :
       /\ list[t].load = None /\ list[t].rows # None => list[t].rows = QueryOf(list[t])
       /\ \A c \in Slots :
             /\ list[t].load = c <=> Awaits(c, "list") /\ calls[c].tab = t
             /\ list[t].load = c => list[t].on /\ context[c].query = QueryOf(list[t])

\* A form shows the asset that was loaded last, and what is sent is what it was filled from.
FormInv ==
    /\ \A t \in Tabs : /\ detail[t].form \in {0, detail[t].seen}
                       /\ ~detail[t].on => detail[t].seen = 0 /\ detail[t].told = "nothing"
    /\ \A c \in Slots :
          /\ Awaits(c, "act") \/ Awaits(c, "get") => detail[calls[c].tab].on
          /\ context[c] # None /\ context[c].kind = "act" => context[c].sent = context[c].basis

\* One edit at a time; until it has ended nothing is reported of it, and the server has
\* answered "conflict" to no edit that was made.
EditInv ==
    /\ \A c \in Slots :
          /\ context[c] # None /\ context[c].kind = "act" /\ calls[c].answer \in {None, "conflict"}
                => ~context[c].did
          /\ Running(c) => detail[calls[c].tab].busy /\ detail[calls[c].tab].told = "nothing"
          /\ Running(c) /\ context[c].kind = "get" => detail[calls[c].tab].did
    /\ \A c, e \in Slots : Running(c) /\ Running(e) /\ calls[c].tab = calls[e].tab => c = e

PageInv == PagesTyped /\ LoadInv /\ FormInv /\ EditInv /\ ReportsAreTrue

LEMMA TabOf ==
    ASSUME SessionTypeOK, PagesTyped, NEW c \in Slots, context[c] # None
    PROVE  calls[c] # None /\ calls[c] \in Call /\ calls[c].tab \in Tabs
  BY DEF SessionTypeOK, PagesTyped, Call

LEMMA InitPages == Init => PageInv
<1> SUFFICES ASSUME Init PROVE PageInv
  OBVIOUS
<1>1. NoList \in ListState /\ NoDetail \in DetailState
  BY PagesAssumption DEF NoList, ListState, NoDetail, DetailState
<1>2. PagesTyped
  BY <1>1, PagesAssumption DEF Init, SessionInit, PagesTyped
<1>3. LoadInv
  BY NoneAssumption DEF Init, LoadInv, NoList, Awaits
<1>4. FormInv /\ EditInv /\ ReportsAreTrue
  BY DEF Init, FormInv, EditInv, ReportsAreTrue, NoDetail, Awaits, Running
<1> QED
  BY <1>2, <1>3, <1>4 DEF PageInv

-----------------------------------------------------------------------------
(* What happens to a call.                                                  *)

PageCall(k) == k # None /\ k.errand = "page"

Kept(c) == /\ context'[c] = context[c]
           /\ context[c] # None => calls'[c] = calls[c]
           /\ context[c] = None => ~PageCall(calls'[c])
Silenced(c) == /\ context[c] # None /\ context'[c] \in Context
               /\ context'[c].kind = context[c].kind /\ ~context'[c].mine
               /\ context[c].kind = "act" =>
                     /\ context'[c].sent = context[c].sent /\ context'[c].basis = context[c].basis
                     /\ context'[c].did = context[c].did
               /\ calls'[c] = calls[c]
Gone(c) == context'[c] = None /\ ~PageCall(calls'[c])
Asked(c, t) == context'[c] \in Context /\ calls'[c] = Request(t, "page")

LEMMA OrphanTyped ==
    ASSUME NEW x \in Context
    PROVE  /\ Orphan(x) \in Context /\ Orphan(x).kind = x.kind /\ ~Orphan(x).mine
           /\ x.kind = "act" => /\ Orphan(x).sent = x.sent /\ Orphan(x).basis = x.basis
                                /\ Orphan(x).did = x.did
<1>1. ASSUME NEW r \in Context
      PROVE  /\ [r EXCEPT !.mine = FALSE] \in Context /\ [r EXCEPT !.mine = FALSE].kind = r.kind
             /\ ~[r EXCEPT !.mine = FALSE].mine
             /\ r.kind = "act" => /\ [r EXCEPT !.mine = FALSE].sent = r.sent
                                  /\ [r EXCEPT !.mine = FALSE].basis = r.basis
                                  /\ [r EXCEPT !.mine = FALSE].did = r.did
  BY DEF Context
<1>2. CASE x.kind = "list"
  <2> DEFINE q == [kw |-> NoKeyword, page |-> 1, all |-> x.query.all /\ x.part = 1]
  <2>1. q \in Query
    BY PagesAssumption DEF Query, Context
  <2>2. ListContext(q) \in Context /\ ListContext(q).kind = "list"
    BY <2>1 DEF ListContext, Context
  <2> HIDE DEF q
  <2>3. Orphan(x) = [ListContext(q) EXCEPT !.mine = FALSE]
    BY <1>2 DEF Orphan, q
  <2> QED
    BY <1>1, <1>2, <2>2, <2>3
<1>3. CASE x.kind = "get"
  <2>1. GetContext("nothing") \in Context /\ GetContext("nothing").kind = "get"
    BY PagesAssumption DEF GetContext, Context
  <2>2. Orphan(x) = [GetContext("nothing") EXCEPT !.mine = FALSE]
    BY <1>3 DEF Orphan
  <2> QED
    BY <1>1, <1>3, <2>1, <2>2
<1>4. CASE x.kind = "act"
  BY <1>1, <1>4 DEF Orphan
<1> QED
  BY <1>2, <1>3, <1>4 DEF Context

\* A cleanup reaches the calls of its tab and leaves the others alone.
LEMMA CancelledSlot ==
    ASSUME PagesTyped, NEW t \in Tabs, NEW kinds, NEW c \in Slots,
           context'[c] = Cancelled(t, kinds)[c], calls'[c] = calls[c]
    PROVE  IF context[c] # None /\ context[c].kind \in kinds /\ calls[c].tab = t
           THEN Silenced(c) ELSE Kept(c)
<1>1. context[c] # None => context[c] \in Context
  BY DEF PagesTyped
<1>2. context'[c] = IF context[c] # None /\ context[c].kind \in kinds /\ calls[c].tab = t
                    THEN Orphan(context[c]) ELSE context[c]
  BY DEF Cancelled
<1>3. CASE context[c] # None /\ context[c].kind \in kinds /\ calls[c].tab = t
  BY <1>1, <1>2, <1>3, OrphanTyped DEF Silenced
<1>4. CASE ~(context[c] # None /\ context[c].kind \in kinds /\ calls[c].tab = t)
  BY <1>2, <1>4 DEF Kept, PageCall, PagesTyped
<1> QED
  BY <1>3, <1>4

\* The calls of the lists say all there is to say about the lists.
LEMMA LoadSame ==
    ASSUME LoadInv, list' = list,
           \A d \in Slots :
              \/ ~Awaits(d, "list") /\ ~Awaits(d, "list")'
              \/ /\ Awaits(d, "list") /\ Awaits(d, "list")'
                 /\ context'[d].query = context[d].query /\ calls'[d].tab = calls[d].tab
    PROVE  LoadInv'
  BY DEF LoadInv

\* What is said about edits only changes with them.
LEMMA EditSame ==
    ASSUME FormInv, EditInv, ReportsAreTrue, detail' = detail,
           \A d \in Slots : \/ context'[d] = None \/ context'[d].kind = "list"
                            \/ Silenced(d) \/ Kept(d)
    PROVE  FormInv' /\ EditInv' /\ ReportsAreTrue'
<1>1. ASSUME NEW d \in Slots, NEW k \in {"act", "get"}, Awaits(d, k)'
      PROVE  Awaits(d, k) /\ context'[d] = context[d] /\ calls'[d] = calls[d]
  BY <1>1 DEF Awaits, Silenced, Kept
<1>2. ASSUME NEW d \in Slots, context'[d] # None, context'[d].kind = "act"
      PROVE  /\ context[d] # None /\ context[d].kind = "act"
             /\ context'[d].sent = context[d].sent /\ context'[d].basis = context[d].basis
             /\ context'[d].did = context[d].did /\ calls'[d] = calls[d]
  BY <1>2 DEF Silenced, Kept
<1>3. ASSUME NEW d \in Slots, Running(d)'
      PROVE  Running(d) /\ context'[d] = context[d] /\ calls'[d] = calls[d]
  BY <1>1, <1>3 DEF Running
<1>4. FormInv'
  BY <1>1, <1>2 DEF FormInv
<1>5. EditInv'
  <2>1. ASSUME NEW d \in Slots, context'[d] # None, context'[d].kind = "act",
               calls'[d].answer \in {None, "conflict"}
        PROVE  ~context'[d].did
    BY <2>1, <1>2 DEF EditInv
  <2>2. ASSUME NEW d \in Slots, Running(d)'
        PROVE  /\ detail'[calls'[d].tab].busy /\ detail'[calls'[d].tab].told = "nothing"
               /\ context'[d].kind = "get" => detail'[calls'[d].tab].did
    BY <2>2, <1>3 DEF EditInv
  <2>3. ASSUME NEW d \in Slots, NEW e \in Slots, Running(d)', Running(e)',
               calls'[d].tab = calls'[e].tab
        PROVE  d = e
    BY <2>3, <1>3 DEF EditInv
  <2> QED
    BY <2>1, <2>2, <2>3 DEF EditInv
<1> QED
  BY <1>4, <1>5 DEF ReportsAreTrue

LEMMA CancelledTyped ==
    ASSUME PagesTyped, NEW t, NEW kinds
    PROVE  Cancelled(t, kinds) \in [Slots -> Context \cup {None}]
  BY OrphanTyped DEF PagesTyped, Cancelled

LEMMA AskedCall ==
    ASSUME SessionTypeOK, NEW t \in Tabs
    PROVE  /\ Request(t, "page") # None /\ Request(t, "page").tab = t
           /\ Request(t, "page").errand = "page" /\ Request(t, "page").answer = None
<1>1. Request(t, "page") \in Call
  BY RequestTyped
<1> QED
  BY <1>1, NoneAssumption DEF Request

LEMMA TypesKept ==
    ASSUME SessionTypeOK, PagesTyped,
           version' \in 1..MaxVersion, list' \in [Tabs -> ListState],
           detail' \in [Tabs -> DetailState], context' \in [Slots -> Context \cup {None}],
           \A d \in Slots : \/ Kept(d) \/ Silenced(d) \/ Gone(d)
                            \/ \E t \in Tabs : Asked(d, t)
    PROVE  PagesTyped'
<1>1. ASSUME NEW d \in Slots PROVE context'[d] # None <=> PageCall(calls'[d])
  <2>1. ASSUME NEW t \in Tabs, Asked(d, t) PROVE context'[d] # None <=> PageCall(calls'[d])
    BY <2>1, AskedCall, NobodyAssumption DEF Asked, PageCall
  <2>2. CASE Kept(d)
    BY <2>2 DEF Kept, PagesTyped, PageCall
  <2>3. CASE Silenced(d)
    BY <2>3, NobodyAssumption DEF Silenced, PagesTyped, PageCall
  <2>4. CASE Gone(d)
    BY <2>4 DEF Gone
  <2> QED
    BY <2>1, <2>2, <2>3, <2>4
<1> QED
  BY <1>1 DEF PagesTyped, PageCall

LEMMA ListTyped ==
    ASSUME NEW l \in ListState, NEW c \in Slots
    PROVE  /\ QueryOf(l) \in Query
           /\ ListContext(QueryOf(l)) \in Context
           /\ ListContext(QueryOf(l)).kind = "list" /\ ListContext(QueryOf(l)).mine
           /\ ListContext(QueryOf(l)).query = QueryOf(l)
           /\ LET m == [l EXCEPT !.load = c, !.rows = None] IN
              m \in ListState /\ QueryOf(m) = QueryOf(l) /\ m.load = c /\ m.on = l.on
<1>1. QueryOf(l) \in Query
  BY DEF QueryOf, ListState, Query
<1>2. PICK q \in Query : q = QueryOf(l)
  BY <1>1
<1>3. /\ ListContext(q) \in Context /\ ListContext(q).kind = "list" /\ ListContext(q).mine
      /\ ListContext(q).query = q
  BY DEF ListContext, Context
<1>4. LET m == [l EXCEPT !.load = c, !.rows = None] IN
      m \in ListState /\ QueryOf(m) = QueryOf(l) /\ m.load = c /\ m.on = l.on
  BY DEF ListState, QueryOf
<1> QED
  BY <1>1, <1>2, <1>3, <1>4

-----------------------------------------------------------------------------
(* The list.                                                                *)

LEMMA RunEffectStep ==
    ASSUME SessionTypeOK, PageInv, NEW c \in Slots, NEW t \in Tabs, NEW l \in ListState, l.on,
           RunEffect(c, t, l)
    PROVE  PageInv'
<1> DEFINE x == ListContext(QueryOf(l))
           m == [l EXCEPT !.load = c, !.rows = None]
<1>1. /\ x \in Context /\ x.kind = "list" /\ x.mine /\ x.query = QueryOf(l)
      /\ m \in ListState /\ QueryOf(m) = QueryOf(l) /\ m.load = c /\ m.on
  BY ListTyped
<1>2. /\ list' = [list EXCEPT ![t] = m]
      /\ context' = [Cancelled(t, {"list"}) EXCEPT ![c] = x]
      /\ calls' = [calls EXCEPT ![c] = Request(t, "page")]
      /\ calls[c] = None /\ version' = version /\ detail' = detail
  BY DEF RunEffect, Free, Send
<1> HIDE DEF x, m
<1>3. context[c] = None
  BY <1>2 DEF PageInv, PagesTyped
<1>4. context' \in [Slots -> Context \cup {None}]
  BY <1>1, <1>2, CancelledTyped DEF PageInv
<1>5. Asked(c, t) /\ context'[c] = x
  BY <1>1, <1>2, CancelledTyped DEF Asked, PageInv, SessionTypeOK
<1>6. ASSUME NEW d \in Slots, d # c
      PROVE  IF context[d] # None /\ context[d].kind \in {"list"} /\ calls[d].tab = t
             THEN Silenced(d) ELSE Kept(d)
  <2>1. context'[d] = Cancelled(t, {"list"})[d] /\ calls'[d] = calls[d]
    BY <1>2, <1>6, CancelledTyped DEF PageInv
  <2> QED
    BY <2>1, CancelledSlot DEF PageInv
<1>7. PagesTyped'
  BY <1>1, <1>2, <1>4, <1>5, <1>6, TypesKept DEF PageInv, PagesTyped
<1>8. LoadInv'
  <2>1. x # None /\ calls'[c].tab = t
    BY <1>1, <1>5, NobodyAssumption, AskedCall DEF Asked
  <2>2. Awaits(c, "list")' /\ context'[c].query = QueryOf(l)
    BY <1>1, <1>5, <2>1 DEF Awaits
  <2>3. ASSUME NEW d \in Slots, d # c
        PROVE  /\ Awaits(d, "list")' => /\ Awaits(d, "list") /\ calls[d].tab # t
                                        /\ context'[d] = context[d] /\ calls'[d] = calls[d]
               /\ Awaits(d, "list") /\ calls[d].tab # t => Awaits(d, "list")' /\ calls'[d] = calls[d]
    BY <1>6, <2>3 DEF Awaits, Silenced, Kept
  <2>4. ~Awaits(c, "list")
    BY <1>3 DEF Awaits
  <2>5. ASSUME NEW u \in Tabs, u # t PROVE list'[u] = list[u]
    BY <1>2, <2>5 DEF PageInv, PagesTyped
  <2>6. list'[t] = m
    BY <1>2 DEF PageInv, PagesTyped
  <2>7. ASSUME NEW u \in Tabs, u # t
        PROVE  /\ list'[u].load = None /\ list'[u].rows # None => list'[u].rows = QueryOf(list'[u])
               /\ \A d \in Slots :
                     /\ list'[u].load = d <=> Awaits(d, "list")' /\ calls'[d].tab = u
                     /\ list'[u].load = d => list'[u].on /\ context'[d].query = QueryOf(list'[u])
    BY <2>1, <2>3, <2>4, <2>5, <2>7 DEF PageInv, LoadInv
  <2>8. /\ list'[t].load = None /\ list'[t].rows # None => list'[t].rows = QueryOf(list'[t])
        /\ \A d \in Slots :
              /\ list'[t].load = d <=> Awaits(d, "list")' /\ calls'[d].tab = t
              /\ list'[t].load = d => list'[t].on /\ context'[d].query = QueryOf(list'[t])
    BY <1>1, <2>1, <2>2, <2>3, <2>6, NoneAssumption
  <2> QED
    BY <2>7, <2>8 DEF LoadInv
<1>9. FormInv' /\ EditInv' /\ ReportsAreTrue'
  <2>1. \A d \in Slots : context'[d].kind = "list" \/ Silenced(d) \/ Kept(d)
    BY <1>1, <1>5, <1>6
  <2> QED
    BY <1>2, <2>1, EditSame DEF PageInv
<1> QED
  BY <1>7, <1>8, <1>9 DEF PageInv

\* A render that changes nothing the effect depends on.
LEMMA RenderStep ==
    ASSUME SessionTypeOK, PageInv, NEW t \in Tabs, NEW l \in ListState, list[t].on,
           l.on, l.load = list[t].load, l.rows = list[t].rows, Render(t, l)
    PROVE  PageInv'
<1>1. ASSUME NEW c \in Slots, RunEffect(c, t, l) PROVE PageInv'
  BY <1>1, RunEffectStep
<1>2. CASE QueryOf(l) = QueryOf(list[t]) /\ list' = [list EXCEPT ![t] = l]
           /\ UNCHANGED <<session, version, detail, context>>
  <2>1. \A d \in Slots : Kept(d)
    BY <1>2 DEF session, Kept, PageInv, PagesTyped, PageCall
  <2>2. PagesTyped'
    BY <1>2, <2>1, TypesKept DEF PageInv, PagesTyped
  <2>3. LoadInv'
    <3>1. \A u \in Tabs : /\ list'[u].load = list[u].load /\ list'[u].rows = list[u].rows
                          /\ list'[u].on = list[u].on /\ QueryOf(list'[u]) = QueryOf(list[u])
      BY <1>2 DEF PageInv, PagesTyped
    <3>2. \A d \in Slots : (Awaits(d, "list")' <=> Awaits(d, "list")) /\ calls' = calls
      BY <1>2 DEF Awaits, session
    <3> QED
      BY <1>2, <3>1, <3>2 DEF PageInv, LoadInv
  <2>4. FormInv' /\ EditInv' /\ ReportsAreTrue'
    BY <1>2, <2>1, EditSame DEF PageInv
  <2> QED
    BY <2>2, <2>3, <2>4 DEF PageInv
<1> QED
  BY <1>1, <1>2 DEF Render

LEMMA ListSteps ==
    ASSUME SessionTypeOK, PageInv, NEW t \in Tabs,
           \/ \E c \in Slots : OpenList(c, t) \/ ReloadList(c, t)
           \/ \E k \in Keywords : TypeKeyword(t, k)
           \/ \E p \in Pages : ChangePage(t, p)
           \/ ChangeMode(t) \/ ResetFilters(t) \/ Debounce(t)
    PROVE  PageInv'
<1>1. list[t] \in ListState /\ NoList \in ListState
  BY PagesAssumption DEF PageInv, PagesTyped, NoList, ListState
<1>2. ASSUME NEW l \in ListState
      PROVE  [l EXCEPT !.on = TRUE] \in ListState /\ [l EXCEPT !.on = TRUE].on
  BY DEF ListState
<1>3. ASSUME NEW c \in Slots, OpenList(c, t) PROVE PageInv'
  <2>1. [NoList EXCEPT !.on = TRUE] \in ListState /\ [NoList EXCEPT !.on = TRUE].on
    BY <1>1, <1>2
  <2> QED
    BY <1>3, <2>1, RunEffectStep DEF OpenList
<1>4. ASSUME NEW c \in Slots, ReloadList(c, t) PROVE PageInv'
  BY <1>1, <1>4, RunEffectStep DEF ReloadList
<1>5. ASSUME NEW l, list[t].on, Render(t, l),
             l \in ListState /\ l.on = list[t].on /\ l.load = list[t].load /\ l.rows = list[t].rows
      PROVE  PageInv'
  BY <1>5, RenderStep
<1>6. ASSUME NEW k \in Keywords, TypeKeyword(t, k) PROVE PageInv'
  <2> DEFINE l == [list[t] EXCEPT !.kw = k, !.page = 1]
  <2>1. l \in ListState /\ l.on = list[t].on /\ l.load = list[t].load /\ l.rows = list[t].rows
    BY <1>1, PagesAssumption DEF ListState
  <2> QED
    BY <1>5, <1>6, <2>1 DEF TypeKeyword
<1>7. ASSUME NEW p \in Pages, ChangePage(t, p) PROVE PageInv'
  <2> DEFINE l == [list[t] EXCEPT !.page = p]
  <2>1. l \in ListState /\ l.on = list[t].on /\ l.load = list[t].load /\ l.rows = list[t].rows
    BY <1>1, PagesAssumption DEF ListState
  <2> QED
    BY <1>5, <1>7, <2>1 DEF ChangePage
<1>8. CASE ChangeMode(t)
  <2> DEFINE l == [list[t] EXCEPT !.all = ~@, !.page = 1]
  <2>2. l \in ListState /\ l.on = list[t].on /\ l.load = list[t].load /\ l.rows = list[t].rows
    BY <1>1, PagesAssumption DEF ListState
  <2> QED
    BY <1>5, <1>8, <2>2 DEF ChangeMode
<1>9. CASE ResetFilters(t)
  <2>2. PICK all \in {list[t].all, FALSE} :
           Render(t, [list[t] EXCEPT !.kw = NoKeyword, !.deb = NoKeyword, !.page = 1, !.all = all])
    BY <1>9 DEF ResetFilters
  <2>3. list[t].on
    BY <1>9 DEF ResetFilters
  <2> DEFINE l == [list[t] EXCEPT !.kw = NoKeyword, !.deb = NoKeyword, !.page = 1, !.all = all]
  <2>1. l \in ListState /\ l.on = list[t].on /\ l.load = list[t].load /\ l.rows = list[t].rows
    BY <1>1, PagesAssumption DEF ListState
  <2> QED
    BY <1>5, <2>1, <2>2, <2>3
<1>10. CASE Debounce(t)
  <2> DEFINE l == [list[t] EXCEPT !.deb = list[t].kw]
  <2>1. list[t].kw \in Keywords
    BY <1>1 DEF ListState
  <2>2. l \in ListState /\ l.on = list[t].on /\ l.load = list[t].load /\ l.rows = list[t].rows
    BY <1>1, PagesAssumption DEF ListState
  <2> QED
    BY <1>5, <1>10, <2>2 DEF Debounce
<1> QED
  BY <1>3, <1>4, <1>6, <1>7, <1>8, <1>9, <1>10

-----------------------------------------------------------------------------
(* The detail page and its form.                                            *)

LEMMA GetTyped ==
    ASSUME NEW then \in {"nothing", "success"}
    PROVE  /\ GetContext(then) \in Context /\ GetContext(then).kind = "get"
           /\ GetContext(then).mine /\ GetContext(then).then = then
  BY PagesAssumption DEF GetContext, Context

\* Opening, closing and dismissing say nothing new about an edit on its way.
LEMMA DetailSet ==
    ASSUME PageInv, NEW t \in Tabs, NEW d \in DetailState,
           detail' = [detail EXCEPT ![t] = d], d.on, d.form \in {0, d.seen},
           detail[t].on => /\ d.busy = detail[t].busy /\ d.did = detail[t].did
                           /\ d.lost = detail[t].lost /\ d.told \in {detail[t].told, "nothing"},
           ~detail[t].on => d.told = "nothing",
           \A e \in Slots : \/ Kept(e)
                            \/ /\ context'[e] # None /\ context'[e].kind = "get"
                               /\ context'[e].then = "nothing" /\ calls'[e].tab = t
    PROVE  FormInv' /\ EditInv' /\ ReportsAreTrue'
<1>1. detail'[t] = d /\ \A u \in Tabs : u # t => detail'[u] = detail[u]
  BY DEF PageInv, PagesTyped
<1>2. ASSUME NEW e \in Slots, context'[e] # None, context'[e].kind = "act"
      PROVE  context'[e] = context[e] /\ calls'[e] = calls[e]
  BY <1>2 DEF Kept
<1>3. ASSUME NEW e \in Slots, Running(e)'
      PROVE  /\ Running(e) /\ context'[e] = context[e] /\ calls'[e] = calls[e]
             /\ calls[e].tab = t => detail[t].on
  BY <1>3 DEF Running, Awaits, Kept, PageInv, FormInv
<1>4. ASSUME NEW e \in Slots, NEW k \in {"act", "get"}, Awaits(e, k)'
      PROVE  \/ calls'[e].tab = t
             \/ Awaits(e, k) /\ context'[e] = context[e] /\ calls'[e] = calls[e]
  BY <1>4 DEF Awaits, Kept
<1>6. FormInv'
  BY <1>1, <1>2, <1>4 DEF FormInv, PageInv
<1>7. EditInv'
  <2>1. ASSUME NEW e \in Slots, context'[e] # None, context'[e].kind = "act",
               calls'[e].answer \in {None, "conflict"}
        PROVE  ~context'[e].did
    BY <2>1, <1>2 DEF EditInv, PageInv
  <2>2. ASSUME NEW e \in Slots, Running(e)'
        PROVE  /\ detail'[calls'[e].tab].busy /\ detail'[calls'[e].tab].told = "nothing"
               /\ context'[e].kind = "get" => detail'[calls'[e].tab].did
    BY <2>2, <1>1, <1>3 DEF EditInv, PageInv
  <2>3. ASSUME NEW e \in Slots, NEW f \in Slots, Running(e)', Running(f)',
               calls'[e].tab = calls'[f].tab
        PROVE  e = f
    BY <2>3, <1>3 DEF EditInv, PageInv
  <2> QED
    BY <2>1, <2>2, <2>3 DEF EditInv
<1>8. ReportsAreTrue'
  BY <1>1 DEF ReportsAreTrue, PageInv
<1> QED
  BY <1>6, <1>7, <1>8

\* loadAsset, on a page that is or has just been opened.
LEMMA LoadStep ==
    ASSUME SessionTypeOK, PageInv, NEW c \in Slots, NEW t \in Tabs, NEW d \in DetailState,
           Free(c), Load(c, t, "nothing"),
           detail' = [detail EXCEPT ![t] = d], d.on, d.form \in {0, d.seen},
           detail[t].on => /\ d.busy = detail[t].busy /\ d.did = detail[t].did
                           /\ d.lost = detail[t].lost /\ d.told \in {detail[t].told, "nothing"},
           ~detail[t].on => d.told = "nothing"
    PROVE  PageInv'
<1> DEFINE x == GetContext("nothing")
<1>1. x \in Context /\ x.kind = "get" /\ x.mine /\ x.then = "nothing" /\ x # None
  BY GetTyped, NobodyAssumption
<1>2. /\ context' = [context EXCEPT ![c] = x] /\ calls' = [calls EXCEPT ![c] = Request(t, "page")]
      /\ calls[c] = None /\ version' = version /\ list' = list
  BY DEF Load, Send, Free
<1> HIDE DEF x
<1>3. context[c] = None
  BY <1>2 DEF PageInv, PagesTyped
<1>4. Asked(c, t) /\ context'[c] = x /\ calls'[c].tab = t
  BY <1>1, <1>2, AskedCall DEF Asked, PageInv, PagesTyped, SessionTypeOK
<1>5. ASSUME NEW e \in Slots, e # c PROVE Kept(e) /\ context'[e] = context[e] /\ calls'[e] = calls[e]
  BY <1>2, <1>5 DEF Kept, PageInv, PagesTyped, PageCall, SessionTypeOK
<1>6. PagesTyped'
  <2>1. context' \in [Slots -> Context \cup {None}] /\ detail' \in [Tabs -> DetailState]
    BY <1>1, <1>2 DEF PageInv, PagesTyped
  <2> QED
    BY <1>2, <1>4, <1>5, <2>1, TypesKept DEF PageInv, PagesTyped
<1>7. LoadInv'
  BY <1>1, <1>2, <1>3, <1>4, <1>5, LoadSame DEF PageInv, Awaits
<1>8. FormInv' /\ EditInv' /\ ReportsAreTrue'
  BY <1>1, <1>4, <1>5, DetailSet
<1> QED
  BY <1>6, <1>7, <1>8 DEF PageInv

\* A change of the form or of the warning alone.
LEMMA FormStep ==
    ASSUME SessionTypeOK, PageInv, NEW t \in Tabs, NEW d \in DetailState,
           detail' = [detail EXCEPT ![t] = d], d.on, d.form \in {0, d.seen}, detail[t].on,
           d.busy = detail[t].busy, d.did = detail[t].did, d.lost = detail[t].lost,
           d.told \in {detail[t].told, "nothing"},
           UNCHANGED <<session, version, list, context>>
    PROVE  PageInv'
<1>1. \A e \in Slots : Kept(e) /\ context'[e] = context[e] /\ calls'[e] = calls[e]
  BY DEF Kept, PageInv, PagesTyped, PageCall, session
<1>2. PagesTyped'
  BY <1>1, TypesKept DEF PageInv, PagesTyped
<1>3. LoadInv'
  BY <1>1, LoadSame DEF PageInv, Awaits
<1>4. FormInv' /\ EditInv' /\ ReportsAreTrue'
  BY <1>1, DetailSet
<1> QED
  BY <1>2, <1>3, <1>4 DEF PageInv

LEMMA DetailSteps ==
    ASSUME SessionTypeOK, PageInv, NEW t \in Tabs,
           \/ \E c \in Slots : OpenDetail(c, t) \/ LoadAgain(c, t) \/ ConfirmConflict(c, t)
           \/ OpenForm(t) \/ CancelForm(t) \/ DismissConflict(t)
    PROVE  PageInv'
<1>1. /\ detail[t] \in DetailState /\ detail[t].form \in {0, detail[t].seen}
      /\ ~detail[t].on => detail[t].seen = 0 /\ detail[t].told = "nothing"
  BY DEF PageInv, PagesTyped, FormInv
<1>2. ASSUME NEW c \in Slots, OpenDetail(c, t) PROVE PageInv'
  <2>1. NoDetail \in DetailState /\ NoDetail.form = 0 /\ NoDetail.told = "nothing"
    BY PagesAssumption DEF NoDetail, DetailState
  <2>2. ASSUME NEW n \in DetailState, n.form = 0, n.told = "nothing"
        PROVE  LET d == [n EXCEPT !.on = TRUE] IN
               d \in DetailState /\ d.on /\ d.form = 0 /\ d.told = "nothing"
    BY <2>2 DEF DetailState
  <2>3. LET d == [NoDetail EXCEPT !.on = TRUE] IN
        d \in DetailState /\ d.on /\ d.form = 0 /\ d.told = "nothing"
    BY <2>1, <2>2
  <2> QED
    BY <1>2, <2>3, LoadStep DEF OpenDetail
<1>3. ASSUME NEW c \in Slots, LoadAgain(c, t) PROVE PageInv'
  <2>1. detail' = [detail EXCEPT ![t] = detail[t]]
    BY <1>3 DEF LoadAgain, PageInv, PagesTyped
  <2> QED
    BY <1>1, <1>3, <2>1, LoadStep DEF LoadAgain
<1>4. ASSUME NEW d \in {[detail[t] EXCEPT !.told = "nothing"], [detail[t] EXCEPT !.form = 0],
                        [detail[t] EXCEPT !.form = detail[t].seen]}
      PROVE  /\ d \in DetailState /\ d.on = detail[t].on /\ d.form \in {0, d.seen}
             /\ d.busy = detail[t].busy /\ d.did = detail[t].did /\ d.lost = detail[t].lost
             /\ d.told \in {detail[t].told, "nothing"}
  BY <1>1, <1>4, PagesAssumption DEF DetailState
<1>5. ASSUME NEW c \in Slots, ConfirmConflict(c, t) PROVE PageInv'
  <2> DEFINE d == [detail[t] EXCEPT !.told = "nothing"]
  <2>1. detail' = [detail EXCEPT ![t] = d] /\ detail[t].on
    BY <1>1, <1>5 DEF ConfirmConflict
  <2>2. d \in {[detail[t] EXCEPT !.told = "nothing"]}
    OBVIOUS
  <2> HIDE DEF d
  <2> QED
    BY <1>4, <1>5, <2>1, <2>2, LoadStep DEF ConfirmConflict
<1>6. ASSUME NEW d \in {[detail[t] EXCEPT !.told = "nothing"], [detail[t] EXCEPT !.form = 0],
                        [detail[t] EXCEPT !.form = detail[t].seen]},
             detail' = [detail EXCEPT ![t] = d], detail[t].on,
             UNCHANGED <<session, version, list, context>>
      PROVE  PageInv'
  BY <1>4, <1>6, FormStep
<1>7. CASE OpenForm(t)
  <2>1. /\ detail' = [detail EXCEPT ![t] = [detail[t] EXCEPT !.form = detail[t].seen]]
        /\ detail[t].on
    BY <1>1, <1>7 DEF OpenForm
  <2> QED
    BY <1>6, <1>7, <2>1 DEF OpenForm
<1>8. CASE CancelForm(t)
  <2>1. detail' = [detail EXCEPT ![t] = [detail[t] EXCEPT !.form = 0]] /\ detail[t].on
    BY <1>1, <1>8 DEF CancelForm
  <2> QED
    BY <1>6, <1>8, <2>1 DEF CancelForm
<1>9. CASE DismissConflict(t)
  <2>1. detail' = [detail EXCEPT ![t] = [detail[t] EXCEPT !.told = "nothing"]] /\ detail[t].on
    BY <1>1, <1>9 DEF DismissConflict
  <2> QED
    BY <1>6, <1>9, <2>1 DEF DismissConflict
<1> QED
  BY <1>2, <1>3, <1>5, <1>7, <1>8, <1>9

LEMMA SaveStep ==
    ASSUME SessionTypeOK, PageInv, NEW c \in Slots, NEW t \in Tabs, Save(c, t)
    PROVE  PageInv'
<1> DEFINE x == ActContext(detail[t])
           d == [detail[t] EXCEPT !.busy = TRUE, !.told = "nothing", !.did = FALSE, !.lost = FALSE]
<1>1. /\ detail[t] \in DetailState /\ detail[t].form \in {0, detail[t].seen}
      /\ ~detail[t].on => detail[t].seen = 0
  BY DEF PageInv, PagesTyped, FormInv
<1>2. /\ context' = [context EXCEPT ![c] = x] /\ calls' = [calls EXCEPT ![c] = Request(t, "page")]
      /\ detail' = [detail EXCEPT ![t] = d]
      /\ calls[c] = None /\ version' = version /\ list' = list
      /\ detail[t].form # 0 /\ ~detail[t].busy
  BY DEF Save, Send, Free
<1>3. /\ x \in Context /\ x.kind = "act" /\ x.sent = x.basis /\ ~x.did /\ x # None
  <2>1. detail[t].form = detail[t].seen /\ detail[t].seen \in 1..MaxVersion
    BY <1>1, <1>2, PagesAssumption DEF DetailState
  <2>2. PICK v \in 1..MaxVersion : v = detail[t].seen /\ v = detail[t].form
    BY <2>1
  <2>3. x = [kind |-> "act", mine |-> TRUE, sent |-> v, basis |-> v, did |-> FALSE]
    BY <2>2 DEF ActContext
  <2>4. x \in Context
    BY <2>3 DEF Context
  <2>5. x.kind = "act" /\ x.sent = x.basis /\ x.did = FALSE
    BY <2>3
  <2> QED
    BY <2>4, <2>5, NobodyAssumption
<1>4. /\ d \in DetailState /\ d.on = detail[t].on /\ d.form = detail[t].form
      /\ d.seen = detail[t].seen /\ d.busy /\ d.told = "nothing"
  BY <1>1 DEF DetailState
<1> HIDE DEF x, d
<1>5. context[c] = None /\ detail[t].on
  BY <1>1, <1>2 DEF PageInv, PagesTyped
<1>6. Asked(c, t) /\ context'[c] = x /\ calls'[c].tab = t
  BY <1>2, <1>3, AskedCall DEF Asked, PageInv, PagesTyped, SessionTypeOK
<1>7. ASSUME NEW e \in Slots, e # c PROVE Kept(e) /\ context'[e] = context[e] /\ calls'[e] = calls[e]
  BY <1>2, <1>7 DEF Kept, PageInv, PagesTyped, PageCall, SessionTypeOK
<1>8. PagesTyped'
  <2>1. context' \in [Slots -> Context \cup {None}] /\ detail' \in [Tabs -> DetailState]
    BY <1>2, <1>3, <1>4 DEF PageInv, PagesTyped
  <2> QED
    BY <1>2, <1>6, <1>7, <2>1, TypesKept DEF PageInv, PagesTyped
<1>9. LoadInv'
  BY <1>2, <1>3, <1>5, <1>6, <1>7, LoadSame DEF PageInv, Awaits
<1>10. detail'[t] = d /\ \A u \in Tabs : u # t => detail'[u] = detail[u]
  BY <1>2 DEF PageInv, PagesTyped
<1>11. ASSUME NEW e \in Slots, Running(e)'
       PROVE  e = c \/ (Running(e) /\ context'[e] = context[e] /\ calls'[e] = calls[e] /\ calls[e].tab # t)
  <2>1. CASE e # c
    <3>1. Running(e) /\ context'[e] = context[e] /\ calls'[e] = calls[e]
      BY <1>7, <1>11, <2>1 DEF Running, Awaits
    <3> QED
      BY <1>2, <3>1 DEF PageInv, EditInv
  <2> QED
    BY <2>1
<1>12. FormInv'
  <2>1. ASSUME NEW u \in Tabs
        PROVE  /\ detail'[u].form \in {0, detail'[u].seen}
               /\ ~detail'[u].on => detail'[u].seen = 0 /\ detail'[u].told = "nothing"
    BY <1>1, <1>4, <1>10 DEF FormInv, PageInv
  <2>2. ASSUME NEW e \in Slots, Awaits(e, "act")' \/ Awaits(e, "get")'
        PROVE  detail'[calls'[e].tab].on
    <3>1. CASE e = c
      BY <1>4, <1>5, <1>6, <1>10, <3>1
    <3>2. CASE e # c
      <4>1. detail[calls[e].tab].on
        BY <1>7, <2>2, <3>2 DEF Awaits, FormInv, PageInv
      <4>2. calls[e].tab \in Tabs /\ calls'[e] = calls[e]
        BY <1>7, <2>2, <3>2, TabOf DEF Awaits, PageInv
      <4> QED
        BY <1>4, <1>5, <1>10, <4>1, <4>2
    <3> QED
      BY <3>1, <3>2
  <2>3. ASSUME NEW e \in Slots, context'[e] # None, context'[e].kind = "act"
        PROVE  context'[e].sent = context'[e].basis
    BY <2>3, <1>3, <1>6, <1>7 DEF FormInv, PageInv
  <2> QED
    BY <2>1, <2>2, <2>3 DEF FormInv
<1>13. EditInv'
  <2>1. ASSUME NEW e \in Slots, context'[e] # None, context'[e].kind = "act",
               calls'[e].answer \in {None, "conflict"}
        PROVE  ~context'[e].did
    BY <2>1, <1>3, <1>6, <1>7 DEF EditInv, PageInv
  <2>2. ASSUME NEW e \in Slots, Running(e)'
        PROVE  /\ detail'[calls'[e].tab].busy /\ detail'[calls'[e].tab].told = "nothing"
               /\ context'[e].kind = "get" => detail'[calls'[e].tab].did
    BY <2>2, <1>2, <1>3, <1>4, <1>6, <1>10, <1>11 DEF EditInv, PageInv
  <2>3. ASSUME NEW e \in Slots, NEW f \in Slots, Running(e)', Running(f)',
               calls'[e].tab = calls'[f].tab
        PROVE  e = f
    BY <2>3, <1>6, <1>11 DEF EditInv, PageInv
  <2> QED
    BY <2>1, <2>2, <2>3 DEF EditInv
<1>14. ReportsAreTrue'
  BY <1>4, <1>10 DEF ReportsAreTrue, PageInv
<1> QED
  BY <1>8, <1>9, <1>12, <1>13, <1>14 DEF PageInv

-----------------------------------------------------------------------------
(* Pages that go, and calls that have nothing to do with them.              *)

\* A tab leaves its page: nobody waits for its calls any more.
LEMMA UnmountStep ==
    ASSUME SessionTypeOK, PageInv, NEW t \in Tabs, Unmount(t), version' = version,
           context' \in [Slots -> Context \cup {None}],
           \A e \in Slots :
              \/ Kept(e) /\ (context[e] # None => calls[e].tab # t)
              \/ (Silenced(e) \/ Gone(e)) /\ (context[e] # None => calls[e].tab = t)
    PROVE  PageInv'
<1>1. /\ NoList \in ListState /\ ~NoList.on /\ NoList.load = None /\ NoList.rows = None
      /\ NoDetail \in DetailState /\ NoDetail.seen = 0 /\ NoDetail.form = 0
      /\ NoDetail.told = "nothing"
  BY PagesAssumption DEF NoList, ListState, NoDetail, DetailState
<1>2. /\ list' \in [Tabs -> ListState] /\ detail' \in [Tabs -> DetailState]
      /\ list'[t] = NoList /\ detail'[t] = NoDetail
      /\ \A u \in Tabs : u # t => list'[u] = list[u] /\ detail'[u] = detail[u]
      /\ list' = [list EXCEPT ![t] = NoList] /\ detail' = [detail EXCEPT ![t] = NoDetail]
  BY <1>1 DEF Unmount, PageInv, PagesTyped
<1> HIDE DEF Unmount
<1>3. ASSUME NEW e \in Slots, NEW k, Awaits(e, k)'
      PROVE  Awaits(e, k) /\ context'[e] = context[e] /\ calls'[e] = calls[e] /\ calls[e].tab # t
  BY <1>3 DEF Awaits, Silenced, Kept, Gone
<1>4. ASSUME NEW e \in Slots, NEW k, Awaits(e, k), calls[e].tab # t
      PROVE  Awaits(e, k)' /\ calls'[e] = calls[e]
  BY <1>4 DEF Awaits, Kept
<1>5. PagesTyped'
  BY <1>2, TypesKept DEF PageInv, PagesTyped
<1>6. LoadInv'
  <2>1. ASSUME NEW u \in Tabs, u # t
        PROVE  /\ list'[u].load = None /\ list'[u].rows # None => list'[u].rows = QueryOf(list'[u])
               /\ \A d \in Slots :
                     /\ list'[u].load = d <=> Awaits(d, "list")' /\ calls'[d].tab = u
                     /\ list'[u].load = d => list'[u].on /\ context'[d].query = QueryOf(list'[u])
    BY <1>2, <1>3, <1>4, <2>1 DEF PageInv, LoadInv
  <2>2. ASSUME NEW d \in Slots PROVE ~(Awaits(d, "list")' /\ calls'[d].tab = t)
    BY <1>3
  <2> QED
    BY <1>1, <1>2, <2>1, <2>2, NoneAssumption DEF LoadInv
<1>7. ASSUME NEW e \in Slots, Running(e)'
      PROVE  Running(e) /\ context'[e] = context[e] /\ calls'[e] = calls[e] /\ calls[e].tab # t
  BY <1>3, <1>7 DEF Running
<1>8. FormInv'
  <2>1. ASSUME NEW e \in Slots, context'[e] # None, context'[e].kind = "act"
        PROVE  context'[e].sent = context'[e].basis
    BY <2>1 DEF PageInv, FormInv, Kept, Silenced, Gone
  <2> QED
    BY <1>1, <1>2, <1>3, <2>1 DEF PageInv, FormInv
<1>9. EditInv'
  <2>1. ASSUME NEW e \in Slots, context'[e] # None, context'[e].kind = "act",
               calls'[e].answer \in {None, "conflict"}
        PROVE  ~context'[e].did
    BY <2>1 DEF PageInv, EditInv, Kept, Silenced, Gone
  <2>2. ASSUME NEW e \in Slots, Running(e)'
        PROVE  /\ detail'[calls'[e].tab].busy /\ detail'[calls'[e].tab].told = "nothing"
               /\ context'[e].kind = "get" => detail'[calls'[e].tab].did
    BY <2>2, <1>2, <1>7 DEF EditInv, PageInv
  <2>3. ASSUME NEW e \in Slots, NEW f \in Slots, Running(e)', Running(f)',
               calls'[e].tab = calls'[f].tab
        PROVE  e = f
    BY <2>3, <1>7 DEF EditInv, PageInv
  <2> QED
    BY <2>1, <2>2, <2>3 DEF EditInv
<1>10. ReportsAreTrue'
  BY <1>1, <1>2 DEF PageInv, ReportsAreTrue
<1> QED
  BY <1>5, <1>6, <1>8, <1>9, <1>10 DEF PageInv

LEMMA ElsewhereStep ==
    ASSUME SessionTypeOK, PageInv, UNCHANGED <<list, detail, context>>, version' \in 1..MaxVersion,
           \A e \in Slots : Kept(e)
    PROVE  PageInv'
<1>1. PagesTyped'
  BY TypesKept DEF PageInv, PagesTyped
<1>2. LoadInv'
  BY LoadSame DEF PageInv, Awaits, Kept
<1>3. FormInv' /\ EditInv' /\ ReportsAreTrue'
  BY EditSame DEF PageInv
<1> QED
  BY <1>1, <1>2, <1>3 DEF PageInv

LEMMA LeavingSteps ==
    ASSUME SessionTypeOK, PageInv, NEW t \in Tabs, Leave(t) \/ LogoutLeaves(t) \/ StartAgain(t)
    PROVE  PageInv'
<1>1. CASE Leave(t) \/ LogoutLeaves(t)
  <2>1. /\ Unmount(t) /\ context' = Cancelled(t, Everything)
        /\ version' = version /\ calls' = calls
    BY <1>1 DEF Leave, LogoutLeaves, Logout, session
  <2>2. ASSUME NEW e \in Slots
        PROVE  \/ Kept(e) /\ (context[e] # None => calls[e].tab # t)
               \/ Silenced(e) /\ (context[e] # None => calls[e].tab = t)
    <3>1. IF context[e] # None /\ context[e].kind \in Everything /\ calls[e].tab = t
          THEN Silenced(e) ELSE Kept(e)
      BY <2>1, CancelledSlot DEF PageInv
    <3>2. context[e] # None => context[e].kind \in Everything
      BY DEF PageInv, PagesTyped, Context, Everything
    <3> QED
      BY <3>1, <3>2
  <2> QED
    BY <2>1, <2>2, CancelledTyped, UnmountStep DEF PageInv
<1>2. CASE StartAgain(t)
  <2>1. /\ Unmount(t) /\ version' = version
        /\ context' = [c \in Slots |-> IF calls[c] # None /\ calls[c].tab = t THEN None ELSE context[c]]
        /\ calls' = [c \in Slots |-> IF calls[c] # None /\ calls[c].tab = t THEN None ELSE calls[c]]
    BY <1>2 DEF StartAgain, LoadApplication
  <2>2. ASSUME NEW e \in Slots
        PROVE  \/ Kept(e) /\ (context[e] # None => calls[e].tab # t)
               \/ Gone(e) /\ (context[e] # None => calls[e].tab = t)
    BY <2>1 DEF Kept, Gone, PageCall, PageInv, PagesTyped
  <2>3. context' \in [Slots -> Context \cup {None}]
    BY <2>1 DEF PageInv, PagesTyped
  <2> QED
    BY <2>1, <2>2, <2>3, UnmountStep
<1> QED
  BY <1>1, <1>2

LEMMA ElsewhereSteps ==
    ASSUME SessionTypeOK, PageInv,
           \/ \E c \in Slots : \/ \E t \in Tabs, p \in People : SubmitLogin(c, t, p) /\ UNCHANGED pages
                               \/ AnswerLogin(c) /\ UNCHANGED pages
           \/ OthersEdit \/ ((LifetimePasses \/ Reseed) /\ UNCHANGED pages) \/ UNCHANGED vars
    PROVE  PageInv'
<1>1. ASSUME NEW c \in Slots, NEW t \in Tabs, NEW p \in People, SubmitLogin(c, t, p), UNCHANGED pages
      PROVE  PageInv'
  <2>1. calls[c] = None /\ calls' = [calls EXCEPT ![c] = Request(t, p)] /\ context[c] = None
    BY <1>1 DEF SubmitLogin, Send, Free, PageInv, PagesTyped
  <2>2. Request(t, p).errand # "page"
    BY SessionAssumption DEF Request
  <2>3. \A e \in Slots : Kept(e)
    BY <1>1, <2>1, <2>2 DEF Kept, pages, PageInv, PagesTyped, PageCall, SessionTypeOK
  <2> QED
    BY <1>1, <2>3, ElsewhereStep DEF pages, PageInv, PagesTyped
<1>2. ASSUME NEW c \in Slots, AnswerLogin(c), UNCHANGED pages PROVE PageInv'
  <2>1. calls[c] # None /\ calls[c].errand # "page" /\ calls[c] \in Call
    BY <1>2, SessionAssumption DEF AnswerLogin, Waiting, SessionTypeOK
  <2>2. \A e \in Slots : e # c => calls'[e] = calls[e]
    BY <1>2 DEF AnswerLogin, SessionTypeOK
  <2>3. calls'[c].errand = calls[c].errand
    BY <1>2, <2>1 DEF AnswerLogin, SessionTypeOK, Call
  <2>4. \A e \in Slots : Kept(e)
    BY <1>2, <2>1, <2>2, <2>3 DEF Kept, pages, PageInv, PagesTyped, PageCall
  <2> QED
    BY <1>2, <2>4, ElsewhereStep DEF pages, PageInv, PagesTyped
<1>3. CASE OthersEdit \/ ((LifetimePasses \/ Reseed) /\ UNCHANGED pages) \/ UNCHANGED vars
  <2>1. UNCHANGED <<calls, list, detail, context>>
    BY <1>3 DEF OthersEdit, LifetimePasses, Reseed, pages, vars, session
  <2>2. version' \in 1..MaxVersion
    <3>1. version \in 1..MaxVersion
      BY DEF PageInv, PagesTyped
    <3> QED
      BY <1>3, <3>1, PagesAssumption DEF OthersEdit, pages, vars
  <2>3. \A e \in Slots : Kept(e)
    BY <2>1 DEF Kept, PageInv, PagesTyped, PageCall
  <2> QED
    BY <2>1, <2>2, <2>3, ElsewhereStep
<1> QED
  BY <1>1, <1>2, <1>3

-----------------------------------------------------------------------------
(* The server, and its answers.                                             *)

\* The server has answered call c of a page; what it did, the code does not know yet.
LEMMA AnswerStep ==
    ASSUME SessionTypeOK, PageInv, NEW c \in Slots, context[c] # None,
           NEW a \in {"ok", "refused", "failed", "conflict"}, Reply(c, a),
           NEW x \in Context, context' = [context EXCEPT ![c] = x],
           x.kind = context[c].kind, x.mine = context[c].mine,
           x.kind = "list" => x.query = context[c].query,
           x.kind = "get" => x.then = context[c].then,
           x.kind = "act" => /\ x.sent = context[c].sent /\ x.basis = context[c].basis
                             /\ a = "conflict" => ~x.did,
           version' \in 1..MaxVersion, UNCHANGED <<list, detail>>
    PROVE  PageInv'
<1>1. calls[c] \in Call /\ calls[c] # None /\ calls[c].errand = "page"
  BY TabOf DEF PageInv, PagesTyped
<1>2. /\ calls'[c] \in Call /\ calls'[c].answer = a /\ calls'[c].tab = calls[c].tab
      /\ calls'[c].errand = calls[c].errand
      /\ \A e \in Slots : e # c => calls'[e] = calls[e]
  <2>1. /\ calls'[c] = [calls[c] EXCEPT !.answer = a]
        /\ \A e \in Slots : e # c => calls'[e] = calls[e]
    BY DEF Reply, SessionTypeOK
  <2> QED
    BY <1>1, <2>1, AnswerTyped DEF Call
<1>3. /\ context'[c] = x /\ \A e \in Slots : e # c => context'[e] = context[e]
      /\ context' \in [Slots -> Context \cup {None}] /\ x # None /\ calls'[c] # None
  BY <1>2, NobodyAssumption, NoneAssumption DEF PageInv, PagesTyped
<1>4. PagesTyped'
  BY <1>1, <1>2, <1>3 DEF PageInv, PagesTyped
<1>5. LoadInv'
  <2>1. ASSUME NEW d \in Slots
        PROVE  \/ ~Awaits(d, "list") /\ ~Awaits(d, "list")'
               \/ /\ Awaits(d, "list") /\ Awaits(d, "list")'
                  /\ context'[d].query = context[d].query /\ calls'[d].tab = calls[d].tab
    BY <1>2, <1>3 DEF Awaits
  <2> QED
    BY <2>1, LoadSame DEF PageInv
<1>6. \A e \in Slots : calls'[e].tab = calls[e].tab
  BY <1>2
<1>7. \A e \in Slots : /\ Running(e)' <=> Running(e)
                       /\ Running(e) => context'[e].kind = context[e].kind
                       /\ \A k \in {"act", "get"} : Awaits(e, k)' <=> Awaits(e, k)
  BY <1>3 DEF Running, Awaits
<1>8. FormInv'
  BY <1>3, <1>6, <1>7 DEF PageInv, FormInv
<1>9. EditInv'
  <2>1. ASSUME NEW e \in Slots, context'[e] # None, context'[e].kind = "act",
               calls'[e].answer \in {None, "conflict"}
        PROVE  ~context'[e].did
    BY <2>1, <1>2, <1>3, NoneAssumption DEF EditInv, PageInv
  <2> QED
    BY <1>6, <1>7, <2>1 DEF EditInv, PageInv
<1> QED
  BY <1>4, <1>5, <1>8, <1>9 DEF PageInv, ReportsAreTrue

LEMMA ServeSteps ==
    ASSUME SessionTypeOK, PageInv, NEW c \in Slots,
           RefuseOrFail(c) \/ ServeRead(c) \/ ServeEdit(c)
    PROVE  PageInv'
<1>1. context[c] # None /\ context[c] \in Context /\ calls[c].answer = None
  BY DEF RefuseOrFail, ServeRead, ServeEdit, Waiting, PageInv, PagesTyped
<1>3. context = [context EXCEPT ![c] = context[c]] /\ version \in 1..MaxVersion
  BY DEF PageInv, PagesTyped
<1>4. context[c].kind = "act" => ~context[c].did
  BY <1>1 DEF PageInv, EditInv
<1>5. CASE RefuseOrFail(c)
  BY <1>1, <1>3, <1>4, <1>5, AnswerStep DEF RefuseOrFail, pages
<1>6. CASE ServeRead(c)
  <2>1. CASE context' = context
    BY <1>1, <1>3, <1>4, <1>6, <2>1, AnswerStep DEF ServeRead
  <2>2. CASE context[c].kind = "get" /\ context' = [context EXCEPT ![c].got = version]
    <3> DEFINE x == [context[c] EXCEPT !.got = version]
    <3>1. x \in Context /\ x.kind = "get" /\ x.mine = context[c].mine /\ x.then = context[c].then
      BY <1>1, <1>3, <2>2, PagesAssumption DEF Context
    <3>2. context' = [context EXCEPT ![c] = x]
      BY <2>2
    <3> HIDE DEF x
    <3> QED
      <4>1. Reply(c, "ok") /\ version' \in 1..MaxVersion /\ UNCHANGED <<list, detail>>
        BY <1>3, <1>6 DEF ServeRead
      <4>2. x.kind = context[c].kind /\ x.kind \notin {"list", "act"}
        BY <2>2, <3>1
      <4> QED
        BY <1>1, <3>1, <3>2, <4>1, <4>2, AnswerStep
  <2> QED
    BY <1>6, <2>1, <2>2 DEF ServeRead
<1>7. CASE ServeEdit(c)
  <2>1. CASE context[c].sent = version
    <3> DEFINE x == [context[c] EXCEPT !.did = TRUE]
    <3>1. /\ x \in Context /\ x.kind = "act" /\ x.mine = context[c].mine
          /\ x.sent = context[c].sent /\ x.basis = context[c].basis
      BY <1>1, <1>7 DEF Context, ServeEdit
    <3>2. context' = [context EXCEPT ![c] = x] /\ version' \in 1..MaxVersion
      BY <1>3, <1>7, <2>1, PagesAssumption DEF ServeEdit
    <3> HIDE DEF x
    <3>3. ASSUME NEW a \in {"ok", "failed"}, Reply(c, a) PROVE PageInv'
      BY <1>1, <1>7, <3>1, <3>2, <3>3, AnswerStep DEF ServeEdit
    <3> QED
      BY <1>7, <2>1, <3>3 DEF ServeEdit
  <2>2. CASE context[c].sent # version
    BY <1>1, <1>3, <1>4, <1>7, <2>2, AnswerStep DEF ServeEdit
  <2> QED
    BY <2>1, <2>2
<1> QED
  BY <1>5, <1>6, <1>7

-----------------------------------------------------------------------------
(* Answers arrive.                                                          *)

LEMMA RestStep ==
    ASSUME SessionTypeOK, PageInv, NEW c \in Slots, context[c] # None, context[c].kind = "list",
           FetchRest(c)
    PROVE  PageInv'
<1> DEFINE rest == [context[c] EXCEPT !.part = 2]
           x == IF context[c].mine THEN rest ELSE Orphan(rest)
           t == calls[c].tab
<1>1. t \in Tabs /\ calls[c] # None
  BY TabOf DEF PageInv
<1>2. /\ context' = [context EXCEPT ![c] = x]
      /\ calls' = [calls EXCEPT ![c] = Request(t, "page")]
      /\ UNCHANGED <<version, list, detail>>
  BY DEF FetchRest, Send
<1>3. /\ x \in Context /\ x.kind = "list" /\ x.mine = context[c].mine
      /\ context[c].mine => x.query = context[c].query
  <2>1. context[c] \in Context
    BY DEF PageInv, PagesTyped
  <2>2. rest \in Context /\ rest.kind = "list" /\ rest.mine = context[c].mine
        /\ rest.query = context[c].query
    BY <2>1 DEF Context
  <2> HIDE DEF rest
  <2>3. Orphan(rest) \in Context /\ Orphan(rest).kind = "list" /\ ~Orphan(rest).mine
    BY <2>2, OrphanTyped
  <2>4. CASE context[c].mine
    BY <2>2, <2>4
  <2>5. CASE ~context[c].mine
    <3>1. x = Orphan(rest)
      BY <2>5
    <3>2. Orphan(rest).mine \in BOOLEAN /\ context[c].mine \in BOOLEAN
      BY <2>1, <2>3 DEF Context
    <3> QED
      BY <2>3, <2>5, <3>1, <3>2
  <2> QED
    BY <2>4, <2>5
<1> HIDE DEF x
<1>4. /\ context'[c] = x /\ Asked(c, t) /\ calls'[c].tab = t /\ x # None
      /\ context' \in [Slots -> Context \cup {None}]
  BY <1>1, <1>2, <1>3, AskedCall, NobodyAssumption DEF Asked, PageInv, PagesTyped, SessionTypeOK
<1>5. \A e \in Slots : e # c => Kept(e) /\ context'[e] = context[e] /\ calls'[e] = calls[e]
  BY <1>2 DEF Kept, PageInv, PagesTyped, PageCall, SessionTypeOK
<1>6. PagesTyped'
  BY <1>1, <1>2, <1>4, <1>5, TypesKept DEF PageInv, PagesTyped
<1>7. LoadInv'
  <2>1. ASSUME NEW d \in Slots
        PROVE  \/ ~Awaits(d, "list") /\ ~Awaits(d, "list")'
               \/ /\ Awaits(d, "list") /\ Awaits(d, "list")'
                  /\ context'[d].query = context[d].query /\ calls'[d].tab = calls[d].tab
    <3>1. CASE d = c
      BY <1>3, <1>4, <3>1 DEF Awaits
    <3>2. CASE d # c
      BY <1>5, <3>2 DEF Awaits
    <3> QED
      BY <3>1, <3>2
  <2> QED
    BY <1>2, <2>1, LoadSame DEF PageInv
<1>8. FormInv' /\ EditInv' /\ ReportsAreTrue'
  BY <1>2, <1>3, <1>4, <1>5, EditSame DEF PageInv
<1> QED
  BY <1>6, <1>7, <1>8 DEF PageInv

\* A call that has been answered and is not repeated is gone.
LEMMA DroppedCall ==
    ASSUME SessionTypeOK, PageInv, NEW c \in Slots, Drop(c)
    PROVE  /\ Gone(c) /\ context'[c] = None
           /\ \A e \in Slots : e # c => Kept(e) /\ context'[e] = context[e] /\ calls'[e] = calls[e]
           /\ context' \in [Slots -> Context \cup {None}]
  BY DEF Drop, Gone, Kept, PageCall, PageInv, PagesTyped, SessionTypeOK

LEMMA ShowStep ==
    ASSUME SessionTypeOK, PageInv, NEW c \in Slots, context[c] # None, context[c].kind = "list",
           ShowRows(c), Drop(c), version' = version
    PROVE  PageInv'
<1> DEFINE t == calls[c].tab
           q == IF calls[c].answer = "ok" THEN context[c].query ELSE None
           m == [list[t] EXCEPT !.load = None, !.rows = q]
<1>1. t \in Tabs /\ context[c] \in Context /\ list[t] \in ListState
  BY TabOf DEF PageInv, PagesTyped
<1>2. /\ m \in ListState /\ m.load = None /\ m.rows = q /\ QueryOf(m) = QueryOf(list[t])
      /\ q \in {context[c].query, None}
  <2>1. q \in Query \cup {None}
    BY <1>1 DEF Context
  <2> HIDE DEF q
  <2> QED
    BY <1>1, <2>1 DEF ListState, QueryOf, q
<1>3. /\ detail' = detail
      /\ context[c].mine => list' = [list EXCEPT ![t] = m]
      /\ ~context[c].mine => list' = list
  BY DEF ShowRows
<1> HIDE DEF m, q
<1>4. /\ Gone(c) /\ context'[c] = None /\ context' \in [Slots -> Context \cup {None}]
      /\ \A e \in Slots : e # c => Kept(e) /\ context'[e] = context[e] /\ calls'[e] = calls[e]
  BY DroppedCall
<1>5. list' \in [Tabs -> ListState]
  BY <1>1, <1>2, <1>3 DEF PageInv, PagesTyped
<1>6. PagesTyped'
  BY <1>3, <1>4, <1>5, TypesKept DEF PageInv, PagesTyped
<1>7. LoadInv'
  <2>1. CASE ~context[c].mine
    <3>1. ~Awaits(c, "list") /\ ~Awaits(c, "list")'
      BY <1>4, <2>1 DEF Awaits
    <3>2. \A d \in Slots : d # c => /\ Awaits(d, "list")' <=> Awaits(d, "list")
                                    /\ context'[d] = context[d] /\ calls'[d] = calls[d]
      BY <1>4 DEF Awaits
    <3> QED
      BY <1>3, <2>1, <3>1, <3>2, LoadSame DEF PageInv
  <2>2. CASE context[c].mine
    <3>1. Awaits(c, "list") /\ ~Awaits(c, "list")'
      BY <1>4, <2>2 DEF Awaits
    <3>2. list[t].load = c /\ context[c].query = QueryOf(list[t])
      BY <1>1, <3>1 DEF PageInv, LoadInv
    <3>3. list'[t] = m /\ \A u \in Tabs : u # t => list'[u] = list[u]
      BY <1>1, <1>3, <2>2 DEF PageInv, PagesTyped
    <3>4. \A d \in Slots : d # c => /\ Awaits(d, "list")' <=> Awaits(d, "list")
                                    /\ context'[d] = context[d] /\ calls'[d] = calls[d]
      BY <1>4 DEF Awaits
    <3>5. ASSUME NEW d \in Slots PROVE ~(Awaits(d, "list")' /\ calls'[d].tab = t)
      <4>1. CASE d = c
        BY <3>1, <4>1
      <4>2. CASE d # c
        BY <1>1, <3>2, <3>4, <4>2 DEF PageInv, LoadInv
      <4> QED
        BY <4>1, <4>2
    <3>6. ASSUME NEW u \in Tabs, u # t
          PROVE  /\ list'[u].load = None /\ list'[u].rows # None => list'[u].rows = QueryOf(list'[u])
                 /\ \A d \in Slots :
                       /\ list'[u].load = d <=> Awaits(d, "list")' /\ calls'[d].tab = u
                       /\ list'[u].load = d => list'[u].on /\ context'[d].query = QueryOf(list'[u])
      BY <3>1, <3>3, <3>4, <3>6 DEF PageInv, LoadInv
    <3>7. /\ list'[t].load = None /\ list'[t].rows # None => list'[t].rows = QueryOf(list'[t])
          /\ \A d \in Slots : list'[t].load # d
      BY <1>2, <3>2, <3>3, NoneAssumption
    <3> QED
      BY <3>5, <3>6, <3>7 DEF LoadInv
  <2> QED
    BY <2>1, <2>2
<1>8. FormInv' /\ EditInv' /\ ReportsAreTrue'
  BY <1>3, <1>4, EditSame DEF PageInv
<1> QED
  BY <1>6, <1>7, <1>8 DEF PageInv

\* The code that awaited a call of the detail page has done its work.
LEMMA DetailReturns ==
    ASSUME SessionTypeOK, PageInv, NEW c \in Slots, Awaits(c, "act") \/ Awaits(c, "get"), Drop(c),
           NEW d \in DetailState, detail' = [detail EXCEPT ![calls[c].tab] = d],
           d.on = detail[calls[c].tab].on, d.form \in {0, d.seen},
           \/ /\ ~Running(c)
              /\ d.busy = detail[calls[c].tab].busy /\ d.told = detail[calls[c].tab].told
              /\ d.did = detail[calls[c].tab].did /\ d.lost = detail[calls[c].tab].lost
           \/ /\ Running(c)
              /\ d.told = "success" => d.did
              /\ d.told = "conflict" => ~d.did
              /\ d.told = "failure" /\ d.did => d.lost,
           version' = version, list' = list
    PROVE  PageInv'
<1> DEFINE t == calls[c].tab
<1>1. t \in Tabs /\ detail[t].on
  BY TabOf DEF PageInv, Awaits, FormInv
<1>2. /\ Gone(c) /\ context'[c] = None /\ context' \in [Slots -> Context \cup {None}]
      /\ \A e \in Slots : e # c => Kept(e) /\ context'[e] = context[e] /\ calls'[e] = calls[e]
  BY DroppedCall
<1>3. /\ detail'[t] = d /\ detail' \in [Tabs -> DetailState]
      /\ \A u \in Tabs : u # t => detail'[u] = detail[u]
  BY <1>1 DEF PageInv, PagesTyped
<1>4. PagesTyped'
  BY <1>2, <1>3, TypesKept DEF PageInv, PagesTyped
<1>5. LoadInv'
  <2>1. ASSUME NEW e \in Slots
        PROVE  \/ ~Awaits(e, "list") /\ ~Awaits(e, "list")'
               \/ /\ Awaits(e, "list") /\ Awaits(e, "list")'
                  /\ context'[e].query = context[e].query /\ calls'[e].tab = calls[e].tab
    BY <1>2 DEF Awaits
  <2> QED
    BY <2>1, LoadSame DEF PageInv
<1>6. ASSUME NEW e \in Slots, NEW k, Awaits(e, k)'
      PROVE  /\ Awaits(e, k) /\ context'[e] = context[e] /\ calls'[e] = calls[e]
             /\ calls[e].tab \in Tabs /\ e # c
  BY <1>2, <1>6, TabOf DEF Awaits, PageInv
<1>7. FormInv'
  <2>1. ASSUME NEW u \in Tabs
        PROVE  /\ detail'[u].form \in {0, detail'[u].seen}
               /\ ~detail'[u].on => detail'[u].seen = 0 /\ detail'[u].told = "nothing"
    BY <1>1, <1>3 DEF FormInv, PageInv
  <2>2. ASSUME NEW e \in Slots, Awaits(e, "act")' \/ Awaits(e, "get")'
        PROVE  detail'[calls'[e].tab].on
    <3>1. /\ Awaits(e, "act") \/ Awaits(e, "get")
          /\ calls'[e] = calls[e] /\ calls[e].tab \in Tabs
      BY <1>6, <2>2
    <3>2. detail[calls[e].tab].on
      BY <3>1 DEF FormInv, PageInv
    <3> QED
      BY <1>3, <3>1, <3>2
  <2>3. ASSUME NEW e \in Slots, context'[e] # None, context'[e].kind = "act"
        PROVE  context'[e].sent = context'[e].basis
    BY <2>3, <1>2 DEF FormInv, PageInv
  <2> QED
    BY <2>1, <2>2, <2>3 DEF FormInv
<1>8. ASSUME NEW e \in Slots, Running(e)'
      PROVE  /\ Running(e) /\ context'[e] = context[e] /\ calls'[e] = calls[e]
             /\ calls[e].tab \in Tabs /\ e # c
             /\ Running(c) => calls[e].tab # t
  <2>1. /\ Running(e) /\ context'[e] = context[e] /\ calls'[e] = calls[e]
        /\ calls[e].tab \in Tabs /\ e # c
    BY <1>6, <1>8 DEF Running
  <2> QED
    BY <2>1 DEF PageInv, EditInv
<1>9. EditInv'
  <2>1. ASSUME NEW e \in Slots, context'[e] # None, context'[e].kind = "act",
               calls'[e].answer \in {None, "conflict"}
        PROVE  ~context'[e].did
    BY <2>1, <1>2 DEF EditInv, PageInv
  <2>2. ASSUME NEW e \in Slots, Running(e)'
        PROVE  /\ detail'[calls'[e].tab].busy /\ detail'[calls'[e].tab].told = "nothing"
               /\ context'[e].kind = "get" => detail'[calls'[e].tab].did
    <3>1. /\ detail[calls[e].tab].busy /\ detail[calls[e].tab].told = "nothing"
          /\ context[e].kind = "get" => detail[calls[e].tab].did
      BY <1>8, <2>2 DEF EditInv, PageInv
    <3>2. CASE calls[e].tab = t
      BY <1>1, <1>3, <1>8, <2>2, <3>1, <3>2
    <3>3. CASE calls[e].tab # t
      BY <1>3, <1>8, <2>2, <3>1, <3>3
    <3> QED
      BY <3>2, <3>3
  <2>3. ASSUME NEW e \in Slots, NEW f \in Slots, Running(e)', Running(f)',
               calls'[e].tab = calls'[f].tab
        PROVE  e = f
    BY <2>3, <1>8 DEF EditInv, PageInv
  <2> QED
    BY <2>1, <2>2, <2>3 DEF EditInv
<1>10. ReportsAreTrue'
  <2>1. ASSUME NEW u \in Tabs
        PROVE  /\ detail'[u].told = "success" => detail'[u].did
               /\ detail'[u].told = "conflict" => ~detail'[u].did
               /\ detail'[u].told = "failure" /\ detail'[u].did => detail'[u].lost
    <3>1. CASE u # t
      BY <1>3, <3>1 DEF ReportsAreTrue, PageInv
    <3>2. CASE u = t
      BY <1>1, <1>3, <3>2 DEF ReportsAreTrue, PageInv
    <3> QED
      BY <3>1, <3>2
  <2> QED
    BY <2>1 DEF ReportsAreTrue
<1> QED
  BY <1>4, <1>5, <1>7, <1>9, <1>10 DEF PageInv

\* The code that finds itself unmounted does nothing.
LEMMA ForgottenStep ==
    ASSUME SessionTypeOK, PageInv, NEW c \in Slots, context[c] # None, ~context[c].mine, Drop(c),
           UNCHANGED <<version, list, detail>>
    PROVE  PageInv'
<1>1. /\ Gone(c) /\ context'[c] = None /\ context' \in [Slots -> Context \cup {None}]
      /\ \A e \in Slots : e # c => Kept(e) /\ context'[e] = context[e] /\ calls'[e] = calls[e]
  BY DroppedCall
<1>2. PagesTyped'
  BY <1>1, TypesKept DEF PageInv, PagesTyped
<1>3. LoadInv'
  <2>1. ASSUME NEW d \in Slots
        PROVE  \/ ~Awaits(d, "list") /\ ~Awaits(d, "list")'
               \/ /\ Awaits(d, "list") /\ Awaits(d, "list")'
                  /\ context'[d].query = context[d].query /\ calls'[d].tab = calls[d].tab
    BY <1>1 DEF Awaits
  <2> QED
    BY <2>1, LoadSame DEF PageInv
<1>4. FormInv' /\ EditInv' /\ ReportsAreTrue'
  BY <1>1, EditSame DEF PageInv
<1> QED
  BY <1>2, <1>3, <1>4 DEF PageInv

LEMMA SuccessTyped ==
    ASSUME NEW d \in DetailState
    PROVE  LET f == [d EXCEPT !.told = "success", !.busy = FALSE, !.form = 0] IN
           f \in DetailState /\ f.on = d.on /\ f.form = 0 /\ f.told = "success" /\ f.did = d.did
<1> DEFINE f == [d EXCEPT !.told = "success", !.busy = FALSE, !.form = 0]
<1>1. f \in DetailState
  <2>1. 0 \in 0..MaxVersion
    BY PagesAssumption
  <2> QED
    BY <2>1 DEF DetailState
<1>2. f.on = d.on /\ f.did = d.did
  BY DEF DetailState
<1>3. f.form = 0 /\ f.told = "success"
  BY DEF DetailState
<1> QED
  BY <1>1, <1>2, <1>3

LEMMA ReturnStep ==
    ASSUME SessionTypeOK, PageInv, NEW c \in Slots, context[c] # None, context[c].kind = "get",
           ReturnGet(c), Drop(c), version' = version
    PROVE  PageInv'
<1> DEFINE t == calls[c].tab
           ok == calls[c].answer = "ok"
           s == IF ok THEN ShowAsset(detail[t], context[c].got) ELSE detail[t]
           d == Finish(s, context[c].then, ok)
<1>1. /\ t \in Tabs /\ context[c] \in Context /\ detail[t] \in DetailState
      /\ detail[t].form \in {0, detail[t].seen}
  BY TabOf DEF PageInv, PagesTyped, FormInv
<1>2. CASE ~context[c].mine
  BY <1>2, ForgottenStep DEF ReturnGet
<1>3. CASE context[c].mine
  <2>1. /\ s \in DetailState /\ s.form \in {0, s.seen} /\ s.on = detail[t].on
        /\ s.busy = detail[t].busy /\ s.told = detail[t].told /\ s.did = detail[t].did
        /\ s.lost = detail[t].lost
    <3>1. context[c].got \in 0..MaxVersion
      BY <1>1 DEF Context
    <3>2. ASSUME NEW v \in 0..MaxVersion
          PROVE  LET e == ShowAsset(detail[t], v) IN
                 /\ e \in DetailState /\ e.form \in {0, e.seen} /\ e.on = detail[t].on
                 /\ e.busy = detail[t].busy /\ e.told = detail[t].told /\ e.did = detail[t].did
                 /\ e.lost = detail[t].lost
      BY <1>1, PagesAssumption DEF ShowAsset, DetailState
    <3> QED
      BY <1>1, <3>1, <3>2
  <2> HIDE DEF s
  <2>2. /\ detail' = [detail EXCEPT ![t] = d] /\ list' = list
    BY <1>3 DEF ReturnGet, s
  <2>3. Awaits(c, "get") /\ (Running(c) <=> context[c].then = "success")
    BY <1>3 DEF Awaits, Running
  <2>4. CASE context[c].then # "success"
    <3>1. d = s
      BY <2>4 DEF Finish
    <3> QED
      BY <2>1, <2>2, <2>3, <2>4, <3>1, DetailReturns
  <2>5. CASE context[c].then = "success"
    <3>1. d = [s EXCEPT !.told = "success", !.busy = FALSE, !.form = 0]
      BY <2>5 DEF Finish
    <3> HIDE DEF d
    <3>2. d \in DetailState /\ d.on = s.on /\ d.form = 0 /\ d.told = "success" /\ d.did = s.did
      BY <2>1, <3>1, SuccessTyped
    <3>3. detail[t].did
      BY <2>3, <2>5 DEF PageInv, EditInv, Awaits
    <3>4. d.told = "success" /\ d.did /\ d.form \in {0, d.seen} /\ d.on = detail[t].on
      BY <2>1, <3>2, <3>3
    <3> QED
      BY <2>2, <2>3, <2>5, <3>2, <3>4, DetailReturns
  <2> QED
    BY <2>4, <2>5
<1> QED
  BY <1>2, <1>3

LEMMA FailStep ==
    ASSUME SessionTypeOK, PageInv, NEW c \in Slots, context[c] # None, context[c].kind = "act",
           ActFails(c), Drop(c), version' = version
    PROVE  PageInv'
<1> DEFINE t == calls[c].tab
           told == IF calls[c].answer = "conflict" THEN "conflict" ELSE "failure"
           d == [detail[t] EXCEPT !.busy = FALSE, !.did = context[c].did,
                                  !.lost = context[c].did, !.told = told]
<1>1. /\ t \in Tabs /\ context[c] \in Context /\ detail[t] \in DetailState
      /\ detail[t].form \in {0, detail[t].seen}
  BY TabOf DEF PageInv, PagesTyped, FormInv
<1>2. CASE ~context[c].mine
  BY <1>2, ForgottenStep DEF ActFails
<1>3. CASE context[c].mine
  <2>1. context[c].did \in BOOLEAN /\ told \in {"conflict", "failure"}
    BY <1>1 DEF Context
  <2>2. told = "conflict" => ~context[c].did
    BY DEF PageInv, EditInv
  <2>3. detail' = [detail EXCEPT ![t] = d] /\ list' = list
    BY <1>3 DEF ActFails
  <2> HIDE DEF told
  <2>4. /\ d \in DetailState /\ d.on = detail[t].on /\ d.form = detail[t].form
        /\ d.seen = detail[t].seen /\ d.told = told /\ d.did = context[c].did
        /\ d.lost = context[c].did
    BY <1>1, <2>1 DEF DetailState
  <2> HIDE DEF d
  <2>5. Awaits(c, "act") /\ Running(c)
    BY <1>3 DEF Awaits, Running
  <2> QED
    BY <1>1, <2>1, <2>2, <2>3, <2>4, <2>5, DetailReturns
<1> QED
  BY <1>2, <1>3

\* The action has succeeded, and its reload is sent.
LEMMA SucceedStep ==
    ASSUME SessionTypeOK, PageInv, NEW c \in Slots, context[c] # None, context[c].kind = "act",
           ActSucceeds(c)
    PROVE  PageInv'
<1> DEFINE t == calls[c].tab
           x == IF context[c].mine THEN GetContext("success") ELSE Orphan(GetContext("nothing"))
           d == [detail[t] EXCEPT !.did = TRUE]
<1>1. t \in Tabs /\ detail[t] \in DetailState
  BY TabOf DEF PageInv, PagesTyped
<1>2. /\ context' = [context EXCEPT ![c] = x]
      /\ calls' = [calls EXCEPT ![c] = Request(t, "page")]
      /\ UNCHANGED <<version, list>>
      /\ context[c].mine => detail' = [detail EXCEPT ![t] = d]
      /\ ~context[c].mine => detail' = detail
  BY DEF ActSucceeds, Send
<1>3. /\ x \in Context /\ x.kind = "get" /\ x # None
      /\ x.mine => context[c].mine /\ x.then = "success"
  BY GetTyped, OrphanTyped, NobodyAssumption
<1>4. /\ d \in DetailState /\ d.did /\ d.on = detail[t].on /\ d.form = detail[t].form
      /\ d.seen = detail[t].seen /\ d.busy = detail[t].busy /\ d.told = detail[t].told
  BY <1>1 DEF DetailState
<1> HIDE DEF x, d
<1>5. /\ context'[c] = x /\ Asked(c, t) /\ calls'[c].tab = t
      /\ context' \in [Slots -> Context \cup {None}] /\ detail' \in [Tabs -> DetailState]
  BY <1>1, <1>2, <1>3, <1>4, AskedCall DEF Asked, PageInv, PagesTyped, SessionTypeOK
<1>6. \A e \in Slots : e # c => Kept(e) /\ context'[e] = context[e] /\ calls'[e] = calls[e]
  BY <1>2 DEF Kept, PageInv, PagesTyped, PageCall, SessionTypeOK
<1>7. PagesTyped'
  BY <1>1, <1>2, <1>5, <1>6, TypesKept DEF PageInv, PagesTyped
<1>8. LoadInv'
  <2>1. ASSUME NEW e \in Slots
        PROVE  \/ ~Awaits(e, "list") /\ ~Awaits(e, "list")'
               \/ /\ Awaits(e, "list") /\ Awaits(e, "list")'
                  /\ context'[e].query = context[e].query /\ calls'[e].tab = calls[e].tab
    BY <1>3, <1>5, <1>6 DEF Awaits
  <2> QED
    BY <1>2, <2>1, LoadSame DEF PageInv
<1>9. \A u \in Tabs : /\ detail'[u].on = detail[u].on /\ detail'[u].form = detail[u].form
                      /\ detail'[u].seen = detail[u].seen /\ detail'[u].busy = detail[u].busy
                      /\ detail'[u].told = detail[u].told
                      /\ detail[u].did => detail'[u].did
                      /\ detail'[u].lost = detail[u].lost
  <2>1. d.lost = detail[t].lost
    BY <1>1 DEF d, DetailState
  <2> QED
    BY <1>1, <1>2, <1>4, <2>1 DEF PageInv, PagesTyped
<1>10. ASSUME NEW e \in Slots, NEW k \in {"act", "get"}, Awaits(e, k)'
       PROVE  /\ calls'[e].tab \in Tabs /\ calls'[e].tab = calls[e].tab
              /\ Awaits(e, "act") \/ Awaits(e, "get")
  BY <1>3, <1>5, <1>6, <1>10, TabOf DEF Awaits, PageInv
<1>11. ASSUME NEW e \in Slots, Running(e)'
       PROVE  /\ calls'[e].tab \in Tabs /\ calls'[e].tab = calls[e].tab /\ Running(e)
              /\ e # c => context'[e] = context[e]
  BY <1>3, <1>5, <1>6, <1>10, <1>11 DEF Running, Awaits
<1>12. FormInv'
  <2>1. \A u \in Tabs : /\ detail'[u].form \in {0, detail'[u].seen}
                        /\ ~detail'[u].on => detail'[u].seen = 0 /\ detail'[u].told = "nothing"
    BY <1>9 DEF PageInv, FormInv
  <2>2. ASSUME NEW e \in Slots, Awaits(e, "act")' \/ Awaits(e, "get")'
        PROVE  detail'[calls'[e].tab].on
    BY <1>9, <1>10, <2>2 DEF PageInv, FormInv
  <2>3. ASSUME NEW e \in Slots, context'[e] # None, context'[e].kind = "act"
        PROVE  context'[e].sent = context'[e].basis
    BY <2>3, <1>3, <1>5, <1>6 DEF FormInv, PageInv
  <2> QED
    BY <2>1, <2>2, <2>3 DEF FormInv
<1>13. EditInv'
  <2>1. ASSUME NEW e \in Slots, context'[e] # None, context'[e].kind = "act",
               calls'[e].answer \in {None, "conflict"}
        PROVE  ~context'[e].did
    BY <2>1, <1>3, <1>5, <1>6 DEF EditInv, PageInv
  <2>2. ASSUME NEW e \in Slots, Running(e)'
        PROVE  /\ detail'[calls'[e].tab].busy /\ detail'[calls'[e].tab].told = "nothing"
    BY <2>2, <1>9, <1>11 DEF EditInv, PageInv
  <2>3. ASSUME NEW e \in Slots, Running(e)', context'[e].kind = "get"
        PROVE  detail'[calls'[e].tab].did
    <3>1. CASE e = c
      <4>1. context[c].mine
        BY <1>3, <1>5, <2>3, <3>1 DEF Running, Awaits
      <4>2. detail'[t] = d
        BY <1>1, <1>2, <4>1 DEF PageInv, PagesTyped
      <4> QED
        BY <1>4, <1>5, <3>1, <4>2
    <3>2. CASE e # c
      BY <2>3, <1>9, <1>11, <3>2 DEF EditInv, PageInv
    <3> QED
      BY <3>1, <3>2
  <2>4. ASSUME NEW e \in Slots, NEW f \in Slots, Running(e)', Running(f)',
               calls'[e].tab = calls'[f].tab
        PROVE  e = f
    BY <2>4, <1>11 DEF EditInv, PageInv
  <2> QED
    BY <2>1, <2>2, <2>3, <2>4 DEF EditInv
<1>14. ReportsAreTrue'
  <2>1. CASE context[c].mine
    <3>1. detail[t].told = "nothing"
      BY <2>1 DEF PageInv, EditInv, Running, Awaits
    <3>2. ASSUME NEW u \in Tabs
          PROVE  /\ detail'[u].told = "success" => detail'[u].did
                 /\ detail'[u].told = "conflict" => ~detail'[u].did
                 /\ detail'[u].told = "failure" /\ detail'[u].did => detail'[u].lost
      <4>1. CASE u = t
        BY <1>9, <3>1, <4>1
      <4>2. CASE u # t
        BY <1>2, <2>1, <4>2 DEF PageInv, PagesTyped, ReportsAreTrue
      <4> QED
        BY <4>1, <4>2
    <3> QED
      BY <3>2 DEF ReportsAreTrue
  <2>2. CASE ~context[c].mine
    BY <1>2, <2>2 DEF PageInv, ReportsAreTrue
  <2> QED
    BY <2>1, <2>2
<1> QED
  BY <1>7, <1>8, <1>12, <1>13, <1>14 DEF PageInv

\* A login navigates away, a 401 leaves the page.
LEMMA DeliverSteps ==
    ASSUME SessionTypeOK, PageInv, NEW c \in Slots, Deliver(c)
    PROVE  PageInv'
<1> DEFINE t == calls[c].tab
<1>1. t \in Tabs /\ calls[c] # None
  BY DEF Deliver, Answered, SessionTypeOK, Call
<1>2. CASE context[c] = None
  <2>1. Arrive(c) /\ calls' = [calls EXCEPT ![c] = None]
    BY <1>2 DEF Deliver
  <2>2. \A e \in Slots : (e # c => calls'[e] = calls[e]) /\ ~PageCall(calls'[c])
    BY <2>1 DEF SessionTypeOK, PageCall
  <2>3. CASE LoggedIn(c)
    <3>1. Unmount(t) /\ context' = Cancelled(t, Everything) /\ version' = version
      BY <1>2, <2>3 DEF Deliver
    <3>2. ASSUME NEW e \in Slots
          PROVE  \/ Kept(e) /\ (context[e] # None => calls[e].tab # t)
                 \/ (Silenced(e) \/ Gone(e)) /\ (context[e] # None => calls[e].tab = t)
      <4>1. CASE e = c
        <5>1. context'[c] = None
          BY <1>2, <3>1 DEF Cancelled
        <5> QED
          BY <1>2, <2>2, <4>1, <5>1 DEF Gone
      <4>2. CASE e # c
        <5>1. IF context[e] # None /\ context[e].kind \in Everything /\ calls[e].tab = t
              THEN Silenced(e) ELSE Kept(e)
          BY <1>1, <2>2, <3>1, <4>2, CancelledSlot DEF PageInv
        <5>2. context[e] # None => context[e].kind \in Everything
          BY DEF PageInv, PagesTyped, Context, Everything
        <5> QED
          BY <5>1, <5>2
      <4> QED
        BY <4>1, <4>2
    <3> QED
      BY <1>1, <3>1, <3>2, CancelledTyped, UnmountStep DEF PageInv
  <2>4. CASE ~LoggedIn(c)
    <3>1. UNCHANGED pages
      BY <1>2, <2>4 DEF Deliver
    <3>2. \A e \in Slots : Kept(e)
      BY <1>2, <2>2, <3>1 DEF Kept, pages, PageInv, PagesTyped, PageCall
    <3> QED
      BY <3>1, <3>2, ElsewhereStep DEF pages, PageInv, PagesTyped
  <2> QED
    BY <2>3, <2>4
<1>3. CASE context[c] # None /\ Unauthorized(c)
  <2>1. /\ calls' = [calls EXCEPT ![c] = None] /\ Unmount(t) /\ version' = version
        /\ context' = [Cancelled(t, Everything) EXCEPT ![c] = None]
    BY <1>3 DEF Deliver
  <2>2. /\ \A e \in Slots : e # c => calls'[e] = calls[e]
        /\ ~PageCall(calls'[c])
    BY <2>1 DEF SessionTypeOK, PageCall
  <2>3. context' \in [Slots -> Context \cup {None}]
    BY <2>1, CancelledTyped DEF PageInv
  <2>4. ASSUME NEW e \in Slots
        PROVE  \/ Kept(e) /\ (context[e] # None => calls[e].tab # t)
               \/ (Silenced(e) \/ Gone(e)) /\ (context[e] # None => calls[e].tab = t)
    <3>1. CASE e = c
      <4>1. context'[c] = None
        BY <2>1, CancelledTyped DEF PageInv
      <4> QED
        BY <2>2, <3>1, <4>1 DEF Gone
    <3>2. CASE e # c
      <4>1. context'[e] = Cancelled(t, Everything)[e]
        BY <2>1, <3>2, CancelledTyped DEF PageInv
      <4>2. IF context[e] # None /\ context[e].kind \in Everything /\ calls[e].tab = t
            THEN Silenced(e) ELSE Kept(e)
        BY <1>1, <2>2, <3>2, <4>1, CancelledSlot DEF PageInv
      <4>3. context[e] # None => context[e].kind \in Everything
        BY DEF PageInv, PagesTyped, Context, Everything
      <4> QED
        BY <4>2, <4>3
    <3> QED
      BY <3>1, <3>2
  <2> QED
    BY <1>1, <2>1, <2>3, <2>4, UnmountStep
<1>4. CASE context[c] # None /\ ~Unauthorized(c)
  <2>1. CASE context[c].kind = "list"
    BY <1>4, <2>1, RestStep, ShowStep DEF Deliver
  <2>2. CASE context[c].kind = "get"
    BY <1>4, <2>2, ReturnStep DEF Deliver
  <2>3. CASE context[c].kind = "act"
    BY <1>4, <2>3, SucceedStep, FailStep DEF Deliver
  <2>4. context[c] \in Context
    BY <1>4 DEF PageInv, PagesTyped
  <2> QED
    BY <2>1, <2>2, <2>3, <2>4 DEF Context
<1> QED
  BY <1>2, <1>3, <1>4

LEMMA PageStep == SessionTypeOK /\ PageInv /\ [Next]_vars => PageInv'
<1> SUFFICES ASSUME SessionTypeOK, PageInv, [Next]_vars PROVE PageInv'
  OBVIOUS
<1>1. CASE UserActs
  <2>1. ASSUME NEW t \in Tabs, NEW c \in Slots,
               \/ \E p \in People : SubmitLogin(c, t, p) /\ UNCHANGED pages
               \/ OpenList(c, t) \/ ReloadList(c, t)
               \/ OpenDetail(c, t) \/ LoadAgain(c, t) \/ Save(c, t) \/ ConfirmConflict(c, t)
        PROVE  PageInv'
    BY <2>1, ElsewhereSteps, ListSteps, DetailSteps, SaveStep
  <2>2. ASSUME NEW t \in Tabs,
               \/ \E k \in Keywords : TypeKeyword(t, k)
               \/ \E p \in Pages : ChangePage(t, p)
               \/ ChangeMode(t) \/ ResetFilters(t)
               \/ OpenForm(t) \/ CancelForm(t) \/ DismissConflict(t)
               \/ Leave(t) \/ LogoutLeaves(t) \/ StartAgain(t)
        PROVE  PageInv'
    BY <2>2, ListSteps, DetailSteps, LeavingSteps
  <2> QED
    BY <1>1, <2>1, <2>2 DEF UserActs
<1>2. CASE System
  BY <1>2, ListSteps, ElsewhereSteps, ServeSteps, DeliverSteps DEF System, Serve
<1>3. CASE OthersEdit \/ ((LifetimePasses \/ Reseed) /\ UNCHANGED pages) \/ UNCHANGED vars
  BY <1>3, ElsewhereSteps
<1> QED
  BY <1>1, <1>2, <1>3 DEF Next

LEMMA PagesInvariant == Spec => [](SessionTypeOK /\ PageInv)
<1> DEFINE I == SessionTypeOK /\ PageInv
<1>1. Init => I
  BY InitSession, InitPages
<1>2. I /\ [Next]_vars => I'
  BY SessionStep, PageStep
<1> QED
  BY <1>1, <1>2, PTL DEF Spec

\* The state of session, lists and forms keeps its types; a load that is waited for is in
\* flight, and an open form is filled from the asset that is shown.
THEOREM TypeCorrect == Spec => []TypeOK
<1>1. SessionTypeOK /\ PageInv => TypeOK
  BY DEF PageInv, PagesTyped, LoadInv, FormInv, ListState, Awaits, TypeOK
<1> QED
  BY <1>1, PagesInvariant, PTL

\* useAssetList: whatever is typed, turned, reset or reloaded while answers are under way,
\* and in whichever order they come, a list that has stopped loading shows the answer to
\* the question on the screen, for any number of tabs and calls in flight.
THEOREM LatestAnswerShown == Spec => []ListShowsLatest
<1>1. PageInv => ListShowsLatest
  BY DEF PageInv, LoadInv, ListShowsLatest
<1> QED
  BY <1>1, PagesInvariant, PTL

\* useSubmitAction: success, conflict and failure are reported of the edit that met them,
\* and "failed" stands for an edit that was made only when its answer was lost.
THEOREM ReportsTrue == Spec => []ReportsAreTrue
<1>1. PageInv => ReportsAreTrue
  BY DEF PageInv
<1> QED
  BY <1>1, PagesInvariant, PTL

\* AssetDetail: the version sent with an edit is the one its form was filled from, so the
\* server's comparison protects what the user has really seen.
THEOREM NothingOverwrittenUnseen == Spec => EditsWhatWasShown
<1> DEFINE Shown == \A c \in Slots :
                       context[c] # None /\ context[c].kind = "act" /\ ServeEdit(c) /\ version' # version =>
                          context[c].basis = version
<1>1. PageInv => Shown
  BY DEF PageInv, FormInv, ServeEdit
<1>2. (SessionTypeOK /\ PageInv) /\ [Next]_vars => [Shown]_vars
  BY <1>1
<1> QED
  BY <1>2, PagesInvariant, PTL DEF Spec, EditsWhatWasShown

=============================================================================
