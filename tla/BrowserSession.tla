--------------------------- MODULE BrowserSession ---------------------------
(***************************************************************************)
(* The session of the single-page application: the copy that AuthContext   *)
(* shows (memory, one per tab), the copy in localStorage (storage, one per *)
(* browser), and the HTTP client, which takes the token from storage for   *)
(* every call and reacts to 401.  Of the server only what decides about a  *)
(* token is here: when it was issued and whether its user still has a row  *)
(* (a re-seeding deletes every user).  What a page asks for and what it    *)
(* does with an answer is in AssetPages.                                   *)
(***************************************************************************)
EXTENDS Naturals

CONSTANTS People,             \* who may log in here
          Tabs,               \* tabs of one browser
          NSlots,             \* bound: HTTP calls in flight
          None,
          MaxTime, MaxSeeds,  \* bounds: token lifetimes that pass, re-seedings
          MaxBoth             \* bound on their sum

ASSUME SessionAssumption ==
    /\ NSlots \in Nat /\ MaxTime \in Nat /\ MaxSeeds \in Nat /\ MaxBoth \in Nat
    /\ "page" \notin People

Slots == 1..NSlots
Token == [user : People, born : 0..MaxTime, seed : 0..MaxSeeds]
\* errand: the person of a login, "page" for everything a page asks for
Call == [tab : Tabs, errand : People \cup {"page"}, token : Token \cup {None},
         answer : {None, "ok", "refused", "failed", "conflict"}, gives : Token \cup {None}]

ASSUME NoneAssumption ==
    /\ None \notin {"ok", "refused", "failed", "conflict"}
    /\ None \notin Slots /\ None \notin Call

VARIABLES storage,   \* localStorage["ams-auth"]
          memory,    \* the session each tab shows
          calls,     \* HTTP calls in flight
          time,      \* how many token lifetimes have passed
          seeds      \* how often the users were replaced
session == <<storage, memory, calls, time, seeds>>

SessionInit ==
    /\ storage = None /\ memory = [t \in Tabs |-> None]
    /\ calls = [c \in Slots |-> None]
    /\ time = 0 /\ seeds = 0

-----------------------------------------------------------------------------
(* The server's side of a token.                                            *)

Issue(p) == [user |-> p, born |-> time, seed |-> seeds]
Expired(k) == k.born < time
Accepts(k) == k # None /\ ~Expired(k) /\ k.seed = seeds

(* storage.ts: an expired session is removed by whoever reads it.           *)
LoadSession == IF storage # None /\ ~Expired(storage) THEN storage ELSE None

-----------------------------------------------------------------------------
(* base-client.ts                                                           *)

\* Slots are alike: the lowest free one is taken.
Free(c) == calls[c] = None /\ \A d \in Slots : d < c => calls[d] # None

Request(t, errand) == [tab |-> t, errand |-> errand, token |-> LoadSession,
                       answer |-> None, gives |-> None]
Send(c, t, errand) ==
    /\ calls' = [calls EXCEPT ![c] = Request(t, errand)]
    /\ storage' = LoadSession

Waiting(c) == calls[c] # None /\ calls[c].answer = None
Answered(c) == calls[c] # None /\ calls[c].answer # None
LoggedIn(c) == calls[c].errand # "page" /\ calls[c].answer = "ok"
Unauthorized(c) == calls[c].answer = "refused" /\ calls[c].token # None

\* What the arrival of an answer does to the session, whatever was asked.
Arrive(c) ==
    LET t == calls[c].tab IN
    CASE LoggedIn(c) -> /\ storage' = calls[c].gives
                        /\ memory' = [memory EXCEPT ![t] = calls[c].gives]
      [] Unauthorized(c) -> /\ storage' = None
                            /\ memory' = [memory EXCEPT ![t] = None]
      [] OTHER -> UNCHANGED <<storage, memory>>

-----------------------------------------------------------------------------
(* AuthContext.tsx                                                          *)

\* The login form is shown only to a tab that shows no session.
SubmitLogin(c, t, p) ==
    /\ memory[t] = None /\ Free(c)
    /\ Send(c, t, p)
    /\ UNCHANGED <<memory, time, seeds>>

\* Passwords may be wrong, and the server may fail.
AnswerLogin(c) ==
    /\ Waiting(c) /\ calls[c].errand \in People
    /\ \/ calls' = [calls EXCEPT ![c].answer = "ok", ![c].gives = Issue(calls[c].errand)]
       \/ \E a \in {"refused", "failed"} : calls' = [calls EXCEPT ![c].answer = a]
    /\ UNCHANGED <<storage, memory, time, seeds>>

\* Slip: only the copy in memory is dropped.
LogoutInMemory(t) ==
    /\ memory[t] # None
    /\ memory' = [memory EXCEPT ![t] = None]
    /\ UNCHANGED <<storage, calls, time, seeds>>

Logout(t) ==
    /\ memory[t] # None
    /\ storage' = None /\ memory' = [memory EXCEPT ![t] = None]
    /\ UNCHANGED <<calls, time, seeds>>

\* The browser loads the application anew; calls of the old one are forgotten.
LoadApplication(t) ==
    /\ storage' = LoadSession /\ memory' = [memory EXCEPT ![t] = LoadSession]
    /\ calls' = [c \in Slots |-> IF calls[c] # None /\ calls[c].tab = t THEN None ELSE calls[c]]
    /\ UNCHANGED <<time, seeds>>

LifetimePasses ==
    /\ time < MaxTime /\ time + seeds < MaxBoth /\ time' = time + 1
    /\ UNCHANGED <<storage, memory, calls, seeds>>
Reseed ==
    /\ seeds < MaxSeeds /\ time + seeds < MaxBoth /\ seeds' = seeds + 1
    /\ UNCHANGED <<storage, memory, calls, time>>

-----------------------------------------------------------------------------

SessionTypeOK ==
    /\ storage \in Token \cup {None}
    /\ memory \in [Tabs -> Token \cup {None}]
    /\ time \in 0..MaxTime /\ seeds \in 0..MaxSeeds
    /\ calls \in [Slots -> Call \cup {None}]

\* Every call goes out in the name of the session its tab shows, or in nobody's: with one
\* tab, the two copies of the session never name different people, whatever answers, logins
\* and 401s overlap.  In particular a login carries no token, so that its refusal signs
\* nobody out (the comment in base-client.ts).
ActsAsShown ==
    [][\A c \in Slots :
          calls'[c] # None /\ calls'[c] # calls[c] /\ calls'[c].answer = None =>
              calls'[c].token \in {None, memory[calls'[c].tab]}]_session

=============================================================================
