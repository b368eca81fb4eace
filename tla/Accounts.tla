---- MODULE Accounts ----
(***************************************************************************)
(* Registration, account creation and the requests around them, in one     *)
(* worker (RequestPool).  register and admin_create_user look for the      *)
(* email, then insert; two of them may both find nothing, and one looks    *)
(* in the snapshot its transaction took when the caller was identified.    *)
(* Only the unique index of users.email decides.                           *)
(***************************************************************************)
EXTENDS RequestPool

CONSTANTS EmailOf,  \* the email each registration asks for
          Known     \* the emails that already have an account

VARIABLES rows,       \* the calls whose user row was inserted
          committed,  \* those whose row is committed
          seen        \* the rows each call's transaction sees

vars == <<exec, rows, committed, seen>>
accounts == <<rows, committed, seen>>

Init == ExecInit /\ rows = {} /\ committed = {} /\ seen = [c \in Calls |-> {}]

Emails(cs) == {EmailOf[d] : d \in cs}

\* get_current_user rejects the token before any query ...
RefuseToken(c) == at[c] = "identify" /\ End(c, "refused") /\ UNCHANGED conns

\* ... or looks its user up: the session's first query, and its snapshot.
Identify(c) ==
    /\ at[c] = "identify" /\ Connected(c)
    /\ conns' = conns \cup {c}
    /\ seen' = [seen EXCEPT ![c] = committed]
    /\ \/ /\ at' = [at EXCEPT ![c] = "identified"]
          /\ UNCHANGED <<threads, loop, tries, ans>>
       \/ End(c, "refused")
    /\ UNCHANGED <<rows, committed>>

\* The SELECT by email.  The public handler's transaction begins with it.
CheckEmail(c) ==
    /\ at[c] = "check" /\ Stores(c) /\ Connected(c)
    /\ conns' = conns \cup {c}
    /\ seen' = [seen EXCEPT ![c] = IF c \in conns THEN @ ELSE committed]
    /\ IF EmailOf[c] \in Known \cup Emails(seen'[c])
       THEN End(c, "taken")
       ELSE /\ at' = [at EXCEPT ![c] = "insert"]
            /\ UNCHANGED <<threads, loop, tries, ans>>
    /\ UNCHANGED <<rows, committed>>

\* Slip: users.email lost its unique index; only the SELECT is left.
NoRivals(c) == {}

\* Other rows with the same email, as the unique index has them.
Rivals(c) == {d \in rows \ {c} : EmailOf[d] = EmailOf[c]}

\* The INSERT waits while a rival's row is uncommitted.
InsertUser(c) ==
    /\ at[c] = "insert" /\ Stores(c)
    /\ Rivals(c) \subseteq committed
    /\ IF Rivals(c) # {}
       THEN conns' = conns \ {c} /\ End(c, "taken") /\ UNCHANGED accounts
       ELSE /\ rows' = rows \cup {c}
            /\ at' = [at EXCEPT ![c] = "commit"]
            /\ UNCHANGED <<threads, conns, loop, tries, ans, committed, seen>>

CommitUser(c) ==
    /\ at[c] = "commit" /\ Stores(c)
    /\ committed' = committed \cup {c}
    /\ conns' = conns \ {c}
    /\ at' = [at EXCEPT ![c] = "refresh"]
    /\ UNCHANGED <<threads, loop, tries, ans, rows, seen>>

\* db.refresh(user), outside the try block: it needs a connection again.
RefreshUser(c) ==
    /\ at[c] = "refresh" /\ Connected(c)
    /\ conns' = conns \cup {c}
    /\ End(c, "created")
    /\ UNCHANGED accounts

\* The pool's timeout and a lost connection end alike; an open transaction is
\* rolled back by the server.  A lost answer to COMMIT leaves the row behind.
TimeOut(c) ==
    /\ TimedOut(c)
    /\ Fail(c)
    /\ UNCHANGED accounts

LoseConnection(c) ==
    /\ c \in conns /\ (Queries(c) \/ at[c] \in {"insert", "commit"})
    /\ Fail(c)
    /\ \/ rows' = rows \ ({c} \ committed) /\ UNCHANGED committed
       \/ at[c] = "commit" /\ Stores(c) /\ committed' = committed \cup {c} /\ UNCHANGED rows
    /\ UNCHANGED <<kind, seen>>

\* What the event loop and the threads do for a call.
Step(c) ==
    \/ Identify(c) \/ CheckEmail(c) \/ InsertUser(c) \/ CommitUser(c) \/ RefreshUser(c)
    \/ TimeOut(c)
    \/ /\ \/ StartThread(c) \/ Resume(c) \/ Refuse(c) \/ TakeBody(c) \/ BodyFails(c)
          \/ Look(c) \/ Probe(c) \/ SubmitChecks(c) \/ SubmitInserts(c) \/ SubmitCommits(c) \/ Close(c)
          \/ RefuseToken(c)
       /\ UNCHANGED accounts

Serve(c) == Step(c) /\ UNCHANGED kind

Request(c) == Arrive(c) /\ UNCHANGED <<kind, accounts>>

Next == \E c \in Calls : Serve(c) \/ Request(c) \/ LoseConnection(c)

\* The operating system runs the threads and the loop; clients send the bodies
\* they announced or hang up.
Spec == Init /\ [][Next]_vars /\ WF_vars(\E c \in Calls : Serve(c))

TypeOK ==
    /\ kind \in [Calls -> Kinds] /\ at \in [Calls -> Places] /\ ans \in [Calls -> Answers]
    /\ threads \subseteq Calls /\ conns \subseteq Calls /\ loop \in Calls \cup {NoCall}
    /\ tries \in [Calls -> 0..Attempts]
    /\ committed \subseteq rows /\ rows \subseteq Calls /\ seen \in [Calls -> SUBSET Calls]

-----------------------------------------------------------------------------
\* An email has one account whatever overlaps: of the committed rows no two
\* share an email or one that was taken before, a caller who was told 201
\* has its row, and one who was told 409 was told so because of another row.
RegisteredOnce ==
    /\ \A c \in committed : EmailOf[c] \notin Known
    /\ \A c, d \in committed : EmailOf[c] = EmailOf[d] => c = d
    /\ \A c \in Calls : ans[c] = "created" /\ Stores(c) => c \in committed
    /\ \A c \in Calls : ans[c] = "taken" =>
         c \notin rows /\ EmailOf[c] \in Known \cup Emails(committed)

\* Every request is answered and its session closed, whatever circle of
\* threads, connections and event loop forms on the way.
EveryRequestServed ==
    \A c \in Calls : at[c] # "idle" ~> at[c] = "done" /\ ans[c] # "none"
====
