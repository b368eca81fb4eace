---- MODULE RequestPool ----
(***************************************************************************)
(* How one worker process serves requests.  FastAPI runs every synchronous *)
(* dependency and handler in one of a fixed number of threads, the         *)
(* asynchronous submit handler on the event loop itself.  A session takes  *)
(* a pooled connection at its first query and keeps it until it commits,   *)
(* rolls back or is closed (app/db/session.py); between authentication and *)
(* handler a request therefore holds a connection while it queues for a    *)
(* thread, and other requests hold threads while they wait for a           *)
(* connection.  Only the pool's own timeout breaks such a circle.          *)
(*                                                                         *)
(* A call is one request; what it stores is left to the modules that       *)
(* extend this one.  The hop of require_manager or require_holder through  *)
(* a thread is merged with the handler's.                                  *)
(***************************************************************************)
EXTENDS Integers, FiniteSets

CONSTANTS Calls,        \* the requests that reach the worker, each served once
          MayAsk,       \* what each of them may ask for
          Threads,      \* size of the thread pool (40 in AnyIO)
          Connections,  \* pool_size + max_overflow of the engine (15)
          Attempts,     \* _REPAIR_ID_CREATE_ATTEMPTS
          NoCall        \* the event loop runs no handler

Kinds == {"register", "create", "login", "read", "submit", "health", "ready"}

ASSUME CallsAssumption == NoCall \notin Calls /\ MayAsk \in [Calls -> SUBSET Kinds]
ASSUME SizeAssumption == {Threads, Connections, Attempts} \subseteq Nat \ {0}

VARIABLES kind,     \* what each call asks for
          at,       \* where each call is
          threads,  \* the calls that occupy a thread
          conns,    \* the calls whose session has a connection checked out
          loop,     \* the call whose handler runs on the event loop
          tries,    \* attempts at a repair_id begun by each submit
          ans       \* the answer of each call

exec == <<kind, at, threads, conns, loop, tries, ans>>

Places == {"idle", "auth", "identify", "identified", "work", "body", "check",
           "insert", "commit", "refresh", "returned", "close", "done"}
Answers == {"none", "ok", "created", "taken", "refused", "failed"}

Submits(c) == kind[c] = "submit"
Authenticated(c) == kind[c] \in {"create", "read", "submit"}
Stores(c) == kind[c] \in {"register", "create"}

ExecInit ==
    /\ kind \in [Calls -> Kinds] /\ \A c \in Calls : kind[c] \in MayAsk[c]
    /\ at = [c \in Calls |-> "idle"]
    /\ threads = {}
    /\ conns = {}
    /\ loop = NoCall
    /\ tries = [c \in Calls |-> 0]
    /\ ans = [c \in Calls |-> "none"]

-----------------------------------------------------------------------------
(* The event loop hands work out; while a handler runs on it, it does not. *)

Arrive(c) ==
    /\ loop = NoCall /\ at[c] = "idle"
    /\ at' = [at EXCEPT ![c] = IF Authenticated(c) THEN "auth" ELSE "work"]
    /\ UNCHANGED <<threads, conns, loop, tries, ans>>

StartThread(c) ==
    /\ loop = NoCall /\ at[c] \in {"auth", "work"}
    /\ Cardinality(threads) < Threads
    /\ threads' = threads \cup {c}
    /\ at' = [at EXCEPT ![c] = IF @ = "auth" THEN "identify" ELSE "check"]
    /\ UNCHANGED <<conns, loop, tries, ans>>

\* A thread's result is awaited on the loop, and so is the thread's return.
Resume(c) ==
    /\ loop = NoCall /\ at[c] \in {"identified", "returned"}
    /\ threads' = threads \ {c}
    /\ at' = [at EXCEPT ![c] = IF @ = "returned" THEN "close"
                               ELSE IF Submits(c) THEN "body" ELSE "work"]
    /\ UNCHANGED <<conns, loop, tries, ans>>

\* The wrong role, or a body that does not validate: the handler never runs.
Refuse(c) ==
    /\ loop = NoCall /\ at[c] = "identified"
    /\ threads' = threads \ {c}
    /\ at' = [at EXCEPT ![c] = "close"]
    /\ ans' = [ans EXCEPT ![c] = "refused"]
    /\ UNCHANGED <<conns, loop, tries>>

\* submit_repair_request reads the form first and yields the loop meanwhile;
\* then nothing of it yields until it has committed or failed.
TakeBody(c) ==
    /\ loop = NoCall /\ at[c] = "body"
    /\ loop' = c
    /\ at' = [at EXCEPT ![c] = "check"]
    /\ tries' = [tries EXCEPT ![c] = 1]
    /\ UNCHANGED <<threads, conns, ans>>

BodyFails(c) ==
    /\ loop = NoCall /\ at[c] = "body"
    /\ at' = [at EXCEPT ![c] = "close"]
    /\ ans' = [ans EXCEPT ![c] = "refused"]
    /\ conns' = conns \ {c}
    /\ UNCHANGED <<threads, loop, tries>>

-----------------------------------------------------------------------------
(* Connections.                                                            *)

\* A query runs on the session's connection or checks one out.
Connected(c) == c \in conns \/ Cardinality(conns) < Connections

Queries(c) == at[c] \in {"identify", "check", "refresh"} /\ kind[c] # "health"

\* The function that runs for c ends with an answer: in a thread it returns,
\* on the loop it leaves the loop.
End(c, answer) ==
    /\ at' = [at EXCEPT ![c] = IF loop = c THEN "close" ELSE "returned"]
    /\ ans' = [ans EXCEPT ![c] = answer]
    /\ loop' = IF loop = c THEN NoCall ELSE loop
    /\ UNCHANGED <<threads, tries>>

\* Handlers that catch the error roll back, which returns the connection;
\* otherwise it stays with the session until get_db closes it.
RollsBack(c) == at[c] \in {"insert", "commit"} \/ loop = c

Fail(c) ==
    /\ conns' = IF RollsBack(c) THEN conns \ {c} ELSE conns
    /\ End(c, "failed")

\* Slip: the pool waits for ever.
NeverTimesOut(c) == FALSE

\* QueuePool raises TimeoutError when no connection came back in time.
TimedOut(c) == Queries(c) /\ ~Connected(c)

\* Slip: get_db closes the session after the yield instead of in finally.
CloseAfterYield(c) ==
    /\ loop = NoCall /\ at[c] = "close"
    /\ conns' = IF ans[c] \in {"ok", "created"} THEN conns \ {c} ELSE conns
    /\ at' = [at EXCEPT ![c] = "done"]
    /\ UNCHANGED <<threads, loop, tries, ans>>

\* get_db: the session is closed however the request ended.
Close(c) ==
    /\ loop = NoCall /\ at[c] = "close"
    /\ conns' = conns \ {c}
    /\ at' = [at EXCEPT ![c] = "done"]
    /\ UNCHANGED <<threads, loop, tries, ans>>

-----------------------------------------------------------------------------
(* Handlers that store nothing, and the attempts of a submission.          *)

Look(c) ==
    /\ at[c] = "check" /\ kind[c] \in {"login", "read"} /\ Connected(c)
    /\ conns' = conns \cup {c}
    /\ \/ End(c, "ok")
       \/ kind[c] = "login" /\ End(c, "refused")

\* /health asks nothing of the database but a thread; /ready borrows a
\* connection of its own.
Probe(c) ==
    /\ at[c] = "check" /\ kind[c] \in {"health", "ready"}
    /\ kind[c] = "ready" => Connected(c)
    /\ End(c, "ok")
    /\ UNCHANGED conns

\* One attempt: the asset is read, or read again after a rollback.
SubmitChecks(c) ==
    /\ at[c] = "check" /\ Submits(c) /\ Connected(c)
    /\ \/ /\ conns' = conns \cup {c}
          /\ at' = [at EXCEPT ![c] = "insert"]
          /\ UNCHANGED <<threads, loop, tries, ans>>
       \/ conns' = conns \ {c} /\ End(c, "refused")

\* The repair_id is free, or taken by another process: then the attempt is
\* rolled back and the next begins, on a connection yet to be had.
SubmitInserts(c) ==
    /\ at[c] = "insert" /\ Submits(c)
    /\ \/ /\ at' = [at EXCEPT ![c] = "commit"]
          /\ UNCHANGED <<threads, conns, loop, tries, ans>>
       \/ /\ tries[c] < Attempts
          /\ conns' = conns \ {c}
          /\ at' = [at EXCEPT ![c] = "check"]
          /\ tries' = [tries EXCEPT ![c] = @ + 1]
          /\ UNCHANGED <<threads, loop, ans>>
       \/ tries[c] = Attempts /\ conns' = conns \ {c} /\ End(c, "refused")

SubmitCommits(c) ==
    /\ at[c] = "commit" /\ Submits(c)
    /\ conns' = conns \ {c}
    /\ End(c, "created")

-----------------------------------------------------------------------------
\* A call that has been answered and closed holds nothing of the worker, one
\* that waits for the event loop only its connection, and only a submission
\* ever occupies the loop.
HeldOnlyWhileServed ==
    /\ \A c \in threads : at[c] \in {"identify", "identified", "check", "insert",
                                     "commit", "refresh", "returned"}
    /\ \A c \in conns : at[c] \notin {"idle", "auth", "done"}
    /\ loop # NoCall => /\ Submits(loop) /\ loop \notin threads
                       /\ at[loop] \in {"check", "insert", "commit"}
    /\ Cardinality(threads) <= Threads /\ Cardinality(conns) <= Connections
====
