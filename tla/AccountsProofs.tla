--------------------------- MODULE AccountsProofs ---------------------------
(***************************************************************************)
(* For every set of calls, whatever they ask for, and every number of      *)
(* threads, connections and attempts: an email has one account, and a      *)
(* worker's threads, connections and loop are held only by calls it is     *)
(* still serving, and never so that none of them can go on.                *)
(***************************************************************************)
EXTENDS Accounts, FiniteSetTheorems, TLAPS

ThreadPlaces == {"identify", "identified", "check", "insert", "commit", "refresh", "returned"}

\* Where a call is tells what it may hold.
HoldInv ==
    /\ \A c \in threads : at[c] \in ThreadPlaces
    /\ \A c \in conns : at[c] \notin {"idle", "auth", "done"}
    /\ \A c \in Calls : at[c] = "body" => Submits(c)
    /\ loop # NoCall => /\ Submits(loop) /\ loop \notin threads
                       /\ at[loop] \in {"check", "insert", "commit"}

\* A submission counts its attempts from the moment its body is there.
TriesInv ==
    \A c \in Calls :
        at[c] \in {"idle", "auth", "identify", "identified", "work", "body"} => tries[c] = 0

SizeInv ==
    /\ IsFiniteSet(threads) /\ Cardinality(threads) <= Threads
    /\ IsFiniteSet(conns) /\ Cardinality(conns) <= Connections

\* Where a call is tells how far its row has come.
RowInv ==
    /\ \A c \in Calls : seen[c] \subseteq committed
    /\ \A c \in rows : /\ Stores(c) /\ EmailOf[c] \notin Known
                       /\ at[c] \in {"commit", "refresh", "returned", "close", "done"}
                       /\ c \notin committed => at[c] = "commit"
    /\ \A c, d \in rows : EmailOf[c] = EmailOf[d] => c = d
    /\ \A c \in Calls : Stores(c) =>
         /\ at[c] = "insert" => EmailOf[c] \notin Known
         /\ at[c] = "commit" => c \in rows

AnswerInv ==
    /\ \A c \in Calls : ans[c] # "none" => at[c] \in {"returned", "close", "done"}
    /\ \A c \in Calls : at[c] = "refresh" => c \in committed
    /\ \A c \in Calls : ans[c] = "created" /\ Stores(c) => c \in committed
    /\ \A c \in Calls : ans[c] = "taken" =>
         c \notin rows /\ EmailOf[c] \in Known \cup Emails(committed)

IInv == TypeOK /\ HoldInv /\ TriesInv /\ SizeInv /\ RowInv /\ AnswerInv

LEMMA InitInvariant == Init => IInv
<1> SUFFICES ASSUME Init PROVE IInv
  OBVIOUS
<1>1. TypeOK
  BY SizeAssumption DEF Init, ExecInit, TypeOK, Places, Answers
<1>2. HoldInv /\ TriesInv
  BY DEF Init, ExecInit, HoldInv, TriesInv
<1>3. SizeInv
  BY FS_EmptySet, SizeAssumption DEF Init, ExecInit, SizeInv
<1>4. RowInv /\ AnswerInv
  BY DEF Init, ExecInit, RowInv, AnswerInv
<1> QED
  BY <1>1, <1>2, <1>3, <1>4 DEF IInv

-----------------------------------------------------------------------------

LEMMA TypeStep == IInv /\ [Next]_vars => TypeOK'
<1> SUFFICES ASSUME IInv, [Next]_vars PROVE TypeOK'
  OBVIOUS
<1> USE CallsAssumption, SizeAssumption DEF IInv, TypeOK
<1> DEFINE ExecTyped ==
             /\ at' \in [Calls -> Places] /\ ans' \in [Calls -> Answers]
             /\ threads' \subseteq Calls /\ loop' \in Calls \cup {NoCall}
             /\ tries' \in [Calls -> 0..Attempts]
<1>1. ASSUME NEW c \in Calls, NEW a \in Answers, End(c, a) PROVE ExecTyped
  BY <1>1 DEF End, Places
<1>2. {"ok", "created", "taken", "refused", "failed"} \subseteq Answers
  BY DEF Answers
<1>3. ASSUME NEW c \in Calls, Fail(c) PROVE ExecTyped /\ conns' \subseteq Calls
  BY <1>1, <1>2, <1>3 DEF Fail
<1>4. ASSUME NEW c \in Calls, UNCHANGED <<kind, accounts>>,
             \/ Arrive(c) \/ StartThread(c) \/ Resume(c) \/ Refuse(c)
             \/ TakeBody(c) \/ BodyFails(c) \/ Close(c)
      PROVE  TypeOK'
  BY <1>4, <1>2
     DEF Arrive, StartThread, Resume, Refuse, TakeBody, BodyFails, Close, Places, accounts
<1>5. ASSUME NEW c \in Calls, UNCHANGED <<kind, accounts>>,
             Look(c) \/ Probe(c) \/ SubmitCommits(c) \/ RefuseToken(c) \/ RefreshUser(c)
      PROVE  TypeOK'
  BY <1>5, <1>1, <1>2 DEF Look, Probe, SubmitCommits, RefuseToken, RefreshUser, accounts
<1>6. ASSUME NEW c \in Calls, UNCHANGED <<kind, accounts>>, SubmitChecks(c)
      PROVE  TypeOK'
  BY <1>6, <1>1, <1>2 DEF SubmitChecks, Places, accounts
<1>7. ASSUME NEW c \in Calls, UNCHANGED <<kind, accounts>>, SubmitInserts(c)
      PROVE  TypeOK'
  BY <1>7, <1>1, <1>2 DEF SubmitInserts, Places, accounts
<1>8. ASSUME NEW c \in Calls, UNCHANGED kind, TimeOut(c) PROVE TypeOK'
  BY <1>8, <1>3 DEF TimeOut, accounts
<1>9. ASSUME NEW c \in Calls, UNCHANGED kind, Identify(c) PROVE TypeOK'
  BY <1>9, <1>1, <1>2 DEF Identify, Places
<1>10. ASSUME NEW c \in Calls, UNCHANGED kind, CheckEmail(c) PROVE TypeOK'
  BY <1>10, <1>1, <1>2 DEF CheckEmail, Places
<1>11. ASSUME NEW c \in Calls, UNCHANGED kind, InsertUser(c) PROVE TypeOK'
  BY <1>11, <1>1, <1>2 DEF InsertUser, Places, accounts
<1>12. ASSUME NEW c \in Calls, UNCHANGED kind, CommitUser(c) PROVE TypeOK'
  BY <1>12 DEF CommitUser, Places, RowInv
<1>13. ASSUME NEW c \in Calls, LoseConnection(c) PROVE TypeOK'
  BY <1>13, <1>3 DEF LoseConnection, RowInv
<1>14. CASE UNCHANGED vars
  BY <1>14 DEF vars, exec
<1> QED
  BY <1>4, <1>5, <1>6, <1>7, <1>8, <1>9, <1>10, <1>11, <1>12, <1>13, <1>14
     DEF Next, Serve, Step, Request, RefreshUser, accounts

\* The end of the function that runs for a call releases the loop, never a thread.
LEMMA HoldStep == IInv /\ [Next]_vars => HoldInv'
<1> SUFFICES ASSUME IInv, [Next]_vars PROVE HoldInv'
  OBVIOUS
<1> USE CallsAssumption DEF IInv, TypeOK, HoldInv, ThreadPlaces, Submits
<1>1. ASSUME NEW c \in Calls, NEW a, End(c, a), UNCHANGED kind,
             conns' \subseteq conns \cup {c}, at[c] \in ThreadPlaces
      PROVE  HoldInv'
  BY <1>1 DEF End
<1>2. ASSUME NEW c \in Calls, UNCHANGED kind,
             \/ Arrive(c) \/ StartThread(c) \/ Resume(c) \/ Refuse(c)
             \/ BodyFails(c) \/ Close(c)
      PROVE  HoldInv'
  BY <1>2 DEF Arrive, StartThread, Resume, Refuse, BodyFails, Close, Places
<1>3. ASSUME NEW c \in Calls, UNCHANGED kind, TakeBody(c) PROVE HoldInv'
  <2>1. Submits(c)
    BY <1>3 DEF TakeBody
  <2> QED
    BY <1>3, <2>1 DEF TakeBody
<1>4. ASSUME NEW c \in Calls, UNCHANGED kind,
             Look(c) \/ Probe(c) \/ SubmitCommits(c) \/ RefuseToken(c) \/ RefreshUser(c)
      PROVE  HoldInv'
  BY <1>4, <1>1 DEF Look, Probe, SubmitCommits, RefuseToken, RefreshUser
<1>5. ASSUME NEW c \in Calls, UNCHANGED kind, SubmitChecks(c) \/ SubmitInserts(c)
      PROVE  HoldInv'
  BY <1>5, <1>1 DEF SubmitChecks, SubmitInserts
<1>6. ASSUME NEW c \in Calls, UNCHANGED kind, TimeOut(c) \/ LoseConnection(c) PROVE HoldInv'
  BY <1>6, <1>1 DEF TimeOut, LoseConnection, TimedOut, Queries, Fail
<1>7. ASSUME NEW c \in Calls, UNCHANGED kind, Identify(c) \/ CheckEmail(c) PROVE HoldInv'
  BY <1>7, <1>1 DEF Identify, CheckEmail
<1>8. ASSUME NEW c \in Calls, UNCHANGED kind, InsertUser(c) \/ CommitUser(c) PROVE HoldInv'
  BY <1>8, <1>1 DEF InsertUser, CommitUser, Stores
<1>9. CASE UNCHANGED vars
  BY <1>9 DEF vars, exec
<1> QED
  BY <1>2, <1>3, <1>4, <1>5, <1>6, <1>7, <1>8, <1>9
     DEF Next, Serve, Step, Request, LoseConnection

LEMMA TriesStep == IInv /\ [Next]_vars => TriesInv'
<1> SUFFICES ASSUME IInv, [Next]_vars PROVE TriesInv'
  OBVIOUS
<1> USE DEF IInv, TypeOK, TriesInv
<1>1. ASSUME NEW c \in Calls, NEW a, End(c, a) PROVE TriesInv'
  BY <1>1 DEF End
<1>2. ASSUME NEW c \in Calls,
             \/ Arrive(c) \/ StartThread(c) \/ Resume(c) \/ Refuse(c)
             \/ TakeBody(c) \/ BodyFails(c) \/ Close(c)
      PROVE  TriesInv'
  BY <1>2 DEF Arrive, StartThread, Resume, Refuse, TakeBody, BodyFails, Close
<1>3. ASSUME NEW c \in Calls,
             \/ Look(c) \/ Probe(c) \/ SubmitChecks(c) \/ SubmitInserts(c) \/ SubmitCommits(c)
             \/ RefuseToken(c) \/ Identify(c) \/ CheckEmail(c) \/ InsertUser(c) \/ CommitUser(c)
             \/ RefreshUser(c) \/ TimeOut(c) \/ LoseConnection(c)
      PROVE  TriesInv'
  BY <1>3, <1>1
     DEF Look, Probe, SubmitChecks, SubmitInserts, SubmitCommits, RefuseToken, Identify, CheckEmail,
         InsertUser, CommitUser, RefreshUser, TimeOut, LoseConnection, Fail
<1>4. CASE UNCHANGED vars
  BY <1>4 DEF vars, exec
<1> QED
  BY <1>2, <1>3, <1>4 DEF Next, Serve, Step, Request

LEMMA SizeStep == IInv /\ [Next]_vars => SizeInv'
<1> SUFFICES ASSUME IInv, [Next]_vars PROVE SizeInv'
  OBVIOUS
<1> DEFINE Bounded(S, n) == IsFiniteSet(S) /\ Cardinality(S) <= n
<1>1. ASSUME NEW S, NEW n \in Nat, NEW c, Bounded(S, n) PROVE Bounded(S \ {c}, n)
  <2>1. Cardinality(S) \in Nat
    BY <1>1, FS_CardinalityType
  <2> QED
    BY <1>1, <2>1, FS_RemoveElement
<1>2. ASSUME NEW S, NEW n \in Nat, NEW c, Bounded(S, n), c \in S \/ Cardinality(S) < n
      PROVE  Bounded(S \cup {c}, n)
  <2>1. Cardinality(S) \in Nat
    BY <1>2, FS_CardinalityType
  <2> QED
    BY <1>2, <2>1, FS_AddElement
<1>3. /\ threads' = threads \/ \E c \in Calls : threads' = threads \ {c}
         \/ (threads' = threads \cup {c} /\ Cardinality(threads) < Threads)
      /\ conns' = conns \/ \E c \in Calls : conns' = conns \ {c}
         \/ (conns' = conns \cup {c} /\ Connected(c))
  <2>1. ASSUME NEW c \in Calls, Step(c)
        PROVE  /\ \/ threads' = threads \/ threads' = threads \ {c}
                  \/ threads' = threads \cup {c} /\ Cardinality(threads) < Threads
               /\ \/ conns' = conns \/ conns' = conns \ {c}
                  \/ conns' = conns \cup {c} /\ Connected(c)
    BY <2>1
       DEF Step, StartThread, Resume, Refuse, TakeBody, BodyFails, Look, Probe, SubmitChecks,
           SubmitInserts, SubmitCommits, Close, RefuseToken, Identify, CheckEmail, InsertUser,
           CommitUser, RefreshUser, TimeOut, Fail, End
  <2>2. ASSUME NEW c \in Calls, Request(c) \/ LoseConnection(c)
        PROVE  threads' = threads /\ (conns' = conns \/ conns' = conns \ {c})
    BY <2>2 DEF Request, Arrive, LoseConnection, Fail, End
  <2>3. CASE UNCHANGED vars
    BY <2>3 DEF vars, exec
  <2> QED
    BY <2>1, <2>2, <2>3 DEF Next, Serve
<1>4. Bounded(threads, Threads) /\ Bounded(conns, Connections)
      /\ Threads \in Nat /\ Connections \in Nat
  BY SizeAssumption DEF IInv, SizeInv
<1> HIDE DEF Bounded
<1>5. Bounded(threads', Threads)
  BY <1>1, <1>2, <1>3, <1>4
<1>6. Bounded(conns', Connections)
  BY <1>1, <1>2, <1>3, <1>4 DEF Connected
<1> QED
  BY <1>5, <1>6 DEF SizeInv, Bounded

\* Only the call itself moves its row, and the index admits no second one.
LEMMA RowStep == IInv /\ [Next]_vars => RowInv'
<1> SUFFICES ASSUME IInv, [Next]_vars PROVE RowInv'
  OBVIOUS
<1> USE DEF IInv, TypeOK, RowInv, Stores
<1>1. ASSUME NEW c \in Calls, UNCHANGED <<kind, accounts>>,
             \A d \in Calls \ {c} : at'[d] = at[d],
             at'[c] # "insert" \/ ~Stores(c), at'[c] # "commit" \/ ~Stores(c),
             c \in rows => at[c] # "commit"
                           /\ at'[c] \in {"refresh", "returned", "close", "done"}
      PROVE  RowInv'
  BY <1>1 DEF accounts
<1>2. ASSUME NEW c \in Calls, NEW a, End(c, a)
      PROVE  (\A d \in Calls \ {c} : at'[d] = at[d]) /\ at'[c] \in {"returned", "close"}
  BY <1>2 DEF End
<1>3. ASSUME NEW c \in Calls, UNCHANGED <<kind, accounts>>,
             \/ Arrive(c) \/ StartThread(c) \/ Resume(c) \/ Refuse(c)
             \/ TakeBody(c) \/ BodyFails(c) \/ Close(c)
      PROVE  RowInv'
  BY <1>3, <1>1 DEF Arrive, StartThread, Resume, Refuse, TakeBody, BodyFails, Close
<1>4. ASSUME NEW c \in Calls, UNCHANGED <<kind, accounts>>,
             \/ Look(c) \/ Probe(c) \/ SubmitCommits(c) \/ RefuseToken(c) \/ RefreshUser(c)
             \/ SubmitChecks(c) \/ SubmitInserts(c)
      PROVE  RowInv'
  BY <1>4, <1>1, <1>2
     DEF Look, Probe, SubmitCommits, RefuseToken, RefreshUser, SubmitChecks, SubmitInserts, Submits
<1>5. ASSUME NEW c \in Calls, UNCHANGED kind, TimeOut(c) PROVE RowInv'
  BY <1>5, <1>1, <1>2 DEF TimeOut, TimedOut, Queries, Fail, accounts
<1>6. ASSUME NEW c \in Calls, UNCHANGED kind, Identify(c) PROVE RowInv'
  <2>1. /\ \A d \in Calls \ {c} : at'[d] = at[d] 
        /\ at'[c] \in {"identified", "returned", "close"}
    BY <1>6, <1>2 DEF Identify
  <2> QED
    BY <1>6, <2>1 DEF Identify
<1>7. ASSUME NEW c \in Calls, UNCHANGED kind, CheckEmail(c) PROVE RowInv'
  <2>1. /\ \A d \in Calls \ {c} : at'[d] = at[d] 
        /\ at'[c] \in {"insert", "returned", "close"}
        /\ at'[c] = "insert" => EmailOf[c] \notin Known
    BY <1>7, <1>2 DEF CheckEmail
  <2>2. \A d \in Calls : seen'[d] \subseteq committed
    BY <1>7 DEF CheckEmail
  <2> QED
    BY <1>7, <2>1, <2>2 DEF CheckEmail
<1>8. ASSUME NEW c \in Calls, UNCHANGED kind, InsertUser(c) PROVE RowInv'
  <2>1. CASE Rivals(c) # {}
    BY <1>8, <2>1, <1>1, <1>2 DEF InsertUser, accounts
  <2>2. CASE Rivals(c) = {}
    <3>1. \A d \in rows : d # c => EmailOf[d] # EmailOf[c]
      BY <2>2 DEF Rivals
    <3> QED
      BY <1>8, <2>2, <3>1 DEF InsertUser
  <2> QED
    BY <2>1, <2>2
<1>9. ASSUME NEW c \in Calls, UNCHANGED kind, CommitUser(c) PROVE RowInv'
  BY <1>9 DEF CommitUser
<1>10. ASSUME NEW c \in Calls, LoseConnection(c) PROVE RowInv'
  BY <1>10, <1>2 DEF LoseConnection, Fail, Queries
<1>11. CASE UNCHANGED vars
  BY <1>11 DEF vars, exec
<1> QED
  BY <1>3, <1>4, <1>5, <1>6, <1>7, <1>8, <1>9, <1>10, <1>11
     DEF Next, Serve, Step, Request, RefreshUser, accounts

\* What a caller is told stays true: committed rows stay, and nobody who was told
\* that the email is taken inserts a row.
LEMMA AnswerStep == IInv /\ [Next]_vars => AnswerInv'
<1> SUFFICES ASSUME IInv, [Next]_vars PROVE AnswerInv'
  OBVIOUS
<1> USE DEF IInv, TypeOK, AnswerInv, Stores, Emails
<1>1. ASSUME NEW c \in Calls, UNCHANGED kind, at[c] \notin {"returned", "close", "done"},
             committed \subseteq committed', rows' \subseteq rows,
             NEW a, End(c, a),
             a = "created" /\ Stores(c) => c \in committed',
             a = "taken" => c \notin rows' /\ EmailOf[c] \in Known \cup Emails(committed')
      PROVE  AnswerInv'
  BY <1>1 DEF End
<1>2. ASSUME NEW c \in Calls, UNCHANGED kind,
             committed \subseteq committed', rows' \subseteq rows \cup {c}, ans' = ans,
             \A d \in Calls \ {c} : at'[d] = at[d],
             at[c] \in {"returned", "close", "done"} =>
                at'[c] \in {"returned", "close", "done"} /\ rows' = rows,
             at'[c] = "refresh" => c \in committed'
      PROVE  AnswerInv'
  BY <1>2
<1>3. ASSUME NEW c \in Calls, UNCHANGED <<kind, accounts>>,
             \/ Arrive(c) \/ StartThread(c) \/ Resume(c) \/ TakeBody(c) \/ Close(c)
      PROVE  AnswerInv'
  BY <1>3, <1>2 DEF Arrive, StartThread, Resume, TakeBody, Close, accounts
<1>4. ASSUME NEW c \in Calls, UNCHANGED <<kind, accounts>>, Refuse(c) \/ BodyFails(c)
      PROVE  AnswerInv'
  BY <1>4 DEF Refuse, BodyFails, accounts
<1>5. ASSUME NEW c \in Calls, UNCHANGED <<kind, accounts>>,
             \/ Look(c) \/ Probe(c) \/ SubmitCommits(c) \/ RefuseToken(c) \/ RefreshUser(c)
      PROVE  AnswerInv'
  BY <1>5, <1>1 DEF Look, Probe, SubmitCommits, RefuseToken, RefreshUser, accounts, Submits
<1>6. ASSUME NEW c \in Calls, UNCHANGED <<kind, accounts>>, SubmitChecks(c) \/ SubmitInserts(c)
      PROVE  AnswerInv'
  BY <1>6, <1>1, <1>2 DEF SubmitChecks, SubmitInserts, accounts
<1>7. ASSUME NEW c \in Calls, UNCHANGED kind, TimeOut(c) PROVE AnswerInv'
  BY <1>7, <1>1 DEF TimeOut, TimedOut, Queries, Fail, accounts
<1>8. ASSUME NEW c \in Calls, UNCHANGED kind, Identify(c) PROVE AnswerInv'
  BY <1>8, <1>1, <1>2 DEF Identify
<1>9. ASSUME NEW c \in Calls, UNCHANGED kind, CheckEmail(c) PROVE AnswerInv'
  <2>1. c \notin rows /\ seen'[c] \subseteq committed
    BY <1>9 DEF CheckEmail, RowInv
  <2> QED
    BY <1>9, <2>1, <1>1, <1>2 DEF CheckEmail
<1>10. ASSUME NEW c \in Calls, UNCHANGED kind, InsertUser(c) PROVE AnswerInv'
  <2>1. CASE Rivals(c) # {}
    <3>1. c \notin rows
      BY <1>10 DEF InsertUser, RowInv
    <3>2. EmailOf[c] \in Emails(committed)
      BY <1>10, <2>1 DEF InsertUser, Rivals
    <3> QED
      BY <1>10, <2>1, <3>1, <3>2, <1>1 DEF InsertUser, accounts
  <2>2. CASE Rivals(c) = {}
    BY <1>10, <2>2, <1>2 DEF InsertUser
  <2> QED
    BY <2>1, <2>2
<1>11. ASSUME NEW c \in Calls, UNCHANGED kind, CommitUser(c) PROVE AnswerInv'
  BY <1>11, <1>2 DEF CommitUser
<1>12. ASSUME NEW c \in Calls, LoseConnection(c) PROVE AnswerInv'
  BY <1>12, <1>1 DEF LoseConnection, Queries, Fail
<1>13. CASE UNCHANGED vars
  BY <1>13 DEF vars, exec
<1> QED
  BY <1>3, <1>4, <1>5, <1>6, <1>7, <1>8, <1>9, <1>10, <1>11, <1>12, <1>13
     DEF Next, Serve, Step, Request, RefreshUser, accounts

LEMMA Invariant == Spec => []IInv
<1>1. IInv /\ [Next]_vars => IInv'
  BY TypeStep, HoldStep, TriesStep, SizeStep, RowStep, AnswerStep DEF IInv
<1> QED
  BY <1>1, InitInvariant, PTL DEF Spec

-----------------------------------------------------------------------------

\* Values keep their kinds: no answer, place or attempt that the code does not have.
THEOREM TypeCorrect == Spec => []TypeOK
<1>1. IInv => TypeOK
  BY DEF IInv
<1> QED
  BY <1>1, Invariant, PTL

\* register and admin_create_user never give one email two accounts, and 201 and 409
\* mean what they say, whatever fails or overlaps.
THEOREM OneAccountPerEmail == Spec => []RegisteredOnce
<1>1. IInv => RegisteredOnce
  BY DEF IInv, TypeOK, RowInv, AnswerInv, RegisteredOnce
<1> QED
  BY <1>1, Invariant, PTL

\* get_db and the thread pool take back what a request was given, on every path.
THEOREM NothingLeaks == Spec => []HeldOnlyWhileServed
<1>1. IInv => HeldOnlyWhileServed
  BY DEF IInv, HoldInv, SizeInv, HeldOnlyWhileServed, ThreadPlaces
<1> QED
  BY <1>1, Invariant, PTL

-----------------------------------------------------------------------------
(* Why every request is served: somebody can always go on, and no call     *)
(* has more than StepsLeft steps before it.                                *)

\* c's next step waits for nothing but its own turn.  A query that gets no connection
\* ends with the pool's timeout; a handler on the loop keeps the others off it.
Ready(c) ==
    \/ at[c] \in {"identify", "check", "refresh", "commit"}
    \/ at[c] = "insert" /\ (Stores(c) => Rivals(c) \subseteq committed)
    \/ loop = NoCall /\ at[c] \in {"identified", "body", "returned", "close"}
    \/ loop = NoCall /\ at[c] \in {"auth", "work"} /\ Cardinality(threads) < Threads

SomebodyCanGoOn ==
    \A c \in Calls : at[c] \notin {"idle", "done"} => \E d \in Calls : Ready(d)

\* Whoever holds a thread can go on, or waits for a row whose owner has only to commit.
LEMMA ThreadsMove ==
    ASSUME IInv, loop = NoCall, NEW c \in Calls, at[c] \in ThreadPlaces
    PROVE  \E d \in Calls : Ready(d)
<1>1. CASE Ready(c)
  BY <1>1
<1>2. CASE ~Ready(c)
  <2>1. \E d \in Rivals(c) : d \notin committed
    BY <1>2 DEF Ready, ThreadPlaces
  <2>2. PICK d \in Calls : at[d] = "commit"
    BY <2>1 DEF Rivals, IInv, TypeOK, RowInv
  <2> QED
    BY <2>2 DEF Ready
<1> QED
  BY <1>1, <1>2

\* No circle of threads, connections and the event loop stops a worker for good: while
\* a request is in it, the step of some request waits for none of the others.
THEOREM NeverStuck == Spec => []SomebodyCanGoOn
<1>1. ASSUME IInv, NEW c \in Calls, at[c] \notin {"idle", "done"}
      PROVE  \E d \in Calls : Ready(d)
  <2> USE <1>1 DEF IInv, TypeOK
  <2>1. CASE loop # NoCall
    <3>1. Ready(loop) /\ loop \in Calls
      BY <2>1 DEF HoldInv, Ready, Submits, Stores
    <3> QED
      BY <3>1
  <2>2. CASE loop = NoCall /\ at[c] \in ThreadPlaces
    BY <2>2, ThreadsMove
  <2>3. CASE loop = NoCall /\ at[c] \in {"body", "close"}
    BY <2>3 DEF Ready
  <2>4. CASE loop = NoCall /\ at[c] \in {"auth", "work"} /\ Cardinality(threads) < Threads
    BY <2>4 DEF Ready
  <2>5. CASE loop = NoCall /\ ~(Cardinality(threads) < Threads)
    <3>1. threads # {}
      <4>1. Cardinality({}) = 0 /\ Threads \in Nat \ {0}
        BY SizeAssumption, FS_EmptySet
      <4>2. 0 < Threads
        BY <4>1
      <4>3. ASSUME threads = {} PROVE FALSE
        BY <2>5, <4>1, <4>2, <4>3
      <4> QED
        BY <4>3
    <3>2. PICK d \in threads : TRUE
      BY <3>1
    <3>3. d \in Calls /\ at[d] \in ThreadPlaces
      BY <3>2 DEF HoldInv
    <3> QED
      BY <3>3, <2>5, ThreadsMove
  <2>6. at[c] \in ThreadPlaces \cup {"auth", "work", "body", "close"}
    BY <1>1 DEF Places, ThreadPlaces
  <2> QED
    BY <2>1, <2>2, <2>3, <2>4, <2>5, <2>6
<1>2. IInv => SomebodyCanGoOn
  BY <1>1 DEF SomebodyCanGoOn
<1> QED
  BY <1>2, Invariant, PTL

\* How far a place is from "done"; an attempt that failed goes back to "check".
Distance(place) ==
    CASE place = "idle" -> 12     [] place = "auth" -> 11   [] place = "identify" -> 10
      [] place = "identified" -> 9 [] place = "work" -> 8   [] place = "body" -> 7
      [] place = "check" -> 6     [] place = "insert" -> 5  [] place = "commit" -> 4
      [] place = "refresh" -> 3   [] place = "returned" -> 2 [] place = "close" -> 1
      [] OTHER -> 0

StepsLeft(c) == Distance(at[c]) + 3 * (Attempts - tries[c])

\* A step takes one call forward and no call back.
GoesOn ==
    \E c \in Calls : /\ StepsLeft(c)' < StepsLeft(c)
                     /\ \A d \in Calls \ {c} : StepsLeft(d)' = StepsLeft(d)

LEMMA StepsLeftType == IInv => \A c \in Calls : StepsLeft(c) \in Nat
  BY SizeAssumption DEF IInv, TypeOK, StepsLeft, Distance

\* Retries, timeouts and lost connections included, a call takes at most
\* 12 + 3 * Attempts steps, whatever the others do.
THEOREM CallsEnd == Spec => [][GoesOn]_vars
<1>1. ASSUME IInv, Next PROVE GoesOn
  <2> USE <1>1, SizeAssumption DEF IInv, TypeOK, StepsLeft, Distance
  <2> DEFINE Moves(c) == /\ \A d \in Calls \ {c} : at'[d] = at[d] /\ tries'[d] = tries[d]
                         /\ StepsLeft(c)' < StepsLeft(c)
  <2>1. ASSUME NEW c \in Calls, NEW a, End(c, a),
               at[c] \in {"identify", "check", "insert", "commit", "refresh"}
        PROVE  Moves(c)
    BY <2>1 DEF End
  <2>2. ASSUME NEW c \in Calls,
               Arrive(c) \/ StartThread(c) \/ Resume(c) \/ Refuse(c) \/ BodyFails(c) \/ Close(c)
        PROVE  Moves(c)
    BY <2>2 DEF Arrive, StartThread, Resume, Refuse, BodyFails, Close
  <2>3. ASSUME NEW c \in Calls, TakeBody(c) PROVE Moves(c)
    BY <2>3 DEF TakeBody, TriesInv
  <2>4. ASSUME NEW c \in Calls,
               \/ Look(c) \/ Probe(c) \/ SubmitCommits(c) \/ RefuseToken(c) \/ RefreshUser(c)
               \/ TimeOut(c) \/ LoseConnection(c)
        PROVE  Moves(c)
    BY <2>4, <2>1 DEF Look, Probe, SubmitCommits, RefuseToken, RefreshUser, TimeOut, TimedOut,
                      LoseConnection, Queries, Fail
  <2>5. ASSUME NEW c \in Calls, SubmitChecks(c) \/ Identify(c) \/ CheckEmail(c) PROVE Moves(c)
    BY <2>5, <2>1 DEF SubmitChecks, Identify, CheckEmail
  <2>6. ASSUME NEW c \in Calls, SubmitInserts(c) PROVE Moves(c)
    BY <2>6, <2>1 DEF SubmitInserts
  <2>7. ASSUME NEW c \in Calls, InsertUser(c) \/ CommitUser(c) PROVE Moves(c)
    BY <2>7, <2>1 DEF InsertUser, CommitUser
  <2>8. PICK c \in Calls : Moves(c)
    <3> HIDE DEF Moves
    <3> QED
      BY <2>2, <2>3, <2>4, <2>5, <2>6, <2>7 DEF Next, Serve, Step, Request
  <2> QED
    BY <2>8 DEF GoesOn
<1>2. IInv /\ [Next]_vars => [GoesOn]_vars
  BY <1>1
<1> QED
  BY <1>2, Invariant, PTL DEF Spec

=============================================================================
