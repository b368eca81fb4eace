---------------------------- MODULE CodeSequence ----------------------------
(***************************************************************************)
(* How a business identifier is allocated: AST-<year>-<code> by            *)
(* register_asset (_next_asset_code), REP-<year>-<code> by the submission  *)
(* of a repair request (_next_repair_id).  A caller reads the largest code *)
(* of the year in text order, adds one and inserts; the unique index       *)
(* refuses the second of two equal codes, and the caller tries again.      *)
(* Rows are not deleted.                                                   *)
(***************************************************************************)
EXTENDS Integers, FiniteSets

CONSTANTS Callers,   \* HTTP requests in progress at the same time
          Years,     \* calendar years 1 .. Years
          Base,      \* 10
          Full,      \* the last code with the padded width (99999)
          Limited,   \* TRUE: _next_repair_id, which stops at Full; FALSE: _next_asset_code
          Attempts   \* _REPAIR_ID_CREATE_ATTEMPTS, _ASSET_CODE_CREATE_ATTEMPTS

ASSUME ConstantsAssumption ==
    /\ Years \in Nat \ {0}
    /\ Base \in Nat /\ Base > 1
    /\ Full \in Nat /\ Full > 1 /\ (Full + 1) % Base = 0
    /\ Limited \in BOOLEAN
    /\ Attempts \in Nat \ {0}

VARIABLES today,     \* the year date.today() answers
          used,      \* committed codes of each year
          call       \* what each caller is doing

vars == <<today, used, call>>

Calendar == 1 .. Years

\* start counts the rows there were when the call began; it is only compared.
Idle == [pc |-> "idle", year |-> 1, code |-> 0, rows |-> [y \in Calendar |-> {}],
         attempt |-> 1, start |-> 0]

Total(rows) == Cardinality(UNION {{y} \X rows[y] : y \in Calendar})

Init ==
    /\ today = 1
    /\ used = [y \in Calendar |-> {}]
    /\ call = [s \in Callers |-> Idle]

Becomes(s, t) == call' = [call EXCEPT ![s] = t]
Leave(s) == Becomes(s, Idle)

-----------------------------------------------------------------------------

\* The order of the padded codes as text: codes of one length compare as numbers, and a
\* longer one compares with a shorter one by its leading digits.
Padded(m) == m <= Full
TextBefore(m, n) ==
    \/ (Padded(m) <=> Padded(n)) /\ m < n
    \/ Padded(m) /\ ~Padded(n) /\ m <= n \div Base
    \/ ~Padded(m) /\ Padded(n) /\ m \div Base < n

Latest(rows) == CHOOSE c \in rows : \A d \in rows \ {c} : TextBefore(d, c)

NextCode(rows) == IF rows = {} THEN 1 ELSE Latest(rows) + 1

\* Slip: the year is never full.
HasRoomAlways(code) == code > 0

HasRoom(code) == Limited => code <= Full

-----------------------------------------------------------------------------

\* The year may change at any moment.
NewYear ==
    /\ today < Years
    /\ today' = today + 1
    /\ UNCHANGED <<used, call>>

\* The authentication query takes the snapshot that the first attempt reads.
Begin(s) ==
    /\ call[s].pc = "idle"
    /\ Becomes(s, [pc |-> "begun", year |-> 1, code |-> 0, rows |-> used,
                   attempt |-> 1, start |-> Total(used)])
    /\ UNCHANGED <<today, used>>

\* date.today() is read before the query.
ReadDate(s) ==
    /\ call[s].pc = "begun"
    /\ Becomes(s, [call[s] EXCEPT !.pc = "dated", !.year = today])
    /\ UNCHANGED <<today, used>>

\* Slip: rows that are not committed yet are read as well.
SeenDirty(t) == used[t.year] \cup {call[s].code : s \in {x \in Callers :
                    call[x].pc = "inserted" /\ call[x].year = t.year}}
\* Slip: the failed attempt is not rolled back, and its snapshot is read again.
SeenFirst(t) == t.rows[t.year]

\* The rows an attempt sees: the first one reads the snapshot, a later one, after the
\* rollback, the rows committed by now.
Seen(t) == IF t.attempt = 1 THEN t.rows[t.year] ELSE used[t.year]

Pick(s) ==
    /\ call[s].pc = "dated"
    /\ HasRoom(NextCode(Seen(call[s])))
    /\ Becomes(s, [call[s] EXCEPT !.pc = "picked", !.code = NextCode(Seen(call[s]))])
    /\ UNCHANGED <<today, used>>

\* 500: the sequence of the year is exhausted.
Exhausted(s) ==
    /\ call[s].pc = "dated"
    /\ ~HasRoom(NextCode(Seen(call[s])))
    /\ Leave(s)
    /\ UNCHANGED <<today, used>>

\* An uncommitted row with the same code makes the insert wait.
Free(s) == \A t \in Callers \ {s} :
              ~(/\ call[t].pc = "inserted"
                /\ call[t].year = call[s].year /\ call[t].code = call[s].code)

Insert(s) ==
    /\ call[s].pc = "picked"
    /\ Free(s)
    /\ call[s].code \notin used[call[s].year]
    /\ Becomes(s, [call[s] EXCEPT !.pc = "inserted"])
    /\ UNCHANGED <<today, used>>

Collides(s) == call[s].pc = "picked" /\ Free(s) /\ call[s].code \in used[call[s].year]

\* IntegrityError on the code: rollback and the next attempt.
Retry(s) ==
    /\ Collides(s)
    /\ call[s].attempt < Attempts
    /\ Becomes(s, [call[s] EXCEPT !.pc = "begun", !.attempt = call[s].attempt + 1])
    /\ UNCHANGED <<today, used>>

\* 409 after the last attempt.
GiveUp(s) ==
    /\ Collides(s)
    /\ call[s].attempt = Attempts
    /\ Leave(s)
    /\ UNCHANGED <<today, used>>

Commit(s) ==
    /\ call[s].pc = "inserted"
    /\ used' = [used EXCEPT ![call[s].year] = used[call[s].year] \cup {call[s].code}]
    /\ Leave(s)
    /\ UNCHANGED today

\* Any other error: the transaction is rolled back.
Fail(s) == call[s].pc # "idle" /\ Leave(s) /\ UNCHANGED <<today, used>>

Next ==
    \/ NewYear
    \/ \E s \in Callers :
          \/ Begin(s) \/ ReadDate(s) \/ Pick(s) \/ Exhausted(s)
          \/ Insert(s) \/ Retry(s) \/ GiveUp(s) \/ Commit(s) \/ Fail(s)

Spec == Init /\ [][Next]_vars

-----------------------------------------------------------------------------

\* The codes that a caller can be given.
Codes == 1 .. (IF Limited THEN Full ELSE Full + 1)

CallRecord == [pc : {"idle", "begun", "dated", "picked", "inserted"}, year : Calendar,
               code : {0} \cup Codes, rows : [Calendar -> SUBSET Codes],
               attempt : 1 .. Attempts, start : Nat]

\* Committed and picked codes stay in the range that the year offers.
TypeOK ==
    /\ today \in Calendar
    /\ used \in [Calendar -> SUBSET Codes]
    /\ call \in [Callers -> CallRecord]

\* "Monotonically increasing within the calendar year": the codes of a year are 1, 2, ...
\* in the order of their commits, with no gap, however callers interleave, fail, or read
\* before the year changes and insert after it.
Dense ==
    /\ \A y \in Calendar : used[y] = 1 .. Cardinality(used[y])
    /\ \A s \in Callers : call[s].pc = "inserted" =>
          call[s].code = Cardinality(used[call[s].year]) + 1

\* "409 conflict (asset_code collision after retry budget exhausted)": a caller is told to
\* retry only when as many others as it made attempts were served meanwhile.
ConflictMeansOvertaken ==
    [][\A s \in Callers : GiveUp(s) => Total(used) >= call[s].start + Attempts]_vars

=============================================================================
