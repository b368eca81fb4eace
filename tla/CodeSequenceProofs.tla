------------------------- MODULE CodeSequenceProofs -------------------------
(***************************************************************************)
(* Proofs about CodeSequence for every number of callers and years, every  *)
(* width of the code and every number of attempts.                         *)
(***************************************************************************)
EXTENDS CodeSequence, FiniteSetTheorems, TLAPS

LastCode == IF Limited THEN Full ELSE Full + 1

\* A year's rows are its first codes.
Prefix(rows) == \E n \in 0 .. LastCode : rows = 1 .. n

Count(t) == Cardinality(used[t.year])

\* What a caller knows: its snapshot is a prefix, and was all there was; its code is at
\* most the next one, and is the next one once it is inserted; every collision it has seen,
\* or is about to see, is somebody else's commit.
CallOK(t) ==
    /\ \A y \in Calendar : Prefix(t.rows[y]) /\ t.rows[y] \subseteq used[y]
    /\ t.pc # "idle" => t.start = Total(t.rows)
    /\ t.pc \in {"picked", "inserted"} => t.code \in 1 .. Count(t) + 1
    /\ t.pc = "inserted" => t.code = Count(t) + 1

\* No two callers have inserted the same code.
Exclusive ==
    \A s, t \in Callers : s # t /\ call[s].pc = "inserted" /\ call[t].pc = "inserted" =>
        call[s].year # call[t].year \/ call[s].code # call[t].code

\* The inductive invariant.
IInv ==
    /\ TypeOK
    /\ \A y \in Calendar : Prefix(used[y])
    /\ \A s \in Callers : CallOK(call[s])
    /\ Exclusive

\* What a caller's attempts prove about the others, when the sequence is bounded.
Overtaken(t) ==
    /\ t.pc \in {"begun", "dated", "picked"} => Total(used) + 1 >= t.start + t.attempt
    /\ t.pc = "picked" /\ t.code \in used[t.year] => Total(used) >= t.start + t.attempt
OInv == \A s \in Callers : Overtaken(call[s])

-----------------------------------------------------------------------------
(* The text order.                                                         *)

LEMMA Widths == /\ LastCode \in Nat /\ Full \in Nat /\ Full > 1 /\ LastCode >= Full
                /\ Codes = 1 .. LastCode
                /\ LastCode \in {Full, Full + 1}
  BY ConstantsAssumption DEF LastCode, Codes

LEMMA LeadingDigits == (Full + 1) \div Base \in Int /\ (Full + 1) \div Base < Full
<1> DEFINE q == (Full + 1) \div Base
<1>1. q \in Int /\ Full + 1 = Base * q + ((Full + 1) % Base)
  BY ConstantsAssumption
<1>2. (Full + 1) = Base * q
  BY <1>1, ConstantsAssumption
<1>3. q >= 0
  BY <1>1, <1>2, ConstantsAssumption
<1>4. Base * q >= 2 * q
  BY <1>1, <1>3, ConstantsAssumption
<1> HIDE DEF q
<1>5. q < Full
  BY <1>1, <1>2, <1>3, <1>4, ConstantsAssumption
<1> QED
  BY <1>1, <1>5 DEF q

\* In text order the last of the codes 1 .. n is n, except that 100000 is before 99999.
LEMMA LatestOfPrefix ==
  ASSUME NEW n \in 1 .. LastCode
  PROVE  Latest(1 .. n) = IF n <= Full THEN n ELSE Full
<1> DEFINE m == IF n <= Full THEN n ELSE Full
           IsLatest(c) == \A d \in (1 .. n) \ {c} : TextBefore(d, c)
<1>1. m \in 1 .. n /\ m <= Full
  BY Widths
<1>2. IsLatest(m)
  <2> SUFFICES ASSUME NEW d \in (1 .. n) \ {m} PROVE TextBefore(d, m)
    OBVIOUS
  <2>1. CASE n <= Full
    BY <2>1, Widths DEF TextBefore, Padded
  <2>2. CASE n > Full
    BY <2>2, Widths, LeadingDigits DEF TextBefore, Padded
  <2> QED
    BY <2>1, <2>2, Widths
<1>3. ASSUME NEW c \in 1 .. n, IsLatest(c) PROVE c = m
  <2> SUFFICES ASSUME c # m PROVE FALSE
    OBVIOUS
  <2>1. TextBefore(m, c)
    BY <1>1, <1>3
  <2>2. CASE n <= Full
    BY <2>1, <2>2, Widths DEF TextBefore, Padded
  <2>3. CASE n > Full
    <3>1. n = Full + 1 /\ m = Full
      BY <2>3, Widths
    <3>2. CASE c = Full + 1
      <4>1. TextBefore(Full, Full + 1)
        BY <2>1, <3>1, <3>2
      <4>2. Full <= (Full + 1) \div Base
        BY <4>1, Widths DEF TextBefore, Padded
      <4> QED
        BY <4>2, Widths, LeadingDigits
    <3>3. CASE c < Full
      BY <2>1, <3>1, <3>3, Widths DEF TextBefore, Padded
    <3> HIDE DEF m
    <3> QED
      BY <3>1, <3>2, <3>3, Widths
  <2> QED
    BY <2>2, <2>3, Widths
<1> HIDE DEF IsLatest, m
<1>4. Latest(1 .. n) = CHOOSE c \in 1 .. n : IsLatest(c)
  BY DEF Latest, IsLatest
<1>5. Latest(1 .. n) = m
  BY <1>1, <1>2, <1>3, <1>4
<1> QED
  BY <1>5 DEF m

LEMMA NextOfPrefix ==
  ASSUME NEW n \in 0 .. LastCode
  PROVE  NextCode(1 .. n) = IF n <= Full THEN n + 1 ELSE Full + 1
<1>1. CASE n = 0
  BY <1>1, Widths DEF NextCode
<1>2. CASE n > 0
  BY <1>2, Widths, LatestOfPrefix DEF NextCode
<1> QED
  BY <1>1, <1>2, Widths

-----------------------------------------------------------------------------
(* Counting rows.                                                          *)

LEMMA PrefixCount ==
  ASSUME NEW n \in Nat
  PROVE  Cardinality(1 .. n) = n /\ IsFiniteSet(1 .. n)
  BY FS_Interval

Pairs(rows) == UNION {{y} \X rows[y] : y \in Calendar}

LEMMA PairsFinite ==
  ASSUME NEW rows \in [Calendar -> SUBSET Codes]
  PROVE  IsFiniteSet(Pairs(rows)) /\ Total(rows) \in Nat /\ Total(rows) = Cardinality(Pairs(rows))
<1>1. IsFiniteSet(Calendar) /\ IsFiniteSet(Codes)
  BY FS_Interval, ConstantsAssumption DEF Calendar, Codes
<1>2. IsFiniteSet(Calendar \X Codes)
  BY <1>1, FS_Product
<1>3. Pairs(rows) \subseteq Calendar \X Codes
  BY DEF Pairs
<1>4. IsFiniteSet(Pairs(rows))
  BY <1>2, <1>3, FS_Subset
<1> QED
  BY <1>4, FS_CardinalityType DEF Total, Pairs

\* More rows count more.
LEMMA TotalGrows ==
  ASSUME NEW old \in [Calendar -> SUBSET Codes], NEW new \in [Calendar -> SUBSET Codes],
         \A y \in Calendar : old[y] \subseteq new[y]
  PROVE  /\ Total(old) <= Total(new)
         /\ \A y \in Calendar : old[y] # new[y] => Total(old) + 1 <= Total(new)
<1>1. Pairs(old) \subseteq Pairs(new)
  BY DEF Pairs
<1>2. Cardinality(Pairs(old)) <= Cardinality(Pairs(new))
  BY <1>1, PairsFinite, FS_Subset
<1>3. ASSUME NEW y \in Calendar, old[y] # new[y]
      PROVE  Cardinality(Pairs(old)) # Cardinality(Pairs(new))
  <2>1. PICK c \in new[y] : c \notin old[y]
    BY <1>3
  <2>2. <<y, c>> \in Pairs(new) /\ <<y, c>> \notin Pairs(old)
    BY <2>1 DEF Pairs
  <2> QED
    BY <1>1, <2>2, PairsFinite, FS_Subset
<1> QED
  BY <1>2, <1>3, PairsFinite

-----------------------------------------------------------------------------
(* The invariant.                                                          *)

LEMMA IdleRecord == Idle \in CallRecord /\ Idle.pc = "idle"
<1>1. [y \in Calendar |-> {}] \in [Calendar -> SUBSET Codes]
  OBVIOUS
<1>2. 1 \in Calendar
  BY ConstantsAssumption DEF Calendar
<1>3. 1 \in 1 .. Attempts
  BY ConstantsAssumption
<1> QED
  BY <1>1, <1>2, <1>3 DEF Idle, CallRecord

LEMMA EmptyPrefix == Prefix({})
<1>1. 0 \in 0 .. LastCode /\ 1 .. 0 = {}
  BY Widths
<1> QED
  BY <1>1 DEF Prefix

LEMMA IdleOK == (\A y \in Calendar : {} \subseteq used[y]) => CallOK(Idle)
<1>1. \A y \in Calendar : Idle.rows[y] = {}
  BY DEF Idle
<1> QED
  BY <1>1, EmptyPrefix, IdleRecord DEF CallOK

LEMMA InitInvariant == Init => IInv
<1> SUFFICES ASSUME Init PROVE IInv
  OBVIOUS
<1>1. TypeOK
  <2>1. 1 \in Calendar
    BY ConstantsAssumption DEF Calendar
  <2> QED
    BY <2>1, IdleRecord DEF Init, TypeOK
<1>2. \A y \in Calendar : used[y] = {}
  BY DEF Init
<1>3. \A s \in Callers : CallOK(call[s])
  BY <1>2, IdleOK DEF Init
<1>4. Exclusive
  BY IdleRecord DEF Exclusive, Init
<1> QED
  BY <1>1, <1>2, <1>3, <1>4, EmptyPrefix DEF IInv

\* What a pick yields: a code of the range, at most one past the present rows.
LEMMA Picked ==
  ASSUME IInv, NEW s \in Callers, call[s].pc = "dated",
         HasRoom(NextCode(Seen(call[s])))
  PROVE  /\ NextCode(Seen(call[s])) \in Codes
         /\ NextCode(Seen(call[s])) \in 1 .. Count(call[s]) + 1
         /\ Limited => NextCode(Seen(call[s])) \notin Seen(call[s])
<1> DEFINE t == call[s]
<1>1. t \in CallRecord /\ t.year \in Calendar
  BY DEF IInv, TypeOK, CallRecord
<1>2. PICK n \in 0 .. LastCode : used[t.year] = 1 .. n
  BY <1>1 DEF IInv, Prefix
<1>3. PICK m \in 0 .. LastCode : t.rows[t.year] = 1 .. m
  BY <1>1 DEF IInv, CallOK, Prefix
<1>4. t.rows[t.year] \subseteq used[t.year]
  BY <1>1 DEF IInv, CallOK
<1>5. m <= n
  BY <1>2, <1>3, <1>4, Widths
<1>6. Count(t) = n
  BY <1>2, PrefixCount, Widths DEF Count
<1>7. PICK k \in 0 .. LastCode : Seen(t) = 1 .. k /\ k <= n
  BY <1>2, <1>3, <1>5, Widths DEF Seen
<1>8. NextCode(Seen(t)) = IF k <= Full THEN k + 1 ELSE Full + 1
  BY <1>7, NextOfPrefix
<1> HIDE DEF t
<1>9. Limited => NextCode(Seen(t)) = k + 1 /\ k + 1 <= LastCode
  BY <1>7, <1>8, Widths DEF HasRoom, LastCode, t
<1>10. NextCode(Seen(t)) \in Codes
  BY <1>7, <1>8, <1>9, Widths DEF LastCode
<1>11. NextCode(Seen(t)) \in 1 .. n + 1
  BY <1>7, <1>8, Widths
<1>12. Limited => NextCode(Seen(t)) \notin Seen(t)
  BY <1>7, <1>9, Widths
<1> QED
  BY <1>6, <1>10, <1>11, <1>12 DEF t

\* A caller that changes its own record only.
LEMMA OnlyCall ==
  ASSUME IInv, NEW s \in Callers, NEW t \in CallRecord, CallOK(t),
         t.pc = "inserted" =>
            \A x \in Callers \ {s} : call[x].pc = "inserted" =>
                call[x].year # t.year \/ call[x].code # t.code,
         Becomes(s, t), UNCHANGED used, today' \in Calendar
  PROVE  IInv'
<1>1. call' \in [Callers -> CallRecord] /\ call'[s] = t
      /\ \A x \in Callers \ {s} : call'[x] = call[x]
  BY DEF Becomes, IInv, TypeOK
<1>2. TypeOK'
  BY <1>1 DEF IInv, TypeOK
<1>3. \A x \in Callers : CallOK(call'[x])
  BY <1>1 DEF IInv
<1>4. (\A x \in Callers : CallOK(call[x]))'
  BY <1>3 DEF CallOK, Count, Prefix, Total
<1>5. Exclusive'
  BY <1>1 DEF IInv, Exclusive
<1> QED
  BY <1>2, <1>4, <1>5 DEF IInv, Prefix

\* A caller that has not inserted: its record is in order whatever others do.
LEMMA Leaving ==
  ASSUME IInv, NEW s \in Callers, Leave(s), UNCHANGED <<today, used>>
  PROVE  IInv'
<1>1. CallOK(Idle)
  BY IdleOK
<1> QED
  BY <1>1, IdleRecord, OnlyCall DEF Leave, IInv, TypeOK

LEMMA CommitStep ==
  ASSUME IInv, NEW s \in Callers, Commit(s)
  PROVE  /\ IInv'
         /\ call[s].code \notin used[call[s].year]
         /\ \A y \in Calendar : used[y] \subseteq used'[y]
<1> DEFINE t == call[s]
<1>1. t \in CallRecord /\ t.year \in Calendar /\ t.pc = "inserted" /\ CallOK(t)
  BY DEF IInv, TypeOK, CallRecord, Commit
<1>2. PICK n \in 0 .. LastCode : used[t.year] = 1 .. n
  BY <1>1 DEF IInv, Prefix
<1>3. Count(t) = n
  BY <1>2, PrefixCount, Widths DEF Count
<1>4. t.code = n + 1
  BY <1>1, <1>3 DEF CallOK
<1>5. n + 1 \in 0 .. LastCode /\ t.code \in Codes /\ t.code \notin used[t.year]
  BY <1>1, <1>2, <1>4, Widths DEF CallRecord
<1>6. used[t.year] \cup {t.code} = 1 .. n + 1
  BY <1>2, <1>4, <1>5, Widths
<1>7. used' = [used EXCEPT ![t.year] = 1 .. n + 1]
  BY <1>6 DEF Commit
<1>8. used' \in [Calendar -> SUBSET Codes]
      /\ used'[t.year] = 1 .. n + 1
      /\ \A y \in Calendar \ {t.year} : used'[y] = used[y]
  BY <1>1, <1>5, <1>6, <1>7, Widths DEF IInv, TypeOK
<1>9. \A y \in Calendar : used[y] \subseteq used'[y]
  BY <1>2, <1>6, <1>8
<1>10. \A y \in Calendar : Prefix(used'[y])
  BY <1>5, <1>8 DEF IInv, Prefix
<1>11. call' = [call EXCEPT ![s] = Idle] /\ today' = today
  BY DEF Commit, Leave, Becomes
<1>12. TypeOK'
  BY <1>8, <1>11, IdleRecord DEF IInv, TypeOK
<1>13. call'[s] = Idle /\ \A x \in Callers \ {s} : call'[x] = call[x]
  BY <1>11 DEF IInv, TypeOK
<1>14. ASSUME NEW x \in Callers PROVE CallOK(call[x])'
  <2>1. CASE x = s
    <3>1. \A y \in Calendar : Idle.rows[y] = {}
      BY DEF Idle
    <3> QED
      BY <2>1, <3>1, <1>13, EmptyPrefix, IdleRecord DEF CallOK, Prefix
  <2>2. CASE x # s
    <3> DEFINE u == call[x]
    <3>1. call'[x] = u /\ CallOK(u) /\ u \in CallRecord /\ u.year \in Calendar
      BY <2>2, <1>13 DEF IInv, TypeOK, CallRecord
    <3>2. u.code \in Int
      BY <3>1, Widths DEF CallRecord
    <3>3. u.pc = "inserted" => u.year # t.year
      <4> SUFFICES ASSUME u.pc = "inserted", u.year = t.year PROVE FALSE
        OBVIOUS
      <4>1. u.code = n + 1
        BY <3>1, <1>3 DEF CallOK, Count
      <4> QED
        BY <4>1, <1>1, <1>4, <2>2 DEF IInv, Exclusive
    <3>4. CASE u.year = t.year
      <4>1. Cardinality(used'[u.year]) = n + 1 /\ Cardinality(used[u.year]) = n
        BY <3>4, <1>2, <1>8, <1>5, PrefixCount, Widths
      <4> HIDE DEF u, t
      <4>2. u.pc = "picked" => u.code \in 1 .. n + 1 + 1
        BY <3>1, <3>2, <4>1, <1>2 DEF CallOK, Count
      <4>3. \A y \in Calendar : Prefix(u.rows[y]) /\ u.rows[y] \subseteq used'[y]
        BY <3>1, <1>9 DEF CallOK
      <4> QED
        BY <3>1, <3>3, <3>4, <4>1, <4>2, <4>3 DEF CallOK, Count, Prefix, Total
    <3>5. CASE u.year # t.year
      <4>1. used'[u.year] = used[u.year]
        BY <3>1, <3>5, <1>8
      <4> HIDE DEF u, t
      <4>2. \A y \in Calendar : Prefix(u.rows[y]) /\ u.rows[y] \subseteq used'[y]
        BY <3>1, <1>9 DEF CallOK
      <4> QED
        BY <3>1, <4>1, <4>2 DEF CallOK, Count, Prefix, Total
    <3> QED
      BY <3>4, <3>5
  <2> QED
    BY <2>1, <2>2
<1>15. Exclusive'
  BY <1>13, IdleRecord DEF IInv, Exclusive
<1>16. (\A x \in Callers : CallOK(call[x]))'
  BY <1>14
<1>17. (\A y \in Calendar : Prefix(used[y]))'
  BY <1>10 DEF Prefix
<1> QED
  BY <1>5, <1>9, <1>12, <1>15, <1>16, <1>17 DEF IInv

LEMMA Unmoved ==
  ASSUME IInv, UNCHANGED <<used, call>>, today' \in Calendar
  PROVE  IInv'
<1>1. ASSUME NEW s \in Callers PROVE CallOK(call[s])'
  <2>1. CallOK(call[s])
    BY DEF IInv
  <2> QED
    BY <2>1 DEF CallOK, Prefix, Count, Total
<1>2. (\A s \in Callers : CallOK(call[s]))'
  BY <1>1
<1>3. TypeOK' /\ Exclusive' /\ (\A y \in Calendar : Prefix(used[y]))'
  BY DEF IInv, TypeOK, Exclusive, Prefix
<1> QED
  BY <1>2, <1>3 DEF IInv

LEMMA StepInvariant == IInv /\ [Next]_vars => IInv'
<1> SUFFICES ASSUME IInv, [Next]_vars PROVE IInv'
  OBVIOUS
<1> USE DEF IInv, TypeOK
<1>1. CASE NewYear
  <2>1. today' \in Calendar
    BY <1>1, ConstantsAssumption DEF NewYear, Calendar
  <2> QED
    BY <1>1, <2>1, Unmoved DEF NewYear
<1>2. ASSUME NEW s \in Callers, Begin(s) PROVE IInv'
  <2> DEFINE t == [pc |-> "begun", year |-> 1, code |-> 0, rows |-> used,
                   attempt |-> 1, start |-> Total(used)]
  <2>1. t \in CallRecord
    <3>1. 1 \in Calendar /\ 1 \in 1 .. Attempts /\ Total(used) \in Nat
      BY PairsFinite, ConstantsAssumption DEF Calendar
    <3> QED
      BY <3>1 DEF CallRecord
  <2>2. CallOK(t)
    BY DEF CallOK
  <2> QED
    BY <1>2, <2>1, <2>2, OnlyCall DEF Begin
<1>3. ASSUME NEW s \in Callers, ReadDate(s) PROVE IInv'
  <2> DEFINE t == [call[s] EXCEPT !.pc = "dated", !.year = today]
  <2>1. ASSUME NEW u \in CallRecord, u.pc = "begun", CallOK(u), NEW y \in Calendar
        PROVE  /\ [u EXCEPT !.pc = "dated", !.year = y] \in CallRecord
               /\ [u EXCEPT !.pc = "dated", !.year = y].pc = "dated"
               /\ CallOK([u EXCEPT !.pc = "dated", !.year = y])
    BY <2>1 DEF CallRecord, CallOK
  <2>2. t \in CallRecord /\ t.pc = "dated" /\ CallOK(t)
    BY <1>3, <2>1 DEF ReadDate
  <2> QED
    BY <1>3, <2>2, OnlyCall DEF ReadDate
<1>4. ASSUME NEW s \in Callers, Pick(s) PROVE IInv'
  <2> DEFINE c == NextCode(Seen(call[s]))
             t == [call[s] EXCEPT !.pc = "picked", !.code = c]
  <2>1. c \in Codes /\ c \in 1 .. Count(call[s]) + 1
    BY <1>4, Picked DEF Pick
  <2>2. ASSUME NEW u \in CallRecord, u.pc = "dated", CallOK(u),
               NEW d \in Codes, d \in 1 .. Count(u) + 1
        PROVE  /\ [u EXCEPT !.pc = "picked", !.code = d] \in CallRecord
               /\ [u EXCEPT !.pc = "picked", !.code = d].pc = "picked"
               /\ CallOK([u EXCEPT !.pc = "picked", !.code = d])
    BY <2>2 DEF CallRecord, CallOK, Count
  <2> HIDE DEF c
  <2>3. t \in CallRecord /\ t.pc = "picked" /\ CallOK(t)
    BY <1>4, <2>1, <2>2 DEF Pick
  <2> QED
    BY <1>4, <2>3, OnlyCall DEF Pick, c
<1>5. ASSUME NEW s \in Callers, Exhausted(s) PROVE IInv'
  BY <1>5, Leaving DEF Exhausted
<1>6. ASSUME NEW s \in Callers, Insert(s) PROVE IInv'
  <2> DEFINE t == [call[s] EXCEPT !.pc = "inserted"]
  <2>1. call[s] \in CallRecord /\ call[s].year \in Calendar /\ CallOK(call[s])
    BY DEF CallRecord
  <2>2. PICK n \in 0 .. LastCode : used[call[s].year] = 1 .. n
    BY <2>1 DEF Prefix
  <2>3. Count(call[s]) = n
    BY <2>2, PrefixCount, Widths DEF Count
  <2>4. call[s].code = n + 1
    BY <1>6, <2>1, <2>2, <2>3, Widths DEF Insert, CallOK
  <2>5. ASSUME NEW u \in CallRecord, u.pc = "picked", CallOK(u), u.code = Count(u) + 1
        PROVE  /\ [u EXCEPT !.pc = "inserted"] \in CallRecord
               /\ CallOK([u EXCEPT !.pc = "inserted"])
               /\ [u EXCEPT !.pc = "inserted"].year = u.year
               /\ [u EXCEPT !.pc = "inserted"].code = u.code
    BY <2>5 DEF CallRecord, CallOK, Count
  <2>6. t \in CallRecord /\ CallOK(t) /\ t.year = call[s].year /\ t.code = call[s].code
    BY <1>6, <2>1, <2>3, <2>4, <2>5 DEF Insert
  <2> HIDE DEF t
  <2>7. \A x \in Callers \ {s} : call[x].pc = "inserted" =>
            call[x].year # t.year \/ call[x].code # t.code
    BY <1>6, <2>6 DEF Insert, Free
  <2> QED
    BY <1>6, <2>6, <2>7, OnlyCall DEF Insert, t
<1>7. ASSUME NEW s \in Callers, Retry(s) PROVE IInv'
  <2> DEFINE t == [call[s] EXCEPT !.pc = "begun", !.attempt = call[s].attempt + 1]
  <2>1. ASSUME NEW u \in CallRecord, u.pc = "picked", CallOK(u), NEW k \in 1 .. Attempts
        PROVE  /\ [u EXCEPT !.pc = "begun", !.attempt = k] \in CallRecord
               /\ [u EXCEPT !.pc = "begun", !.attempt = k].pc = "begun"
               /\ CallOK([u EXCEPT !.pc = "begun", !.attempt = k])
    BY <2>1 DEF CallRecord, CallOK
  <2>2. call[s].attempt + 1 \in 1 .. Attempts
    BY <1>7, ConstantsAssumption DEF Retry, CallRecord
  <2>3. t \in CallRecord /\ t.pc = "begun" /\ CallOK(t)
    BY <1>7, <2>1, <2>2 DEF Retry, Collides
  <2> QED
    BY <1>7, <2>3, OnlyCall DEF Retry
<1>8. ASSUME NEW s \in Callers, GiveUp(s) PROVE IInv'
  BY <1>8, Leaving DEF GiveUp
<1>9. ASSUME NEW s \in Callers, Commit(s) PROVE IInv'
  BY <1>9, CommitStep
<1>10. ASSUME NEW s \in Callers, Fail(s) PROVE IInv'
  BY <1>10, Leaving DEF Fail
<1>11. CASE UNCHANGED vars
  BY <1>11, Unmoved DEF vars
<1> QED
  BY <1>1, <1>2, <1>3, <1>4, <1>5, <1>6, <1>7, <1>8, <1>9, <1>10, <1>11 DEF Next

THEOREM Invariant == Spec => []IInv
  BY InitInvariant, StepInvariant, PTL DEF Spec

-----------------------------------------------------------------------------
(* Collisions.                                                             *)

\* A caller's own step, while the committed rows stay.
LEMMA OvertakenAlone ==
  ASSUME IInv, OInv, NEW s \in Callers, NEW t, Overtaken(t), Becomes(s, t), UNCHANGED used
  PROVE  OInv'
<1>1. call'[s] = t /\ \A x \in Callers \ {s} : call'[x] = call[x]
  BY DEF Becomes, IInv, TypeOK
<1>2. ASSUME NEW x \in Callers PROVE Overtaken(call[x])'
  <2>1. Overtaken(call'[x])
    BY <1>1 DEF OInv
  <2> QED
    BY <2>1 DEF Overtaken, Total
<1> QED
  BY <1>2 DEF OInv

LEMMA OvertakenInit == Init => OInv
  BY IdleRecord DEF Init, OInv, Overtaken

LEMMA OvertakenStep ==
  ASSUME Limited = TRUE, IInv, OInv, [Next]_vars
  PROVE  OInv'
<1>0. Overtaken(Idle)
  BY IdleRecord DEF Overtaken
<1>t. used \in [Calendar -> SUBSET Codes] /\ Total(used) \in Nat
  BY PairsFinite DEF IInv, TypeOK
<1>1. CASE NewYear
  BY <1>1 DEF NewYear, OInv, Overtaken, Total
<1>2. ASSUME NEW s \in Callers, Begin(s) PROVE OInv'
  <2> DEFINE t == [pc |-> "begun", year |-> 1, code |-> 0, rows |-> used,
                   attempt |-> 1, start |-> Total(used)]
  <2>1. Overtaken(t)
    BY <1>t DEF Overtaken
  <2> QED
    BY <1>2, <2>1, OvertakenAlone DEF Begin
<1>3. ASSUME NEW s \in Callers, ReadDate(s) PROVE OInv'
  <2> DEFINE t == [call[s] EXCEPT !.pc = "dated", !.year = today]
  <2>1. ASSUME NEW u \in CallRecord, u.pc = "begun", Overtaken(u), NEW y
        PROVE  Overtaken([u EXCEPT !.pc = "dated", !.year = y])
    BY <2>1 DEF CallRecord, Overtaken
  <2>2. Overtaken(t)
    BY <1>3, <2>1 DEF ReadDate, IInv, TypeOK, OInv
  <2> QED
    BY <1>3, <2>2, OvertakenAlone DEF ReadDate
<1>4. ASSUME NEW s \in Callers, Pick(s) PROVE OInv'
  <2> DEFINE c == NextCode(Seen(call[s]))
             t == [call[s] EXCEPT !.pc = "picked", !.code = c]
  <2>1. call[s] \in CallRecord /\ call[s].year \in Calendar /\ call[s].pc = "dated"
        /\ CallOK(call[s]) /\ Overtaken(call[s])
    BY <1>4 DEF Pick, IInv, TypeOK, OInv, CallRecord
  <2>2. c \notin Seen(call[s])
    BY <1>4, Picked DEF Pick
  <2>3. c \in used[call[s].year] => Total(used) >= call[s].start + call[s].attempt
    <3> SUFFICES ASSUME c \in used[call[s].year]
                 PROVE  Total(used) >= call[s].start + call[s].attempt
      OBVIOUS
    <3>1. call[s].attempt = 1 /\ c \notin call[s].rows[call[s].year]
      BY <2>2 DEF Seen
    <3>2. call[s].start = Total(call[s].rows)
      BY <2>1 DEF CallOK
    <3>3. call[s].rows \in [Calendar -> SUBSET Codes]
          /\ \A y \in Calendar : call[s].rows[y] \subseteq used[y]
      BY <2>1 DEF CallRecord, CallOK
    <3>4. call[s].rows[call[s].year] # used[call[s].year]
      BY <3>1
    <3>5. Total(call[s].rows) + 1 <= Total(used)
      BY <2>1, <3>3, <3>4, <1>t, TotalGrows
    <3> QED
      BY <3>1, <3>2, <3>5, <3>3, <1>t, PairsFinite
  <2>4. ASSUME NEW u \in CallRecord, u.pc = "dated", Overtaken(u), NEW d,
               d \in used[u.year] => Total(used) >= u.start + u.attempt
        PROVE  Overtaken([u EXCEPT !.pc = "picked", !.code = d])
    BY <2>4 DEF CallRecord, Overtaken
  <2> HIDE DEF c
  <2>5. Overtaken(t)
    BY <2>1, <2>3, <2>4
  <2> QED
    BY <1>4, <2>5, OvertakenAlone DEF Pick, c
<1>5. ASSUME NEW s \in Callers, Exhausted(s) \/ GiveUp(s) \/ Fail(s) PROVE OInv'
  BY <1>5, <1>0, OvertakenAlone DEF Exhausted, GiveUp, Fail, Leave
<1>6. ASSUME NEW s \in Callers, Insert(s) PROVE OInv'
  <2> DEFINE t == [call[s] EXCEPT !.pc = "inserted"]
  <2>1. ASSUME NEW u \in CallRecord PROVE Overtaken([u EXCEPT !.pc = "inserted"])
    BY DEF CallRecord, Overtaken
  <2>2. Overtaken(t)
    BY <2>1 DEF IInv, TypeOK
  <2> QED
    BY <1>6, <2>2, OvertakenAlone DEF Insert
<1>7. ASSUME NEW s \in Callers, Retry(s) PROVE OInv'
  <2> DEFINE t == [call[s] EXCEPT !.pc = "begun", !.attempt = call[s].attempt + 1]
  <2>1. ASSUME NEW u \in CallRecord, u.pc = "picked", u.code \in used[u.year], Overtaken(u),
               NEW k, k = u.attempt + 1
        PROVE  Overtaken([u EXCEPT !.pc = "begun", !.attempt = k])
    BY <2>1, <1>t DEF CallRecord, Overtaken
  <2>2. Overtaken(t)
    BY <1>7, <2>1 DEF Retry, Collides, IInv, TypeOK, OInv
  <2> QED
    BY <1>7, <2>2, OvertakenAlone DEF Retry
<1>8. ASSUME NEW s \in Callers, Commit(s) PROVE OInv'
  <2>1. IInv' /\ call[s].code \notin used[call[s].year]
        /\ \A y \in Calendar : used[y] \subseteq used'[y]
    BY <1>8, CommitStep
  <2>2. used' \in [Calendar -> SUBSET Codes] /\ Total(used') \in Nat
    BY <2>1, PairsFinite DEF IInv, TypeOK
  <2>3. Total(used) <= Total(used')
        /\ \A y \in Calendar : used[y] # used'[y] => Total(used) + 1 <= Total(used')
    BY <1>t, <2>1, <2>2, TotalGrows
  <2>4. call'[s] = Idle /\ \A x \in Callers \ {s} : call'[x] = call[x]
    BY <1>8 DEF Commit, Leave, Becomes, IInv, TypeOK
  <2>5. ASSUME NEW x \in Callers PROVE Overtaken(call[x])'
    <3>1. CASE x = s
      BY <3>1, <2>4, IdleRecord DEF Overtaken
    <3>2. CASE x # s
      <4> DEFINE u == call[x]
      <4>1. call'[x] = u /\ u \in CallRecord /\ u.year \in Calendar /\ Overtaken(u)
        BY <3>2, <2>4 DEF IInv, TypeOK, OInv, CallRecord
      <4>2. u.code \in used'[u.year] /\ u.code \notin used[u.year] =>
               Total(used) + 1 <= Total(used')
        BY <4>1, <2>3
      <4>3. u.start \in Nat /\ u.attempt \in Nat
        BY <4>1 DEF CallRecord
      <4> HIDE DEF u
      <4>4. u.pc \in {"begun", "dated", "picked"} => Total(used') + 1 >= u.start + u.attempt
        BY <4>1, <4>3, <2>2, <2>3, <1>t DEF Overtaken
      <4>5. u.pc = "picked" /\ u.code \in used'[u.year] => Total(used') >= u.start + u.attempt
        BY <4>1, <4>2, <4>3, <2>2, <2>3, <1>t DEF Overtaken
      <4> QED
        BY <4>1, <4>4, <4>5 DEF Overtaken, Total
    <3> QED
      BY <3>1, <3>2
  <2> QED
    BY <2>5 DEF OInv
<1>9. CASE UNCHANGED vars
  BY <1>9 DEF vars, OInv, Overtaken, Total
<1> QED
  BY <1>1, <1>2, <1>3, <1>4, <1>5, <1>6, <1>7, <1>8, <1>9 DEF Next

-----------------------------------------------------------------------------
(* The theorems.                                                           *)

LEMMA DenseFromInvariant == IInv => Dense
<1> SUFFICES ASSUME IInv PROVE Dense
  OBVIOUS
<1>1. ASSUME NEW y \in Calendar PROVE used[y] = 1 .. Cardinality(used[y])
  <2>1. PICK n \in 0 .. LastCode : used[y] = 1 .. n
    BY DEF IInv, Prefix
  <2> QED
    BY <2>1, PrefixCount, Widths
<1>2. ASSUME NEW s \in Callers, call[s].pc = "inserted"
      PROVE  call[s].code = Cardinality(used[call[s].year]) + 1
  BY <1>2 DEF IInv, CallOK, Count
<1> QED
  BY <1>1, <1>2 DEF Dense

\* Whatever the interleaving of callers and years, every code handed out lies in the range
\* of the year (_next_repair_id stops at 99999, _next_asset_code is stuck one further).
THEOREM TypeCorrect == Spec => []TypeOK
<1>1. IInv => TypeOK
  BY DEF IInv
<1> QED
  BY <1>1, Invariant, PTL

\* The codes of a year are its first natural numbers in the order of their commits, for the
\* bounded and the unbounded sequence.
THEOREM CodesAreDense == Spec => []Dense
  BY DenseFromInvariant, Invariant, PTL

\* With the bound of _next_repair_id, a caller that gives up was overtaken by as many others
\* as it made attempts.  Without it (_next_asset_code) this is false.
THEOREM ConflictIsContention == ASSUME Limited = TRUE PROVE Spec => ConflictMeansOvertaken
<1>1. IInv /\ OInv /\ [Next]_vars => OInv'
  BY OvertakenStep
<1>2. Spec => []OInv
  BY <1>1, OvertakenInit, Invariant, PTL DEF Spec
<1>3. OInv => \A s \in Callers : GiveUp(s) => Total(used) >= call[s].start + Attempts
  BY DEF OInv, Overtaken, GiveUp, Collides
<1>4. OInv /\ [Next]_vars =>
        [\A s \in Callers : GiveUp(s) => Total(used) >= call[s].start + Attempts]_vars
  BY <1>3
<1> QED
  BY <1>2, <1>4, PTL DEF Spec, ConflictMeansOvertaken

=============================================================================
