------------------------- MODULE RepairImagesProofs -------------------------
(***************************************************************************)
(* Proofs about RepairImages for any number of submissions, images and     *)
(* attempts, under every fault.                                            *)
(***************************************************************************)
EXTENDS RepairImages, TLAPS

\* A submission cleans up its own objects only, has noted each image it saved, and is
\* answered 201 with rows and objects in place.
SubmissionOK(s, t, st, rw) ==
    /\ t.keys \subseteq ImagesOf(s)
    /\ t.pc = "idle" => t.keys = {} /\ t.count = 0
    /\ t.pc \in {"saving", "flushed", "created"} =>
          /\ t.keys \subseteq st
          /\ \A i \in 1 .. t.count : <<s, t.attempt, i>> \in t.keys
    /\ t.pc \in {"flushed", "created"} => t.count = Images
    /\ t.pc = "created" => t.keys \subseteq rw

\* The inductive invariant under every fault.
IInv ==
    /\ TypeOK
    /\ \A s \in Submissions : SubmissionOK(s, sub[s], stored, rows)

\* What holds of a submission until the answer to its COMMIT is lost: it cleans up nothing
\* that a row names.
Acknowledged(s, t, st, rw) ==
    /\ rw \cap ImagesOf(s) \subseteq st
    /\ t.pc \in {"idle", "saving", "flushed", "cleaning"} => rw \cap ImagesOf(s) = {}
AInv == \A s \in Submissions \ unheard : Acknowledged(s, sub[s], stored, rows)

\* What holds while processes live, deletes work and a failed save stores nothing: the
\* keys of a submission account for its objects.
Noted(s, t, st) ==
    /\ t.pc # "dead"
    /\ st \cap ImagesOf(s) \subseteq t.keys
    /\ t.pc = "failed" => t.keys = {}
OInv == faults = {} => \A s \in Submissions : Noted(s, sub[s], stored)

-----------------------------------------------------------------------------

LEMMA Disjoint ==
  ASSUME NEW s \in Submissions, NEW x \in Submissions, x # s
  PROVE  ImagesOf(s) \cap ImagesOf(x) = {}
  BY DEF ImagesOf

LEMMA InitInvariant == Init => IInv /\ AInv /\ OInv
<1> SUFFICES ASSUME Init PROVE IInv /\ AInv /\ OInv
  OBVIOUS
<1>1. Idle \in Submission
  BY ConstantsAssumption DEF Idle, Submission
<1>2. TypeOK
  BY <1>1 DEF Init, TypeOK
<1>3. \A s \in Submissions : /\ SubmissionOK(s, Idle, stored, rows)
                             /\ Acknowledged(s, Idle, stored, rows)
                             /\ Noted(s, Idle, stored)
  BY DEF SubmissionOK, Acknowledged, Noted, Idle, Init
<1> QED
  BY <1>2, <1>3 DEF IInv, AInv, OInv, Init

\* To show the invariant after a step of s, it suffices to look at s.
LEMMA StepSuffices ==
  ASSUME IInv, NEW s \in Submissions, NEW t \in Submission, Becomes(s, t),
         stored' \subseteq Objects, rows' \subseteq Objects, faults' \subseteq Faults,
         unheard' \subseteq Submissions,
         stored \ ImagesOf(s) \subseteq stored', rows \subseteq rows',
         SubmissionOK(s, t, stored', rows')
  PROVE  IInv'
<1>1. sub' \in [Submissions -> Submission] /\ sub'[s] = t
      /\ \A x \in Submissions \ {s} : sub'[x] = sub[x]
  BY DEF Becomes, IInv, TypeOK
<1>2. TypeOK'
  BY <1>1 DEF TypeOK
<1>3. ASSUME NEW x \in Submissions PROVE SubmissionOK(x, sub'[x], stored', rows')
  <2>1. CASE x = s
    BY <2>1, <1>1 DEF SubmissionOK
  <2>2. CASE x # s
    <3>1. SubmissionOK(x, sub[x], stored, rows) /\ sub'[x] = sub[x]
      BY <1>1, <2>2 DEF IInv
    <3>2. sub[x].keys \cap ImagesOf(s) = {}
      BY <3>1, <2>2, Disjoint DEF SubmissionOK
    <3> QED
      BY <3>1, <3>2 DEF SubmissionOK
  <2> QED
    BY <2>1, <2>2
<1> QED
  BY <1>2, <1>3 DEF IInv

LEMMA NextObjectOK ==
  ASSUME IInv, NEW s \in Submissions, sub[s].count < Images
  PROVE  NextObject(s) \in Objects /\ NextObject(s) \in ImagesOf(s)
<1>1. sub[s].attempt \in 1 .. Attempts /\ sub[s].count + 1 \in 1 .. Images
  BY ConstantsAssumption DEF IInv, TypeOK, Submission
<1> QED
  BY <1>1 DEF NextObject, Objects, ImagesOf

\* Going on to another control point with the same keys.
LEMMA Moves ==
  ASSUME IInv, NEW s \in Submissions,
         NEW pc \in {"saving", "flushed", "created", "cleaning", "failed", "dead"},
         Goto(s, pc),
         stored' \subseteq Objects, rows' \subseteq Objects, faults' \subseteq Faults,
         unheard' \subseteq Submissions,
         stored \subseteq stored', rows \subseteq rows',
         pc \in {"saving", "flushed", "created"} =>
            sub[s].pc \in {"idle", "saving", "flushed"},
         pc \in {"flushed", "created"} => sub[s].count = Images,
         pc = "created" => sub[s].keys \subseteq rows'
  PROVE  IInv'
<1> DEFINE t == [sub[s] EXCEPT !.pc = pc]
<1>1. sub[s] \in Submission /\ SubmissionOK(s, sub[s], stored, rows)
  BY DEF IInv, TypeOK
<1>2. ASSUME NEW u \in Submission
      PROVE  /\ [u EXCEPT !.pc = pc] \in Submission
             /\ [u EXCEPT !.pc = pc].pc = pc
             /\ [u EXCEPT !.pc = pc].keys = u.keys
             /\ [u EXCEPT !.pc = pc].count = u.count
             /\ [u EXCEPT !.pc = pc].attempt = u.attempt
  BY DEF Submission
<1>3. t \in Submission /\ t.pc = pc /\ t.keys = sub[s].keys /\ t.count = sub[s].count
      /\ t.attempt = sub[s].attempt
  BY <1>1, <1>2
<1> HIDE DEF t
<1>4. SubmissionOK(s, t, stored', rows')
  BY <1>1, <1>3 DEF SubmissionOK
<1>5. Becomes(s, t)
  BY DEF Goto, t
<1> QED
  BY <1>3, <1>4, <1>5, StepSuffices

\* What has gone wrong stays on record.
LEMMA FaultsGrow ==
  ASSUME IInv, [Next]_vars
  PROVE  /\ faults' \subseteq Faults /\ faults \subseteq faults'
         /\ unheard' \subseteq Submissions /\ unheard \subseteq unheard'
<1>1. faults \subseteq Faults /\ unheard \subseteq Submissions
  BY DEF IInv, TypeOK
<1>2. ASSUME NEW s \in Submissions,
             \/ Flush(s) \/ Collide(s) \/ Refuse(s) \/ Save(s) \/ SaveFails(s)
             \/ FlushImages(s) \/ FlushFails(s) \/ Commit(s) \/ CommitFails(s)
             \/ CleanUp(s) \/ Fail(s)
      PROVE  /\ faults' = faults \/ \E k \in Faults : faults' = faults \cup {k}
             /\ unheard' = unheard \/ unheard' = unheard \cup {s}
  BY <1>2 DEF Flush, Collide, Refuse, Save, SaveFails, FlushImages, FlushFails, Commit,
              CommitFails, CleanUp, Fail, Happens, Faults
<1>3. CASE Crash
  BY <1>1, <1>3 DEF Crash, Happens, Faults
<1>4. CASE UNCHANGED vars
  BY <1>1, <1>4 DEF vars
<1> QED
  BY <1>1, <1>2, <1>3, <1>4 DEF Next

LEMMA StepInvariant == IInv /\ [Next]_vars => IInv'
<1> SUFFICES ASSUME IInv, [Next]_vars PROVE IInv'
  OBVIOUS
<1>t. stored \subseteq Objects /\ rows \subseteq Objects
  BY DEF IInv, TypeOK
<1>f. faults' \subseteq Faults /\ unheard' \subseteq Submissions
  BY FaultsGrow
<1>1. ASSUME NEW s \in Submissions,
             Flush(s) \/ Refuse(s) \/ FlushImages(s) \/ FlushFails(s) \/ Fail(s)
      PROVE  IInv'
  BY <1>1, <1>t, <1>f, Moves DEF Flush, Refuse, FlushImages, FlushFails, Fail
<1>2. ASSUME NEW s \in Submissions, Collide(s) PROVE IInv'
  <2>1. CASE sub[s].attempt < Attempts
    <3> DEFINE t == [sub[s] EXCEPT !.attempt = sub[s].attempt + 1]
    <3>1. sub[s] \in Submission /\ SubmissionOK(s, sub[s], stored, rows) /\ sub[s].pc = "idle"
      BY <1>2 DEF IInv, TypeOK, Collide
    <3>2. ASSUME NEW u \in Submission, NEW k \in 1 .. Attempts
          PROVE  /\ [u EXCEPT !.attempt = k] \in Submission
                 /\ [u EXCEPT !.attempt = k].pc = u.pc
                 /\ [u EXCEPT !.attempt = k].keys = u.keys
                 /\ [u EXCEPT !.attempt = k].count = u.count
      BY DEF Submission
    <3>3. sub[s].attempt + 1 \in 1 .. Attempts
      BY <2>1, <3>1, ConstantsAssumption DEF Submission
    <3>4. t \in Submission /\ t.pc = "idle" /\ t.keys = sub[s].keys /\ t.count = sub[s].count
      BY <3>1, <3>2, <3>3
    <3> HIDE DEF t
    <3>5. SubmissionOK(s, t, stored', rows')
      BY <3>1, <3>4 DEF SubmissionOK
    <3>6. Becomes(s, t) /\ UNCHANGED <<stored, rows>>
      BY <1>2, <2>1 DEF Collide, t
    <3> QED
      BY <3>4, <3>5, <3>6, <1>t, <1>f, StepSuffices
  <2>2. CASE ~(sub[s].attempt < Attempts)
    BY <1>2, <2>2, <1>t, <1>f, Moves DEF Collide
  <2> QED
    BY <2>1, <2>2
<1>3. ASSUME NEW s \in Submissions, Save(s) PROVE IInv'
  <2> DEFINE o == NextObject(s)
             t == [pc |-> "saving", attempt |-> sub[s].attempt, count |-> sub[s].count + 1,
                   keys |-> sub[s].keys \cup {o}]
  <2>1. sub[s] \in Submission /\ SubmissionOK(s, sub[s], stored, rows) /\ sub[s].pc = "saving"
        /\ sub[s].count < Images /\ stored' = stored \cup {o} /\ rows' = rows
    BY <1>3 DEF IInv, TypeOK, Save
  <2>2. o \in Objects /\ o \in ImagesOf(s)
    BY <2>1, NextObjectOK
  <2>4. sub[s].count + 1 \in 0 .. Images /\ sub[s].count \in Nat
        /\ sub[s].keys \cup {o} \in SUBSET Objects
    BY <2>1, <2>2, ConstantsAssumption DEF Submission
  <2>5. t \in Submission /\ t.pc = "saving" /\ t.attempt = sub[s].attempt
        /\ t.keys = sub[s].keys \cup {o} /\ t.count = sub[s].count + 1
    BY <2>1, <2>4 DEF Submission
  <2>6. o = <<s, sub[s].attempt, sub[s].count + 1>>
    BY DEF NextObject
  <2>7. Becomes(s, t)
    BY <1>3 DEF Save
  <2> HIDE DEF t, o
  <2>8. \A i \in 1 .. t.count : <<s, t.attempt, i>> \in t.keys
    BY <2>1, <2>4, <2>5, <2>6 DEF SubmissionOK
  <2>9. SubmissionOK(s, t, stored', rows')
    BY <2>1, <2>2, <2>5, <2>8 DEF SubmissionOK
  <2> QED
    BY <2>1, <2>2, <2>5, <2>7, <2>9, <1>t, <1>f, StepSuffices
<1>4. ASSUME NEW s \in Submissions, SaveFails(s) PROVE IInv'
  <2>1. stored \subseteq stored' /\ stored' \subseteq Objects
    BY <1>4, <1>t, NextObjectOK DEF SaveFails
  <2> QED
    BY <1>4, <2>1, <1>t, <1>f, Moves DEF SaveFails
<1>5. ASSUME NEW s \in Submissions, Commit(s) \/ CommitFails(s) PROVE IInv'
  <2>1. sub[s].keys \subseteq Objects /\ sub[s].pc = "flushed" /\ sub[s].count = Images
    BY <1>5 DEF IInv, TypeOK, Submission, SubmissionOK, Commit, CommitFails
  <2>2. CASE Commit(s)
    BY <2>1, <2>2, <1>t, <1>f, Moves DEF Commit
  <2>3. CASE CommitFails(s)
    BY <2>1, <2>3, <1>t, <1>f, Moves DEF CommitFails
  <2> QED
    BY <1>5, <2>2, <2>3
<1>6. ASSUME NEW s \in Submissions, CleanUp(s) PROVE IInv'
  <2>1. PICK k \in sub[s].keys :
           /\ stored' = stored \ {k} \/ UNCHANGED stored
           /\ Becomes(s, [sub[s] EXCEPT !.keys = sub[s].keys \ {k}])
    BY <1>6 DEF CleanUp
  <2> DEFINE t == [sub[s] EXCEPT !.keys = sub[s].keys \ {k}]
  <2>2. sub[s] \in Submission /\ SubmissionOK(s, sub[s], stored, rows) /\ sub[s].pc = "cleaning"
        /\ rows' = rows
    BY <1>6 DEF IInv, TypeOK, CleanUp
  <2>3. ASSUME NEW u \in Submission, NEW ks \in SUBSET Objects
        PROVE  /\ [u EXCEPT !.keys = ks] \in Submission
               /\ [u EXCEPT !.keys = ks].pc = u.pc
               /\ [u EXCEPT !.keys = ks].keys = ks
    BY DEF Submission
  <2>4. sub[s].keys \ {k} \in SUBSET Objects
    BY <2>2 DEF Submission
  <2>5. t \in Submission /\ t.pc = "cleaning" /\ t.keys = sub[s].keys \ {k}
    BY <2>2, <2>3, <2>4
  <2>6. k \in ImagesOf(s)
    BY <2>1, <2>2 DEF SubmissionOK
  <2> HIDE DEF t
  <2>7. SubmissionOK(s, t, stored', rows')
    BY <2>2, <2>5 DEF SubmissionOK
  <2>8. Becomes(s, t)
    BY <2>1 DEF t
  <2> QED
    BY <2>1, <2>2, <2>5, <2>6, <2>7, <2>8, <1>t, <1>f, StepSuffices
<1>7. CASE Crash
  <2>1. PICK done \in SUBSET {s \in Submissions : sub[s].pc = "flushed"} :
           rows' = rows \cup UNION {sub[s].keys : s \in done}
    BY <1>7 DEF Crash
  <2>2. \A s \in Submissions : sub[s].keys \subseteq Objects
    BY DEF IInv, TypeOK, Submission
  <2>3. rows' \subseteq Objects /\ rows \subseteq rows' /\ stored' = stored
    BY <1>7, <1>t, <2>1, <2>2 DEF Crash
  <2>4. ASSUME NEW s \in Submissions
        PROVE  sub'[s] \in Submission /\ SubmissionOK(s, sub'[s], stored', rows')
    <3>1. sub[s] \in Submission /\ SubmissionOK(s, sub[s], stored, rows)
      BY DEF IInv, TypeOK
    <3>2. CASE Running(s)
      <4>1. ASSUME NEW u \in Submission
            PROVE  /\ [u EXCEPT !.pc = "dead"] \in Submission
                   /\ [u EXCEPT !.pc = "dead"].pc = "dead"
                   /\ [u EXCEPT !.pc = "dead"].keys = u.keys
        BY DEF Submission
      <4>2. sub'[s] = [sub[s] EXCEPT !.pc = "dead"]
        BY <1>7, <3>2 DEF Crash
      <4>3. sub'[s] \in Submission /\ sub'[s].pc = "dead" /\ sub'[s].keys = sub[s].keys
        BY <3>1, <4>1, <4>2
      <4> QED
        BY <3>1, <4>3 DEF SubmissionOK
    <3>3. CASE ~Running(s)
      BY <1>7, <2>3, <3>1, <3>3 DEF Crash, SubmissionOK
    <3> QED
      BY <3>2, <3>3
  <2>5. sub' \in [Submissions -> Submission]
    BY <1>7, <2>4 DEF Crash
  <2> QED
    BY <2>3, <2>4, <2>5, <1>t, <1>f DEF IInv, TypeOK
<1>8. CASE UNCHANGED vars
  BY <1>8 DEF vars, IInv, TypeOK, SubmissionOK
<1> QED
  BY <1>1, <1>2, <1>3, <1>4, <1>5, <1>6, <1>7, <1>8 DEF Next

-----------------------------------------------------------------------------

\* As StepSuffices, for AInv.
LEMMA StepSufficesA ==
  ASSUME IInv, AInv, unheard \subseteq unheard',
         NEW s \in Submissions, NEW t, Becomes(s, t),
         stored \ ImagesOf(s) \subseteq stored', rows' \ ImagesOf(s) \subseteq rows,
         s \notin unheard' => Acknowledged(s, t, stored', rows')
  PROVE  AInv'
<1>1. sub'[s] = t /\ \A x \in Submissions \ {s} : sub'[x] = sub[x]
  BY DEF Becomes, IInv, TypeOK
<1>2. ASSUME NEW x \in Submissions \ unheard'
      PROVE  Acknowledged(x, sub'[x], stored', rows')
  <2>1. CASE x = s
    BY <2>1, <1>1
  <2>2. CASE x # s
    <3>1. Acknowledged(x, sub[x], stored, rows) /\ sub'[x] = sub[x]
      BY <1>1, <2>2 DEF AInv
    <3>2. rows' \cap ImagesOf(x) \subseteq rows
          /\ stored \cap ImagesOf(x) \subseteq stored'
      BY <2>2, Disjoint
    <3> QED
      BY <3>1, <3>2 DEF Acknowledged
  <2> QED
    BY <2>1, <2>2
<1> QED
  BY <1>2 DEF AInv

\* A step that only adds objects and leaves the rows alone.
LEMMA Stays ==
  ASSUME IInv, AInv, unheard \subseteq unheard',
         NEW s \in Submissions, NEW t, Becomes(s, t),
         rows' = rows, stored \subseteq stored',
         t.pc \in {"idle", "saving", "flushed", "cleaning"} =>
            sub[s].pc \in {"idle", "saving", "flushed", "cleaning"}
  PROVE  AInv'
<1>1. s \notin unheard' => Acknowledged(s, t, stored', rows')
  BY DEF AInv, Acknowledged
<1> QED
  BY <1>1, StepSufficesA

LEMMA GotoPc ==
  ASSUME IInv, NEW s \in Submissions, NEW pc
  PROVE  [sub[s] EXCEPT !.pc = pc].pc = pc
<1>1. \A u \in Submission : [u EXCEPT !.pc = pc].pc = pc
  BY DEF Submission
<1> QED
  BY <1>1 DEF IInv, TypeOK

LEMMA StepAcknowledged == IInv /\ AInv /\ [Next]_vars => AInv'
<1> SUFFICES ASSUME IInv, AInv, [Next]_vars PROVE AInv'
  OBVIOUS
<1>f. unheard \subseteq unheard'
  BY FaultsGrow
<1>1. ASSUME NEW s \in Submissions,
             \/ Flush(s) \/ Refuse(s) \/ SaveFails(s) \/ FlushImages(s) \/ FlushFails(s)
             \/ Fail(s)
      PROVE  AInv'
  <2>1. PICK pc \in {"saving", "flushed", "cleaning", "failed"} : Goto(s, pc)
    BY <1>1 DEF Flush, Refuse, SaveFails, FlushImages, FlushFails, Fail
  <2>2. rows' = rows /\ stored \subseteq stored'
        /\ sub[s].pc \in {"idle", "saving", "flushed", "cleaning"}
    BY <1>1 DEF Flush, Refuse, SaveFails, FlushImages, FlushFails, Fail
  <2> QED
    BY <1>f, <2>1, <2>2, Stays DEF Goto
<1>2. ASSUME NEW s \in Submissions, Collide(s) PROVE AInv'
  <2>1. PICK t : Becomes(s, t)
    BY <1>2 DEF Collide, Goto
  <2> QED
    BY <1>f, <1>2, <2>1, Stays DEF Collide
<1>3. ASSUME NEW s \in Submissions, Save(s) PROVE AInv'
  <2>1. PICK t : Becomes(s, t)
    BY <1>3 DEF Save
  <2> QED
    BY <1>f, <1>3, <2>1, Stays DEF Save
<1>4. ASSUME NEW s \in Submissions, Commit(s) \/ CommitFails(s) PROVE AInv'
  <2>1. SubmissionOK(s, sub[s], stored, rows) /\ sub[s].pc = "flushed" /\ stored' = stored
        /\ rows' \subseteq rows \cup sub[s].keys
    BY <1>4 DEF Commit, CommitFails, IInv
  <2>2. PICK pc \in {"created", "cleaning"} :
           /\ Goto(s, pc)
           /\ pc = "cleaning" /\ s \notin unheard' => rows' = rows
    BY <1>4 DEF Commit, CommitFails
  <2> DEFINE t == [sub[s] EXCEPT !.pc = pc]
  <2>3. t.pc = pc
    BY GotoPc
  <2>4. Becomes(s, t)
    BY <2>2 DEF Goto
  <2> HIDE DEF t
  <2>5. s \notin unheard' => Acknowledged(s, t, stored', rows')
    BY <1>f, <2>1, <2>2, <2>3 DEF SubmissionOK, AInv, Acknowledged
  <2>6. rows' \ ImagesOf(s) \subseteq rows
    BY <2>1 DEF SubmissionOK
  <2> QED
    BY <1>f, <2>1, <2>4, <2>5, <2>6, StepSufficesA
<1>5. ASSUME NEW s \in Submissions, CleanUp(s) PROVE AInv'
  <2>1. PICK k \in sub[s].keys :
           /\ stored' = stored \ {k} \/ UNCHANGED stored
           /\ Becomes(s, [sub[s] EXCEPT !.keys = sub[s].keys \ {k}])
    BY <1>5 DEF CleanUp
  <2>2. sub[s].pc = "cleaning" /\ rows' = rows
    BY <1>5 DEF CleanUp
  <2>3. s \notin unheard' => rows' \cap ImagesOf(s) = {}
    BY <1>f, <2>2 DEF AInv, Acknowledged
  <2>4. k \in ImagesOf(s)
    BY <2>1 DEF IInv, SubmissionOK
  <2> QED
    BY <1>f, <2>1, <2>2, <2>3, <2>4, StepSufficesA DEF Acknowledged
<1>6. CASE Crash
  <2>1. PICK done \in SUBSET {s \in Submissions : sub[s].pc = "flushed"} :
           rows' = rows \cup UNION {sub[s].keys : s \in done}
    BY <1>6 DEF Crash
  <2>2. \A s \in Submissions : SubmissionOK(s, sub[s], stored, rows)
    BY DEF IInv
  <2>3. \A y \in done : sub[y].keys \subseteq stored'
    BY <1>6, <2>1, <2>2 DEF Crash, SubmissionOK
  <2>4. ASSUME NEW x \in Submissions \ unheard'
        PROVE  Acknowledged(x, sub'[x], stored', rows')
    <3>1. Acknowledged(x, sub[x], stored, rows)
      BY <1>f DEF AInv
    <3>2. rows' \cap ImagesOf(x) \subseteq stored'
      BY <1>6, <2>1, <2>3, <3>1 DEF Acknowledged, Crash
    <3>3. CASE Running(x)
      <4>1. sub'[x] = [sub[x] EXCEPT !.pc = "dead"]
        BY <1>6, <3>3 DEF Crash
      <4>2. sub'[x].pc = "dead"
        BY <4>1, GotoPc
      <4> QED
        BY <3>2, <4>2 DEF Acknowledged
    <3>4. CASE ~Running(x)
      <4>1. sub'[x] = sub[x] /\ x \notin done
        BY <1>6, <2>1, <3>4 DEF Crash, Running
      <4>2. \A y \in done : sub[y].keys \cap ImagesOf(x) = {}
        BY <2>1, <2>2, <4>1, Disjoint DEF SubmissionOK
      <4>3. rows' \cap ImagesOf(x) \subseteq rows
        BY <2>1, <4>2
      <4> QED
        BY <3>1, <3>2, <4>1, <4>3 DEF Acknowledged
    <3> QED
      BY <3>3, <3>4
  <2> QED
    BY <2>4 DEF AInv
<1>7. CASE UNCHANGED vars
  BY <1>7 DEF vars, AInv, Acknowledged
<1> QED
  BY <1>1, <1>2, <1>3, <1>4, <1>5, <1>6, <1>7 DEF Next

\* As StepSuffices, for OInv.
LEMMA StepSufficesO ==
  ASSUME IInv, \A x \in Submissions : Noted(x, sub[x], stored),
         NEW s \in Submissions, NEW t, Becomes(s, t), Noted(s, t, stored'),
         stored' \ ImagesOf(s) \subseteq stored
  PROVE  \A x \in Submissions : Noted(x, sub'[x], stored')
<1>1. sub'[s] = t /\ \A x \in Submissions \ {s} : sub'[x] = sub[x]
  BY DEF Becomes, IInv, TypeOK
<1>2. ASSUME NEW x \in Submissions PROVE Noted(x, sub'[x], stored')
  <2>1. CASE x = s
    BY <2>1, <1>1
  <2>2. CASE x # s
    <3>1. Noted(x, sub[x], stored) /\ sub'[x] = sub[x]
      BY <1>1, <2>2
    <3> QED
      BY <3>1, <2>2, Disjoint DEF Noted
  <2> QED
    BY <2>1, <2>2
<1> QED
  BY <1>2

\* Going on with the same keys and objects; only a submission without keys fails.
LEMMA MovesO ==
  ASSUME IInv, \A x \in Submissions : Noted(x, sub[x], stored),
         NEW s \in Submissions,
         NEW pc \in {"saving", "flushed", "created", "cleaning", "failed"},
         Goto(s, pc), stored' = stored,
         pc = "failed" => sub[s].pc = "idle" \/ sub[s].keys = {}
  PROVE  \A x \in Submissions : Noted(x, sub'[x], stored')
<1> DEFINE t == [sub[s] EXCEPT !.pc = pc]
<1>1. sub[s] \in Submission /\ SubmissionOK(s, sub[s], stored, rows)
  BY DEF IInv, TypeOK
<1>2. \A u \in Submission : [u EXCEPT !.pc = pc].keys = u.keys
  BY DEF Submission
<1>3. t.pc = pc /\ t.keys = sub[s].keys
  BY <1>1, <1>2, GotoPc
<1>4. Becomes(s, t)
  BY DEF Goto
<1> HIDE DEF t
<1>5. Noted(s, t, stored')
  BY <1>1, <1>3 DEF Noted, SubmissionOK
<1> QED
  BY <1>4, <1>5, StepSufficesO

LEMMA StepNoted == IInv /\ OInv /\ [Next]_vars => OInv'
<1> SUFFICES ASSUME IInv, OInv, [Next]_vars, faults' = {}
             PROVE  \A x \in Submissions : Noted(x, sub'[x], stored')
  BY DEF OInv
<1>f. \A x \in Submissions : Noted(x, sub[x], stored)
  BY FaultsGrow DEF OInv
<1>n. "crash" \notin faults' /\ "undeleted" \notin faults' /\ "late_save" \notin faults'
  OBVIOUS
<1>1. ASSUME NEW s \in Submissions,
             \/ Flush(s) \/ Refuse(s) \/ SaveFails(s) \/ FlushImages(s) \/ FlushFails(s)
             \/ Commit(s) \/ CommitFails(s) \/ Fail(s)
      PROVE  \A x \in Submissions : Noted(x, sub'[x], stored')
  <2>1. PICK pc \in {"saving", "flushed", "created", "cleaning", "failed"} :
           /\ Goto(s, pc)
           /\ pc = "failed" => sub[s].pc = "idle" \/ sub[s].keys = {}
    BY <1>1 DEF Flush, Refuse, SaveFails, FlushImages, FlushFails, Commit, CommitFails, Fail
  <2>2. stored' = stored
    BY <1>1, <1>n DEF Flush, Refuse, SaveFails, FlushImages, FlushFails, Commit, CommitFails,
                      Fail, Happens
  <2> QED
    BY <2>1, <2>2, <1>f, MovesO
<1>2. ASSUME NEW s \in Submissions, Collide(s)
      PROVE  \A x \in Submissions : Noted(x, sub'[x], stored')
  <2>1. CASE sub[s].attempt < Attempts
    <3> DEFINE t == [sub[s] EXCEPT !.attempt = sub[s].attempt + 1]
    <3>1. \A u \in Submission : \A k : LET v == [u EXCEPT !.attempt = k]
                                   IN  v.pc = u.pc /\ v.keys = u.keys
      BY DEF Submission
    <3>2. sub[s] \in Submission
      BY DEF IInv, TypeOK
    <3>3. t.pc = sub[s].pc /\ t.keys = sub[s].keys
      BY <3>1, <3>2
    <3>4. Becomes(s, t) /\ stored' = stored
      BY <1>2, <2>1 DEF Collide
    <3> HIDE DEF t
    <3>5. Noted(s, t, stored')
      BY <1>f, <3>3, <3>4 DEF Noted
    <3> QED
      BY <1>f, <3>4, <3>5, StepSufficesO
  <2>2. CASE ~(sub[s].attempt < Attempts)
    BY <1>2, <2>2, <1>f, MovesO DEF Collide
  <2> QED
    BY <2>1, <2>2
<1>3. ASSUME NEW s \in Submissions, Save(s)
      PROVE  \A x \in Submissions : Noted(x, sub'[x], stored')
  <2> DEFINE o == NextObject(s)
             t == [pc |-> "saving", attempt |-> sub[s].attempt, count |-> sub[s].count + 1,
                   keys |-> sub[s].keys \cup {o}]
  <2>1. t.pc = "saving" /\ t.keys = sub[s].keys \cup {o}
    OBVIOUS
  <2>2. Becomes(s, t) /\ stored' = stored \cup {o} /\ sub[s].count < Images
    BY <1>3 DEF Save
  <2>3. o \in ImagesOf(s)
    BY <2>2, NextObjectOK
  <2> HIDE DEF t, o
  <2>4. Noted(s, t, stored')
    BY <1>f, <2>1, <2>2 DEF Noted
  <2> QED
    BY <1>f, <2>2, <2>3, <2>4, StepSufficesO
<1>4. ASSUME NEW s \in Submissions, CleanUp(s)
      PROVE  \A x \in Submissions : Noted(x, sub'[x], stored')
  <2>1. PICK k \in sub[s].keys :
           /\ stored' = stored \ {k}
           /\ Becomes(s, [sub[s] EXCEPT !.keys = sub[s].keys \ {k}])
    BY <1>4, <1>n DEF CleanUp, Happens
  <2> DEFINE t == [sub[s] EXCEPT !.keys = sub[s].keys \ {k}]
  <2>2. \A u \in Submission : \A ks : LET v == [u EXCEPT !.keys = ks]
                                  IN  v.pc = u.pc /\ v.keys = ks
    BY DEF Submission
  <2>3. sub[s] \in Submission /\ sub[s].pc = "cleaning"
    BY <1>4 DEF IInv, TypeOK, CleanUp
  <2>4. t.pc = "cleaning" /\ t.keys = sub[s].keys \ {k}
    BY <2>2, <2>3
  <2>5. Becomes(s, t)
    BY <2>1
  <2> HIDE DEF t
  <2>6. Noted(s, t, stored')
    BY <1>f, <2>1, <2>4 DEF Noted
  <2> QED
    BY <1>f, <2>1, <2>5, <2>6, StepSufficesO
<1>5. CASE Crash
  BY <1>5, <1>n DEF Crash, Happens
<1>6. CASE UNCHANGED vars
  BY <1>6, <1>f DEF vars
<1> QED
  BY <1>1, <1>2, <1>3, <1>4, <1>5, <1>6 DEF Next

-----------------------------------------------------------------------------

\* IInv holds under every fault.
THEOREM Invariant == Spec => []IInv
<1>1. Init => IInv
  BY InitInvariant
<1> QED
  BY <1>1, StepInvariant, PTL DEF Spec

\* No run reaches a state outside the types: submit_repair_request makes at most
\* _REPAIR_ID_CREATE_ATTEMPTS attempts and stores each image once.
THEOREM TypeCorrect == Spec => []TypeOK
<1>1. IInv => TypeOK
  BY DEF IInv
<1> QED
  BY <1>1, Invariant, PTL

\* Whatever fails, and whoever cleans up meanwhile, a submission that was answered 201 has
\* the rows and the objects of all its images (submit_repair_request, _persist_images).
THEOREM ImagesOfCreated == Spec => []CreatedHasImages
<1>1. IInv => CreatedHasImages
  <2> SUFFICES ASSUME IInv, NEW s \in Submissions, sub[s].pc = "created",
                      NEW i \in 1 .. Images
               PROVE  Answer(<<s, sub[s].attempt, i>>) = "image"
    BY DEF CreatedHasImages
  <2>1. SubmissionOK(s, sub[s], stored, rows)
    BY DEF IInv
  <2>2. <<s, sub[s].attempt, i>> \in stored \cap rows
    BY <2>1 DEF SubmissionOK
  <2> QED
    BY <2>2 DEF Answer
<1> QED
  BY <1>1, Invariant, PTL

\* get_image finds a row without its object only if the answer to the COMMIT of that very
\* submission was lost: crashes, failed deletes, late saves and the cleanups of other
\* submissions leave objects behind but no such row.
THEOREM RowsAreBacked == Spec => []RowsHaveObjects
<1>1. Init => IInv /\ AInv
  BY InitInvariant
<1>2. IInv /\ AInv /\ [Next]_vars => (IInv /\ AInv)'
  BY StepInvariant, StepAcknowledged
<1>3. IInv /\ AInv => RowsHaveObjects
  BY DEF AInv, Acknowledged, RowsHaveObjects, Answer
<1> QED
  BY <1>1, <1>2, <1>3, PTL DEF Spec

\* An object without a row, left by a call that is over, means a crash, a failed delete or
\* a save that stored something and raised: the cleanup of _create_repair_request_with_retry
\* misses nothing else, whichever step fails.
THEOREM OrphansHaveCauses == Spec => []OrphansAreTraced
<1>1. Init => IInv /\ OInv
  BY InitInvariant
<1>2. IInv /\ OInv /\ [Next]_vars => (IInv /\ OInv)'
  BY StepInvariant, StepNoted
<1>3. IInv /\ OInv => OrphansAreTraced
  <2> SUFFICES ASSUME IInv, OInv, faults = {}, NEW s \in Submissions,
                      Over(s)
               PROVE  Orphans(s) = {}
    BY DEF OrphansAreTraced
  <2>1. Noted(s, sub[s], stored) /\ SubmissionOK(s, sub[s], stored, rows)
    BY DEF IInv, OInv
  <2> QED
    BY <2>1 DEF Noted, SubmissionOK, Over, Orphans
<1> QED
  BY <1>1, <1>2, <1>3, PTL DEF Spec

=============================================================================
