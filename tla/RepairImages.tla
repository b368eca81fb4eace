---------------------------- MODULE RepairImages ----------------------------
(***************************************************************************)
(* The images of a repair request: submit_repair_request stores each image *)
(* (a file or an S3 object) before the transaction that names it commits,  *)
(* and deletes what it stored when a later step fails.  Storage takes no   *)
(* part in the transaction.  What the requests themselves do is in         *)
(* RepairWorkflow.                                                         *)
(***************************************************************************)
EXTENDS Integers, FiniteSets

CONSTANTS Submissions,  \* calls of POST /repair-requests, over the whole run
          Images,       \* images of one submission (_MAX_IMAGE_COUNT)
          Attempts      \* _REPAIR_ID_CREATE_ATTEMPTS

\* What the environment may do beyond reporting an error.
Faults == {"crash",      \* the worker process ends
           "undeleted",  \* a delete fails; cleanup logs a warning and goes on
           "late_save"}  \* save reports an error and has stored something

ASSUME ConstantsAssumption ==
    /\ Images \in Nat
    /\ Attempts \in Nat \ {0}

VARIABLES stored,  \* objects in the storage backend
          rows,    \* committed rows of repair_images, by the object they name
          sub,     \* what each submission is doing
          faults,  \* the kinds of fault that have happened
          unheard  \* submissions whose COMMIT took effect and whose answer to it was lost

vars == <<stored, rows, sub, faults, unheard>>

\* "<repair_request_id>/<image_id><suffix>": both ids are made anew in every attempt.
Objects == Submissions \X (1 .. Attempts) \X (1 .. Images)

\* keys: attempt_keys, the objects an attempt would have to clean up.
Idle == [pc |-> "idle", attempt |-> 1, count |-> 0, keys |-> {}]

Init ==
    /\ stored = {} /\ rows = {} /\ faults = {} /\ unheard = {}
    /\ sub = [s \in Submissions |-> Idle]

Becomes(s, t) == sub' = [sub EXCEPT ![s] = t]
Goto(s, pc) == Becomes(s, [sub[s] EXCEPT !.pc = pc])
Happens(kind) == faults' = faults \cup {kind}

-----------------------------------------------------------------------------

\* The request and its asset are flushed; nothing is stored before that.
Flush(s) ==
    /\ sub[s].pc = "idle"
    /\ Goto(s, "saving")
    /\ UNCHANGED <<stored, rows, faults, unheard>>

\* Slip: there is no last attempt.
CollideEndless(s) ==
    /\ sub[s].pc = "idle"
    /\ Becomes(s, [sub[s] EXCEPT !.attempt = sub[s].attempt + 1])
    /\ UNCHANGED <<stored, rows, faults, unheard>>

\* The repair_id was taken: another attempt, or 409.  No image has been stored yet.
Collide(s) ==
    /\ sub[s].pc = "idle"
    /\ IF sub[s].attempt < Attempts
         THEN Becomes(s, [sub[s] EXCEPT !.attempt = sub[s].attempt + 1])
         ELSE Goto(s, "failed")
    /\ UNCHANGED <<stored, rows, faults, unheard>>

Refuse(s) ==
    /\ sub[s].pc = "idle"
    /\ Goto(s, "failed")
    /\ UNCHANGED <<stored, rows, faults, unheard>>

NextObject(s) == <<s, sub[s].attempt, sub[s].count + 1>>

\* _persist_images: one image after another; the key is noted when save has returned.
Save(s) ==
    /\ sub[s].pc = "saving" /\ sub[s].count < Images
    /\ stored' = stored \cup {NextObject(s)}
    /\ Becomes(s, [pc |-> "saving", attempt |-> sub[s].attempt, count |-> sub[s].count + 1,
                   keys |-> sub[s].keys \cup {NextObject(s)}])
    /\ UNCHANGED <<rows, faults, unheard>>

SaveFails(s) ==
    /\ sub[s].pc = "saving" /\ sub[s].count < Images
    /\ \/ UNCHANGED <<stored, faults>>
       \/ stored' = stored \cup {NextObject(s)} /\ Happens("late_save")
    /\ Goto(s, "cleaning")
    /\ UNCHANGED <<rows, unheard>>

\* The image rows are flushed.
FlushImages(s) ==
    /\ sub[s].pc = "saving" /\ sub[s].count = Images
    /\ Goto(s, "flushed")
    /\ UNCHANGED <<stored, rows, faults, unheard>>

FlushFails(s) ==
    /\ sub[s].pc = "saving" /\ sub[s].count = Images
    /\ Goto(s, "cleaning")
    /\ UNCHANGED <<stored, rows, faults, unheard>>

\* 201: the keys are kept.
Commit(s) ==
    /\ sub[s].pc = "flushed"
    /\ rows' = rows \cup sub[s].keys
    /\ Goto(s, "created")
    /\ UNCHANGED <<stored, faults, unheard>>

CommitFails(s) ==
    /\ sub[s].pc = "flushed"
    /\ \/ UNCHANGED <<rows, unheard>>
       \/ rows' = rows \cup sub[s].keys /\ unheard' = unheard \cup {s}
    /\ Goto(s, "cleaning")
    /\ UNCHANGED <<stored, faults>>

\* Slip: the cleanup does not ask whether the request was committed.
CleanUpAlways(s) ==
    /\ sub[s].pc \in {"cleaning", "created"}
    /\ \E k \in sub[s].keys :
          /\ \/ stored' = stored \ {k} /\ UNCHANGED faults
             \/ UNCHANGED stored /\ Happens("undeleted")
          /\ Becomes(s, [sub[s] EXCEPT !.keys = sub[s].keys \ {k}])
    /\ UNCHANGED <<rows, unheard>>

\* Slip: the keys are collected for the process instead of for the call.
CleanUpShared(s) ==
    /\ sub[s].pc = "cleaning"
    /\ \E k \in UNION {sub[x].keys : x \in Submissions} :
          /\ \/ stored' = stored \ {k} /\ UNCHANGED faults
             \/ UNCHANGED stored /\ Happens("undeleted")
          /\ Becomes(s, [sub[s] EXCEPT !.keys = sub[s].keys \ {k}])
    /\ UNCHANGED <<rows, unheard>>

\* Slip: the cleanup stops at the first delete, whatever its outcome.
CleanUpFirst(s) ==
    /\ sub[s].pc = "cleaning"
    /\ \E k \in sub[s].keys :
          /\ \/ stored' = stored \ {k} /\ UNCHANGED faults
             \/ UNCHANGED stored /\ Happens("undeleted")
          /\ Becomes(s, [sub[s] EXCEPT !.keys = {}])
    /\ UNCHANGED <<rows, unheard>>

\* storage.cleanup(attempt_keys), one delete after another.
CleanUp(s) ==
    /\ sub[s].pc = "cleaning"
    /\ \E k \in sub[s].keys :
          /\ \/ stored' = stored \ {k} /\ UNCHANGED faults
             \/ UNCHANGED stored /\ Happens("undeleted")
          /\ Becomes(s, [sub[s] EXCEPT !.keys = sub[s].keys \ {k}])
    /\ UNCHANGED <<rows, unheard>>

\* The error is answered when all keys have been tried.
Fail(s) ==
    /\ sub[s].pc = "cleaning" /\ sub[s].keys = {}
    /\ Goto(s, "failed")
    /\ UNCHANGED <<stored, rows, faults, unheard>>

Running(s) == sub[s].pc \in {"saving", "flushed", "cleaning"}

\* The process ends, and with it every submission it was running.  A COMMIT on its way to
\* the database may have taken effect.
Crash ==
    /\ \E done \in SUBSET {s \in Submissions : sub[s].pc = "flushed"} :
          rows' = rows \cup UNION {sub[s].keys : s \in done}
    /\ sub' = [s \in Submissions |-> IF Running(s) THEN [sub[s] EXCEPT !.pc = "dead"]
                                                   ELSE sub[s]]
    /\ Happens("crash")
    /\ UNCHANGED <<stored, unheard>>

Next ==
    \/ \E s \in Submissions :
          \/ Flush(s) \/ Collide(s) \/ Refuse(s) \/ Save(s) \/ SaveFails(s)
          \/ FlushImages(s) \/ FlushFails(s) \/ Commit(s) \/ CommitFails(s)
          \/ CleanUp(s) \/ Fail(s)
    \/ Crash

Spec == Init /\ [][Next]_vars

-----------------------------------------------------------------------------

Submission == [pc : {"idle", "saving", "flushed", "created", "cleaning", "failed", "dead"},
               attempt : 1 .. Attempts, count : 0 .. Images, keys : SUBSET Objects]

\* Rows and objects are those of submissions, and a row names an object of an attempt.
TypeOK ==
    /\ stored \subseteq Objects
    /\ rows \subseteq Objects
    /\ sub \in [Submissions -> Submission]
    /\ faults \subseteq Faults
    /\ unheard \subseteq Submissions

ImagesOf(s) == {o \in Objects : o[1] = s}

\* GET /images/{id}: the row is read, then its object.
Answer(o) == IF o \notin rows THEN "no_row" ELSE IF o \in stored THEN "image" ELSE "no_file"

\* Whatever fails, a submission that was answered 201 has all its images, for good: rows
\* and objects, and nothing that cleans up after a failure removes them.
CreatedHasImages ==
    \A s \in Submissions : sub[s].pc = "created" =>
        \A i \in 1 .. Images : Answer(<<s, sub[s].attempt, i>>) = "image"

\* A committed row has its object, unless the answer to the COMMIT of its own submission was
\* lost: no crash, failed delete or late save, and no other submission that cleans up after
\* a lost answer, makes get_image answer 404 for it.
RowsHaveObjects ==
    \A s \in Submissions : (\E o \in ImagesOf(s) : Answer(o) = "no_file") => s \in unheard

Over(s) == sub[s].pc \in {"created", "failed"}
Orphans(s) == (stored \cap ImagesOf(s)) \ rows

\* "On any DB failure after files were written, the endpoint cleans up to avoid orphans":
\* when a call is over, an object without a row means that the process died, a delete
\* failed, or a save stored something and raised.
OrphansAreTraced ==
    faults = {} => \A s \in Submissions : Over(s) => Orphans(s) = {}

=============================================================================
