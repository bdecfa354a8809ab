------------------------ MODULE KnowledgeBaseService ------------------------
(***************************************************************************)
(* One knowledge base, the conversion and indexing jobs started on it, the *)
(* requests that delete it and the ones that search it or fetch a document *)
(* from it (knowledge_bases/service.py).                                   *)
(*                                                                         *)
(* Two stores hold its state.  The database is transactional: a job's rows *)
(* appear at its commit.  The file system is not: a blob is there as soon  *)
(* as it is written and gone as soon as it is unlinked, whatever becomes   *)
(* of the transaction around it.  Every await of the code is a boundary    *)
(* between two actions.                                                    *)
(***************************************************************************)
EXTENDS Naturals

CONSTANTS
    Requests,    \* start requests; the task a request creates bears its name
    Deleters,    \* delete requests
    Readers,     \* search and fetch requests
    MaxOutputs,  \* bound: documents one conversion can produce
    Faults,      \* the faults the environment may inject, see FaultKinds
    NoProc       \* no lock holder, and no task (a NULL foreign key)

Procs == Requests \cup Deleters \cup Readers

(***************************************************************************)
(* io      reading or writing a blob raises OSError                        *)
(* encode  staging raises something else than OSError                      *)
(* unlink  removing a blob raises an OSError other than FileNotFoundError  *)
(* flush   a flush raises SQLAlchemyError                                  *)
(* commit  a transaction does not commit                                   *)
(* crash   the server process dies                                         *)
(***************************************************************************)
FaultKinds == {"io", "encode", "unlink", "flush", "commit", "crash"}

ASSUME ConstantsAssumption ==
    /\ Requests \cap Deleters = {}
    /\ Readers \cap (Requests \cup Deleters) = {}
    /\ NoProc \notin Procs
    /\ MaxOutputs \in Nat \ {0}
    /\ Faults \subseteq FaultKinds

\* A blob is named by the request whose job wrote it and its position among
\* the job's outputs: uuid4 locations never collide, so each has one writer.
Blob == Requests \X (1 .. MaxOutputs)

Operations == {"conversion", "indexing"}

VARIABLES
    kb,      \* the committed knowledge_bases row, with its derived files
    rows,    \* the committed files rows of derived artifacts
    task,    \* the committed status of each request's task
    disk,    \* the blobs under the storage root
    lock,    \* the transaction that holds the row locks of the knowledge base
    pc,      \* where each request, with the job it spawns, has got to
    op,      \* the operation a start request asks for
    seen,    \* what each transaction has loaded: derived files and index
    outputs, \* how many documents a job has to write
    written, \* how many of them it has written
    doomed   \* replaced blobs still to be unlinked

vars == <<kb, rows, task, disk, lock, pc, op, seen, outputs, written, doomed>>

-----------------------------------------------------------------------------
(* Types *)

TaskStatus == {"WAITING", "IN_PROGRESS", "FAILED", "SUCCESS"}

JobPcs == {"queued", "reading", "loading", "staging", "removing", "failing"}
AnswerPcs == {"refused_missing", "refused_running", "refused_unconverted",
              "error", "done", "dead"}
RequestPcs == {"idle", "starting"} \cup JobPcs \cup AnswerPcs
DeleterPcs == {"idle", "flushing", "removing", "refused_missing", "error",
               "done", "dead"}
ReaderPcs == {"idle", "searching", "fetching", "opening", "refused_missing",
              "refused_unindexed", "error", "done", "dead"}

\* files: the files of the converted source; index: the index file, as a set
\* of at most one blob.
Artifacts == [files : SUBSET Blob, index : SUBSET Blob]
KnowledgeBase == [exists : BOOLEAN, converted : BOOLEAN,
                  files : SUBSET Blob, index : SUBSET Blob,
                  conversion_task : Requests \cup {NoProc},
                  indexing_task : Requests \cup {NoProc}]

\* Type correctness of the rows, the disk and every request's local state.
TypeOK ==
    /\ kb \in KnowledgeBase
    /\ rows \subseteq Blob
    /\ task \in [Requests -> TaskStatus \cup {"none"}]
    /\ disk \subseteq Blob
    /\ lock \in Procs \cup {NoProc}
    /\ pc \in [Procs -> RequestPcs \cup DeleterPcs \cup ReaderPcs]
    /\ op \in [Requests -> Operations]
    /\ seen \in [Procs -> Artifacts]
    /\ outputs \in [Requests -> 0 .. MaxOutputs]
    /\ written \in [Requests -> 0 .. MaxOutputs]
    /\ doomed \in [Procs -> SUBSET Blob]

NoArtifacts == [files |-> {}, index |-> {}]

\* A knowledge base just created by create_knowledge_base.
Init ==
    /\ kb = [exists |-> TRUE, converted |-> FALSE, files |-> {}, index |-> {},
             conversion_task |-> NoProc, indexing_task |-> NoProc]
    /\ rows = {}
    /\ task = [r \in Requests |-> "none"]
    /\ disk = {}
    /\ lock = NoProc
    /\ pc = [p \in Procs |-> "idle"]
    /\ op \in [Requests -> Operations]
    /\ seen = [p \in Procs |-> NoArtifacts]
    /\ outputs = [r \in Requests |-> 0]
    /\ written = [r \in Requests |-> 0]
    /\ doomed = [p \in Procs |-> {}]

-----------------------------------------------------------------------------
(* Rows, locks and blobs *)

Running(t) == task[t] \in {"WAITING", "IN_PROGRESS"}

\* Mutant: the gate looks at the conversion task only.
EnsureIdleOneTask == kb.conversion_task # NoProc => ~Running(kb.conversion_task)

\* Mutant: a task that has not begun yet does not count as running.
EnsureIdleForgetsWaiting ==
    \A t \in {kb.conversion_task, kb.indexing_task} \ {NoProc} :
        task[t] # "IN_PROGRESS"

\* _ensure_idle: neither task of the knowledge base is running.
EnsureIdle ==
    \A t \in {kb.conversion_task, kb.indexing_task} \ {NoProc} : ~Running(t)

Free == lock = NoProc

\* Mutant: the row is read without FOR UPDATE.
AcquireUnlocked(p) == lock' = p

Acquire(p) == Free /\ lock' = p
Release(p) == lock = p /\ lock' = NoProc

Goto(p, label) == pc' = [pc EXCEPT ![p] = label]

\* What _operation_knowledge_base loads of the derived artifacts.
Loaded == [files |-> kb.files, index |-> kb.index]

\* The outputs a job has written so far.
Staged(r) == {r} \X (1 .. written[r])

\* Mutant: an indexing run replaces the converted files too.
ReplacedByAny(p) == seen[p].files \cup seen[p].index

\* The artifacts a transaction replaces or deletes: an indexing run drops the
\* previous index, a conversion and a delete the converted files as well.
Replaced(p) ==
    IF p \in Deleters \/ op[p] = "conversion"
    THEN seen[p].files \cup seen[p].index
    ELSE seen[p].index

\* Mutant: a conversion keeps the index of the files it replaces.
PublishedKeepsIndex(r) ==
    IF op[r] = "conversion"
    THEN [kb EXCEPT !.converted = TRUE, !.files = Staged(r),
                    !.indexing_task = NoProc]
    ELSE [kb EXCEPT !.index = Staged(r)]

\* Mutant: a conversion keeps the indexing task of the index it drops.
PublishedKeepsIndexingTask(r) ==
    IF op[r] = "conversion"
    THEN [kb EXCEPT !.converted = TRUE, !.files = Staged(r), !.index = {}]
    ELSE [kb EXCEPT !.index = Staged(r)]

\* The knowledge base as a successful job leaves it.
Published(r) ==
    IF op[r] = "conversion"
    THEN [kb EXCEPT !.converted = TRUE, !.files = Staged(r), !.index = {},
                    !.indexing_task = NoProc]
    ELSE [kb EXCEPT !.index = Staged(r)]

\* Mutant: staged blobs are left behind.
RemoveStagedNothing(locations) == UNCHANGED disk

\* _remove_staged: an OSError on one location is logged and skipped.
RemoveStaged(locations) ==
    \E left \in SUBSET locations :
        /\ "unlink" \in Faults \/ left = {}
        /\ disk' = (disk \ locations) \cup left

-----------------------------------------------------------------------------
(* start_knowledge_base_operation *)

\* No such knowledge base: 404.
StartMissing(r) ==
    /\ pc[r] = "idle"
    /\ ~kb.exists
    /\ Goto(r, "refused_missing")
    /\ UNCHANGED <<kb, rows, task, disk, lock, op, seen, outputs, written, doomed>>

\* The row is locked, read and found busy, or not converted yet: 409, and the
\* rollback releases the lock.  (A job that updates no column of the row would
\* let the refusal through before it commits; the answer is the same.)
StartConflict(r) ==
    /\ pc[r] = "idle"
    /\ kb.exists
    /\ Free
    /\ \/ ~EnsureIdle /\ Goto(r, "refused_running")
       \/ /\ EnsureIdle
          /\ op[r] = "indexing" /\ ~kb.converted
          /\ Goto(r, "refused_unconverted")
    /\ UNCHANGED <<kb, rows, task, disk, lock, op, seen, outputs, written, doomed>>

\* The row is locked and the task flushed, not committed.
StartFlush(r) ==
    /\ pc[r] = "idle"
    /\ kb.exists
    /\ Acquire(r)
    /\ EnsureIdle
    /\ op[r] = "indexing" => kb.converted
    /\ Goto(r, "starting")
    /\ UNCHANGED <<kb, rows, task, disk, op, seen, outputs, written, doomed>>

\* The function-scoped session commits before the response and the job.
StartCommit(r) ==
    /\ pc[r] = "starting"
    /\ task' = [task EXCEPT ![r] = "WAITING"]
    /\ kb' = IF op[r] = "conversion" THEN [kb EXCEPT !.conversion_task = r]
                                     ELSE [kb EXCEPT !.indexing_task = r]
    /\ Release(r)
    /\ Goto(r, "queued")
    /\ UNCHANGED <<rows, disk, op, seen, outputs, written, doomed>>

StartRollback(r) ==
    /\ "commit" \in Faults
    /\ pc[r] = "starting"
    /\ Release(r)
    /\ Goto(r, "error")
    /\ UNCHANGED <<kb, rows, task, disk, op, seen, outputs, written, doomed>>

-----------------------------------------------------------------------------
(* _run_operation_job *)

\* First session: the task is marked as running.
JobBegin(r) ==
    /\ pc[r] = "queued"
    /\ task' = [task EXCEPT ![r] = "IN_PROGRESS"]
    /\ Goto(r, "reading")
    /\ UNCHANGED <<kb, rows, disk, lock, op, seen, outputs, written, doomed>>

\* That session is outside the try block: if it fails the job ends there.
JobBeginLost(r) ==
    /\ "commit" \in Faults
    /\ pc[r] = "queued"
    /\ Goto(r, "dead")
    /\ UNCHANGED <<kb, rows, task, disk, lock, op, seen, outputs, written, doomed>>

\* The second session loads the row, without a lock.  A conversion then
\* converts the source files: n documents, or an error when there is none.
JobRead(r) ==
    /\ pc[r] = "reading"
    /\ seen' = [seen EXCEPT ![r] = Loaded]
    /\ \/ /\ ~kb.exists
          /\ Goto(r, "failing")
          /\ UNCHANGED outputs
       \/ /\ kb.exists
          /\ op[r] = "conversion"
          /\ \E n \in 0 .. MaxOutputs :
                /\ outputs' = [outputs EXCEPT ![r] = n]
                /\ Goto(r, IF n = 0 THEN "failing" ELSE "staging")
       \/ /\ kb.exists
          /\ op[r] = "indexing"
          /\ Goto(r, IF kb.converted /\ kb.files # {} THEN "loading" ELSE "failing")
          /\ UNCHANGED outputs
    /\ UNCHANGED <<kb, rows, task, disk, lock, op, written, doomed>>

\* An indexing job reads every converted blob and builds one archive of them.
JobLoad(r) ==
    /\ pc[r] = "loading"
    /\ \/ /\ seen[r].files \subseteq disk
          /\ outputs' = [outputs EXCEPT ![r] = 1]
          /\ Goto(r, "staging")
       \/ /\ "io" \in Faults \/ ~(seen[r].files \subseteq disk)
          /\ Goto(r, "failing")
          /\ UNCHANGED outputs
    /\ UNCHANGED <<kb, rows, task, disk, lock, op, seen, written, doomed>>

\* Mutant: the loop writes one output too many.
JobStageTooMany(r) ==
    /\ pc[r] = "staging"
    /\ written[r] <= outputs[r]
    /\ disk' = disk \cup {<<r, written[r] + 1>>}
    /\ written' = [written EXCEPT ![r] = @ + 1]
    /\ UNCHANGED <<kb, rows, task, lock, pc, op, seen, outputs, doomed>>

\* One output is written at a fresh location.
JobStage(r) ==
    /\ pc[r] = "staging"
    /\ written[r] < outputs[r]
    /\ disk' = disk \cup {<<r, written[r] + 1>>}
    /\ written' = [written EXCEPT ![r] = @ + 1]
    /\ UNCHANGED <<kb, rows, task, lock, pc, op, seen, outputs, doomed>>

\* The write fails half way: every staged location is removed.
JobStageError(r) ==
    /\ "io" \in Faults
    /\ pc[r] = "staging"
    /\ written[r] < outputs[r]
    /\ RemoveStaged(Staged(r) \cup {<<r, written[r] + 1>>})
    /\ Goto(r, "failing")
    /\ UNCHANGED <<kb, rows, task, lock, op, seen, outputs, written, doomed>>

\* Encoding a converted document fails otherwise: the blobs stay staged.
JobStageAbort(r) ==
    /\ "encode" \in Faults
    /\ op[r] = "conversion"
    /\ pc[r] = "staging"
    /\ written[r] < outputs[r]
    /\ Goto(r, "failing")
    /\ UNCHANGED <<kb, rows, task, disk, lock, op, seen, outputs, written, doomed>>

\* The new rows are flushed and the replaced ones deleted: the transaction
\* now holds the row locks.
JobFlush(r) ==
    /\ pc[r] = "staging"
    /\ written[r] = outputs[r]
    /\ kb.exists
    /\ Acquire(r)
    /\ doomed' = [doomed EXCEPT ![r] = Replaced(r)]
    /\ Goto(r, "removing")
    /\ UNCHANGED <<kb, rows, task, disk, op, seen, outputs, written>>

\* The row is gone (StaleDataError, or the foreign key of a file), or the
\* flush fails: the staged locations are removed.
JobFlushError(r) ==
    /\ pc[r] = "staging"
    /\ written[r] = outputs[r]
    /\ Free
    /\ ~kb.exists \/ "flush" \in Faults
    /\ RemoveStaged(Staged(r))
    /\ Goto(r, "failing")
    /\ UNCHANGED <<kb, rows, task, lock, op, seen, outputs, written, doomed>>

\* The last statement of the second session, and its commit.
JobCommit(r) ==
    /\ pc[r] = "removing"
    /\ doomed[r] = {}
    /\ task' = [task EXCEPT ![r] = "SUCCESS"]
    /\ kb' = Published(r)
    /\ rows' = (rows \ Replaced(r)) \cup Staged(r)
    /\ Release(r)
    /\ Goto(r, "done")
    /\ UNCHANGED <<disk, op, seen, outputs, written, doomed>>

\* Mutant: the failure is not recorded.
JobFailSilent(r) ==
    /\ pc[r] = "failing"
    /\ Goto(r, "done")
    /\ UNCHANGED <<kb, rows, task, disk, lock, op, seen, outputs, written, doomed>>

\* The third session records the failure.
JobFail(r) ==
    /\ pc[r] = "failing"
    /\ task' = [task EXCEPT ![r] = "FAILED"]
    /\ Goto(r, "done")
    /\ UNCHANGED <<kb, rows, disk, lock, op, seen, outputs, written, doomed>>

JobFailLost(r) ==
    /\ "commit" \in Faults
    /\ pc[r] = "failing"
    /\ Goto(r, "dead")
    /\ UNCHANGED <<kb, rows, task, disk, lock, op, seen, outputs, written, doomed>>

-----------------------------------------------------------------------------
(* Unlinking the replaced blobs, by a job or by a delete request, inside the *)
(* transaction that has flushed and not committed yet.                       *)

\* The files first, the index last; a missing blob is not an error.
RemoveArtifact(p) ==
    /\ pc[p] = "removing"
    /\ \E b \in doomed[p] :
          /\ b \in seen[p].index => doomed[p] \subseteq seen[p].index
          /\ disk' = disk \ {b}
          /\ doomed' = [doomed EXCEPT ![p] = @ \ {b}]
    /\ UNCHANGED <<kb, rows, task, lock, pc, op, seen, outputs, written>>

\* A failed unlink, or a failed commit, rolls the rows back.
Rollback(p) ==
    /\ pc[p] = "removing"
    /\ IF doomed[p] = {} THEN "commit" \in Faults ELSE "unlink" \in Faults
    /\ Release(p)
    /\ Goto(p, IF p \in Requests THEN "failing" ELSE "error")
    /\ UNCHANGED <<kb, rows, task, disk, op, seen, outputs, written, doomed>>

-----------------------------------------------------------------------------
(* delete_knowledge_base *)

\* The row and its artifacts are loaded, without a lock.
DeleteRead(d) ==
    /\ pc[d] = "idle"
    /\ seen' = [seen EXCEPT ![d] = Loaded]
    /\ Goto(d, IF kb.exists THEN "flushing" ELSE "refused_missing")
    /\ UNCHANGED <<kb, rows, task, disk, lock, op, outputs, written, doomed>>

\* The deletes are flushed; deleting a row that is already gone only warns.
DeleteFlush(d) ==
    /\ pc[d] = "flushing"
    /\ Acquire(d)
    /\ doomed' = [doomed EXCEPT ![d] = Replaced(d)]
    /\ Goto(d, "removing")
    /\ UNCHANGED <<kb, rows, task, disk, op, seen, outputs, written>>

DeleteFlushError(d) ==
    /\ "flush" \in Faults
    /\ pc[d] = "flushing"
    /\ Free
    /\ Goto(d, "error")
    /\ UNCHANGED <<kb, rows, task, disk, lock, op, seen, outputs, written, doomed>>

DeleteCommit(d) ==
    /\ pc[d] = "removing"
    /\ doomed[d] = {}
    /\ kb' = [kb EXCEPT !.exists = FALSE]
    /\ rows' = rows \ Replaced(d)
    /\ Release(d)
    /\ Goto(d, "done")
    /\ UNCHANGED <<task, disk, op, seen, outputs, written, doomed>>

-----------------------------------------------------------------------------
(* search_knowledge_base, get_mcp_knowledge_base_file_content *)

ReadMissing(s) ==
    /\ pc[s] = "idle"
    /\ ~kb.exists
    /\ Goto(s, "refused_missing")
    /\ UNCHANGED <<kb, rows, task, disk, lock, op, seen, outputs, written, doomed>>

\* The knowledge_bases row is selected ...
SearchRow(s) ==
    /\ pc[s] = "idle"
    /\ kb.exists
    /\ seen' = [seen EXCEPT ![s].index = kb.index]
    /\ Goto(s, IF kb.index = {} THEN "refused_unindexed" ELSE "searching")
    /\ UNCHANGED <<kb, rows, task, disk, lock, op, outputs, written, doomed>>

\* ... and then, by a query of its own, the files row it refers to, which may
\* have been replaced in between: the attribute is then None.
SearchIndexFile(s) ==
    /\ pc[s] = "searching"
    /\ Goto(s, IF seen[s].index \subseteq rows THEN "opening"
                                                ELSE "refused_unindexed")
    /\ UNCHANGED <<kb, rows, task, disk, lock, op, seen, outputs, written, doomed>>

FetchRow(s) ==
    /\ pc[s] = "idle"
    /\ kb.exists
    /\ Goto(s, IF kb.converted THEN "fetching" ELSE "opening")
    /\ UNCHANGED <<kb, rows, task, disk, lock, op, seen, outputs, written, doomed>>

\* The files of the converted source, none when it has just been deleted.
FetchFiles(s) ==
    /\ pc[s] = "fetching"
    /\ seen' = [seen EXCEPT ![s].files = IF kb.exists THEN kb.files ELSE {}]
    /\ Goto(s, "opening")
    /\ UNCHANGED <<kb, rows, task, disk, lock, op, outputs, written, doomed>>

\* The blobs are read; a missing one is an unhandled FileNotFoundError.
ReadBlobs(s) ==
    /\ pc[s] = "opening"
    /\ Goto(s, IF seen[s].files \cup seen[s].index \subseteq disk
               THEN "done" ELSE "error")
    /\ UNCHANGED <<kb, rows, task, disk, lock, op, seen, outputs, written, doomed>>

-----------------------------------------------------------------------------
LivePcs == JobPcs \cup {"starting", "flushing", "searching", "fetching", "opening"}
Live(p) == pc[p] \in LivePcs

\* The server process dies: its transactions are rolled back and its
\* background tasks are lost.  Nothing resumes them after the restart.
Crash ==
    /\ "crash" \in Faults
    /\ \E p \in Procs : Live(p)
    /\ pc' = [p \in Procs |-> IF Live(p) THEN "dead" ELSE pc[p]]
    /\ lock' = NoProc
    /\ UNCHANGED <<kb, rows, task, disk, op, seen, outputs, written, doomed>>

Start(r) == StartMissing(r) \/ StartConflict(r) \/ StartFlush(r)

\* What a scheduled job does when nothing fails.
JobStep(r) ==
    \/ StartCommit(r) \/ JobBegin(r) \/ JobRead(r) \/ JobLoad(r) \/ JobStage(r)
    \/ JobFlush(r) \/ (JobFlushError(r) /\ ~kb.exists) \/ RemoveArtifact(r)
    \/ JobCommit(r) \/ JobFail(r)

JobFault(r) ==
    \/ StartRollback(r) \/ JobBeginLost(r) \/ JobStageError(r)
    \/ JobStageAbort(r) \/ JobFlushError(r) \/ Rollback(r) \/ JobFailLost(r)

DeleteStep(d) ==
    DeleteFlush(d) \/ RemoveArtifact(d) \/ DeleteCommit(d)

DeleteFault(d) == DeleteFlushError(d) \/ Rollback(d)

ReadStep(s) == SearchIndexFile(s) \/ FetchFiles(s) \/ ReadBlobs(s)

Finished == \A p \in Procs : ~Live(p) /\ pc[p] # "idle"

\* Every request has been answered and every job has ended.
Terminated == Finished /\ UNCHANGED vars

Next ==
    \/ \E r \in Requests : Start(r) \/ JobStep(r) \/ JobFault(r)
    \/ \E d \in Deleters : DeleteRead(d) \/ DeleteStep(d) \/ DeleteFault(d)
    \/ \E s \in Readers : ReadMissing(s) \/ SearchRow(s) \/ FetchRow(s) \/ ReadStep(s)
    \/ Crash
    \/ Terminated

Spec == Init /\ [][Next]_vars

\* The event loop resumes every runnable coroutine, and PostgreSQL serves the
\* waiters of a row lock in turn; nothing obliges a client to send a request.
Fairness ==
    /\ \A r \in Requests : WF_vars(JobStep(r))
    /\ \A d \in Deleters : WF_vars(DeleteStep(d))
    /\ \A s \in Readers : WF_vars(ReadStep(s))

FairSpec == Spec /\ Fairness

=============================================================================
