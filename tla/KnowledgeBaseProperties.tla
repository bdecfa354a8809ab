----------------------- MODULE KnowledgeBaseProperties -----------------------
(***************************************************************************)
(* What the conversion and indexing jobs of a knowledge base guarantee:    *)
(* invariants, action properties, liveness, the abstract specifications    *)
(* they implement, and the claims of the repository that some runs refute. *)
(***************************************************************************)
EXTENDS KnowledgeBaseService

-----------------------------------------------------------------------------
(* Safety *)

\* At most one conversion or indexing task of the knowledge base runs: the
\* answer of _ensure_idle stays true from the moment the row lock is released.
SingleFlight ==
    \A r, s \in Requests : Running(r) /\ Running(s) => r = s

\* A running task is one that the client polls, and that _ensure_idle sees:
\* no commit in between overwrites or clears the reference to it.
RunningIsPolled ==
    \A r \in Requests :
        kb.exists /\ Running(r) => r \in {kb.conversion_task, kb.indexing_task}

\* The searchable index was built from the files the knowledge base shows:
\* no interleaving of conversions and indexing runs, however they fail,
\* leaves the archive of one conversion beside the files of another.
IndexMatchesConversion ==
    kb.exists => \A b \in kb.index : seen[b[1]].files = kb.files

\* A task polled as successful is the one whose outputs are there now.
PolledSuccessIsCurrent ==
    /\ \A r \in Requests : /\ kb.exists
                          /\ kb.conversion_task = r
                          /\ task[r] = "SUCCESS"
                          => kb.files = Staged(r) /\ kb.files # {}
    /\ \A r \in Requests : /\ kb.exists
                          /\ kb.indexing_task = r
                          /\ task[r] = "SUCCESS"
                          => kb.index = Staged(r) /\ kb.index # {}

Artifact == kb.files \cup kb.index

\* Every artifact a committed row refers to is on the disk, except those that
\* the transaction holding the row locks is replacing or deleting right now.
ArtifactsOnDisk ==
    kb.exists =>
        \A b \in Artifact \ disk :
            /\ lock # NoProc
            /\ pc[lock] = "removing"
            /\ b \in Replaced(lock) \ doomed[lock]

\* The blobs on the disk are the artifacts of the committed rows and those a
\* live job has staged: a failed job leaves nothing behind, and a replaced
\* artifact does not outlive the commit that replaces it.
NoLeak ==
    /\ rows = Artifact
    /\ disk \subseteq rows \cup
           UNION {Staged(r) : r \in {q \in Requests : pc[q] \in {"staging", "removing"}}}

\* The inductive invariant behind the properties above.  The row locks are held
\* from the flush of a transaction to its end; the task of a job is running
\* from the commit that creates it to the commit that ends the job; while a
\* start transaction holds the locks nothing runs; what a job has loaded is
\* what is committed until it commits itself, or the knowledge base is gone.
LockHeld == \A p \in Procs : pc[p] \in {"starting", "removing"} => lock = p

TaskFollowsJob ==
    \A r \in Requests :
        /\ pc[r] \in {"idle", "starting"} => task[r] = "none"
        /\ pc[r] = "queued" => task[r] = "WAITING"
        /\ pc[r] \in JobPcs \ {"queued"} => task[r] = "IN_PROGRESS"
        /\ task[r] = "SUCCESS" => pc[r] = "done"

AdmittedAlone ==
    \A r \in Requests :
        pc[r] = "starting" => kb.exists /\ \A q \in Requests : ~Running(q)

PolledByOperation ==
    \A r \in Requests :
        /\ kb.conversion_task = r => op[r] = "conversion"
        /\ kb.indexing_task = r => op[r] = "indexing"
        /\ kb.exists /\ Running(r) =>
              r = IF op[r] = "conversion" THEN kb.conversion_task
                                          ELSE kb.indexing_task

LoadedIsCommitted ==
    \A r \in Requests :
        pc[r] \in {"loading", "staging", "removing"} /\ kb.exists =>
            seen[r] = Loaded

\* The blob was written by a job of that operation which has succeeded.
OutputOf(b, operation) ==
    /\ b[1] \in Requests
    /\ op[b[1]] = operation
    /\ task[b[1]] = "SUCCESS"

WritersSucceeded ==
    /\ \A b \in kb.files : OutputOf(b, "conversion")
    /\ \A b \in kb.index : OutputOf(b, "indexing")

OutputsPlanned ==
    \A r \in Requests :
        /\ pc[r] \in {"idle", "starting", "queued", "reading", "loading"} =>
              written[r] = 0
        /\ pc[r] \in {"staging", "removing"} => outputs[r] >= 1
        /\ pc[r] = "removing" => written[r] = outputs[r]

IndexingHasInput ==
    \A r \in Requests :
        op[r] = "indexing" /\ pc[r] \in {"loading", "staging", "removing"} =>
            seen[r].files # {}

IInv ==
    /\ TypeOK
    /\ LockHeld
    /\ TaskFollowsJob
    /\ AdmittedAlone
    /\ SingleFlight
    /\ PolledByOperation
    /\ LoadedIsCommitted
    /\ WritersSucceeded
    /\ OutputsPlanned
    /\ IndexingHasInput
    /\ IndexMatchesConversion
    /\ PolledSuccessIsCurrent

\* What keeps the artifacts on the disk, in addition: a job's outputs stay where
\* it wrote them until it ends, and what a transaction removes are artifacts it
\* has loaded, outputs of jobs that had succeeded by then.
StagedOnDisk ==
    \A r \in Requests : pc[r] \in {"staging", "removing"} => Staged(r) \subseteq disk

LoadedWritersSucceeded ==
    \A p \in Procs :
        /\ \A b \in seen[p].files : OutputOf(b, "conversion")
        /\ \A b \in seen[p].index : OutputOf(b, "indexing")

DoomedIsReplaced ==
    \A p \in Requests \cup Deleters :
        pc[p] = "removing" => doomed[p] \subseteq Replaced(p)

DiskInv == StagedOnDisk /\ LoadedWritersSucceeded /\ DoomedIsReplaced /\ ArtifactsOnDisk

\* What keeps the disk free of orphans, in addition: each blob on it is an
\* artifact of a row or an output of a job at work, and what a job replaces is
\* still to be unlinked or gone.
AtWork(r) == pc[r] \in {"staging", "removing"}

BlobsAccountedFor ==
    \A b \in disk : b \in rows \/ \E r \in Requests : AtWork(r) /\ b \in Staged(r)

RemovedIsGone ==
    \A r \in Requests :
        pc[r] = "removing" => (Replaced(r) \ doomed[r]) \cap disk = {}

LeakInv == kb.exists /\ rows = Artifact /\ BlobsAccountedFor /\ RemovedIsGone

(* Liveness *)

\* Every accepted operation ends as SUCCESS or FAILED, so that a client that
\* polls it stops polling and the next operation is not refused for ever.
AcceptedTerminates ==
    \A r \in Requests :
        (task[r] = "WAITING") ~> (task[r] \in {"SUCCESS", "FAILED"})

(* Actions *)

\* A search or a fetch fails on a missing blob only when the artifact it was
\* reading has been replaced or deleted, or is being so at that moment.
ReadErrorExplained ==
    \A s \in Readers : pc[s] = "opening" /\ pc'[s] = "error" =>
        \/ ~kb.exists
        \/ ~(seen[s].files \cup seen[s].index \subseteq Artifact)
        \/ lock # NoProc /\ pc[lock] = "removing"

\* No search or fetch fails otherwise.
ReadErrorMeansReplaced == [][ReadErrorExplained]_vars

(* Abstract specifications *)

Gate == INSTANCE OperationGate WITH status <- task

\* The tasks of the knowledge base pass through a gate that admits one at a
\* time, whatever fails.
GateRefined == Gate!Spec

\* The files an archive was built from: what its writer had loaded.
BuiltFrom(index) == UNION {seen[b[1]].files : b \in index}

Corpus == INSTANCE SearchableCorpus WITH
    Document <- Blob,
    deleted <- ~kb.exists,
    corpus <- IF kb.exists THEN kb.files ELSE {},
    indexed <- IF kb.exists THEN BuiltFrom(kb.index) ELSE {}

\* What can be searched is nothing, or exactly the corpus of the last
\* successful conversion.
CorpusRefined == Corpus!Spec

(* A claim of the repository that a run refutes *)

\* Deleting a knowledge base removes its derived source and files
\* (tests/integration/test_knowledge_base.py:413-448).
DeleteRemovesArtifacts == ~kb.exists => rows = {}

=============================================================================
