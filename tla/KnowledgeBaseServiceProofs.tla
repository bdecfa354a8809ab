--------------------- MODULE KnowledgeBaseServiceProofs ---------------------
(***************************************************************************)
(* Proofs about KnowledgeBaseService, for every number of requests, every  *)
(* bound on the outputs of a conversion and every set of faults: its       *)
(* inductive invariant, its two abstract specifications, and that its      *)
(* committed artifacts stay on the disk.                                   *)
(*                                                                         *)
(* Each conjunct of the inductive invariant IInv has a lemma that says it  *)
(* survives a step; a lemma names the conjuncts it needs.  The actions are *)
(* grouped below by the part of the operation they belong to.              *)
(***************************************************************************)
EXTENDS KnowledgeBaseProperties, TLAPS

Starts(r) ==
    StartMissing(r) \/ StartConflict(r) \/ StartFlush(r) \/ StartRollback(r)

Prepares(r) ==
    JobBegin(r) \/ JobBeginLost(r) \/ JobRead(r) \/ JobLoad(r)

Stages(r) ==
    JobStage(r) \/ JobStageError(r) \/ JobStageAbort(r)

Flushes(r) ==
    JobFlush(r) \/ JobFlushError(r)

Fails(r) ==
    JobFail(r) \/ JobFailLost(r)

Removes(p) ==
    RemoveArtifact(p) \/ Rollback(p)

Deletes(d) ==
    DeleteRead(d) \/ DeleteFlush(d) \/ DeleteFlushError(d)

Reads(s) ==
    ReadMissing(s) \/ SearchRow(s) \/ SearchIndexFile(s) \/ FetchRow(s) \/
    FetchFiles(s) \/ ReadBlobs(s)

\* Every step is one of a group, a crash, or leaves the state as it is.
LEMMA StepCases ==
  ASSUME [Next]_vars
  PROVE  \/ \E r \in Requests : Starts(r)
         \/ \E r \in Requests : StartCommit(r)
         \/ \E r \in Requests : Prepares(r)
         \/ \E r \in Requests : Stages(r)
         \/ \E r \in Requests : Flushes(r)
         \/ \E r \in Requests : JobCommit(r)
         \/ \E r \in Requests : Fails(r)
         \/ \E p \in Requests \cup Deleters : Removes(p)
         \/ \E d \in Deleters : Deletes(d)
         \/ \E d \in Deleters : DeleteCommit(d)
         \/ \E s \in Readers : Reads(s)
         \/ Crash
         \/ UNCHANGED vars
BY DEF Next, Start, JobStep, JobFault, DeleteStep, DeleteFault, ReadStep,
   Terminated, Starts, Prepares, Stages, Flushes, Fails, Removes, Deletes,
   Reads

-----------------------------------------------------------------------------
(* Type correctness *)

LEMMA StagedIsBlobs ==
  ASSUME TypeOK, NEW r \in Requests
  PROVE  Staged(r) \subseteq Blob
BY ConstantsAssumption DEF TypeOK, Staged, Blob

\* A step of any transaction keeps every variable in its type.
LEMMA TypeOKStep ==
  ASSUME TypeOK, [Next]_vars
  PROVE  TypeOK'
<1> USE ConstantsAssumption DEF TypeOK, Procs, Blob, Operations, TaskStatus,
         JobPcs, AnswerPcs, RequestPcs, DeleterPcs, ReaderPcs, Artifacts,
         KnowledgeBase, Goto, Acquire, Release, Free
<1>1. ASSUME NEW r \in Requests, StartMissing(r) PROVE TypeOK'
  BY <1>1 DEF StartMissing
<1>2. ASSUME NEW r \in Requests, StartConflict(r) PROVE TypeOK'
  BY <1>2 DEF StartConflict
<1>3. ASSUME NEW r \in Requests, StartFlush(r) PROVE TypeOK'
  BY <1>3 DEF StartFlush
<1>4. ASSUME NEW r \in Requests, StartRollback(r) PROVE TypeOK'
  BY <1>4 DEF StartRollback
<1>5. ASSUME NEW r \in Requests, StartCommit(r) PROVE TypeOK'
  BY <1>5 DEF StartCommit
<1>6. ASSUME NEW r \in Requests, JobBegin(r) PROVE TypeOK'
  BY <1>6 DEF JobBegin
<1>7. ASSUME NEW r \in Requests, JobBeginLost(r) PROVE TypeOK'
  BY <1>7 DEF JobBeginLost
<1>8. ASSUME NEW r \in Requests, JobRead(r) PROVE TypeOK'
  <2>1. seen' \in [Procs -> Artifacts]
    BY <1>8 DEF JobRead, Loaded
  <2>2. outputs' \in [Requests -> 0 .. MaxOutputs]
    BY <1>8 DEF JobRead
  <2>3. \E next \in {"loading", "staging", "failing"} : pc' = [pc EXCEPT ![r] = next]
    BY <1>8 DEF JobRead
  <2>4. pc' \in [Procs -> RequestPcs \cup DeleterPcs \cup ReaderPcs]
    BY <2>3
  <2> QED
    BY <1>8, <2>1, <2>2, <2>4 DEF JobRead
<1>9. ASSUME NEW r \in Requests, JobLoad(r) PROVE TypeOK'
  <2>1. outputs' \in [Requests -> 0 .. MaxOutputs]
    BY <1>9 DEF JobLoad
  <2>2. pc' \in [Procs -> RequestPcs \cup DeleterPcs \cup ReaderPcs]
    BY <1>9 DEF JobLoad
  <2> QED
    BY <1>9, <2>1, <2>2 DEF JobLoad
<1>10. ASSUME NEW r \in Requests, JobStage(r) PROVE TypeOK'
  BY <1>10 DEF JobStage
<1>11. ASSUME NEW r \in Requests, JobStageError(r) PROVE TypeOK'
  BY <1>11, StagedIsBlobs DEF JobStageError, RemoveStaged
<1>12. ASSUME NEW r \in Requests, JobStageAbort(r) PROVE TypeOK'
  BY <1>12 DEF JobStageAbort
<1>13. ASSUME NEW r \in Requests, JobFlush(r) PROVE TypeOK'
  BY <1>13 DEF JobFlush, Replaced
<1>14. ASSUME NEW r \in Requests, JobFlushError(r) PROVE TypeOK'
  BY <1>14, StagedIsBlobs DEF JobFlushError, RemoveStaged
<1>15. ASSUME NEW r \in Requests, JobCommit(r) PROVE TypeOK'
  BY <1>15, StagedIsBlobs DEF JobCommit, Published
<1>16. ASSUME NEW r \in Requests, JobFail(r) PROVE TypeOK'
  BY <1>16 DEF JobFail
<1>17. ASSUME NEW r \in Requests, JobFailLost(r) PROVE TypeOK'
  BY <1>17 DEF JobFailLost
<1>18. ASSUME NEW p \in Requests \cup Deleters, RemoveArtifact(p) PROVE TypeOK'
  BY <1>18 DEF RemoveArtifact
<1>19. ASSUME NEW p \in Requests \cup Deleters, Rollback(p) PROVE TypeOK'
  BY <1>19 DEF Rollback
<1>20. ASSUME NEW d \in Deleters, DeleteRead(d) PROVE TypeOK'
  BY <1>20 DEF DeleteRead, Loaded
<1>21. ASSUME NEW d \in Deleters, DeleteFlush(d) PROVE TypeOK'
  BY <1>21 DEF DeleteFlush, Replaced
<1>22. ASSUME NEW d \in Deleters, DeleteFlushError(d) PROVE TypeOK'
  BY <1>22 DEF DeleteFlushError
<1>23. ASSUME NEW d \in Deleters, DeleteCommit(d) PROVE TypeOK'
  BY <1>23 DEF DeleteCommit
<1>24. ASSUME NEW s \in Readers, ReadMissing(s) PROVE TypeOK'
  BY <1>24 DEF ReadMissing
<1>25. ASSUME NEW s \in Readers, SearchRow(s) PROVE TypeOK'
  BY <1>25, SMTT(60) DEF SearchRow
<1>26. ASSUME NEW s \in Readers, SearchIndexFile(s) PROVE TypeOK'
  BY <1>26 DEF SearchIndexFile
<1>27. ASSUME NEW s \in Readers, FetchRow(s) PROVE TypeOK'
  BY <1>27 DEF FetchRow
<1>28. ASSUME NEW s \in Readers, FetchFiles(s) PROVE TypeOK'
  <2>1. (IF kb.exists THEN kb.files ELSE {}) \in SUBSET Blob
    OBVIOUS
  <2>2. seen' \in [Procs -> Artifacts]
    BY <1>28, <2>1 DEF FetchFiles
  <2> QED
    BY <1>28, <2>2 DEF FetchFiles
<1>29. ASSUME NEW s \in Readers, ReadBlobs(s) PROVE TypeOK'
  BY <1>29 DEF ReadBlobs
<1>30. CASE Crash
  BY <1>30 DEF Crash, Live, LivePcs
<1>31. CASE UNCHANGED vars
  BY <1>31 DEF vars
<1> QED   BY StepCases, <1>1, <1>2, <1>3, <1>4, <1>5, <1>6, <1>7, <1>8, <1>9,
     <1>10, <1>11, <1>12, <1>13, <1>14, <1>15, <1>16, <1>17, <1>18, <1>19,
     <1>20, <1>21, <1>22, <1>23, <1>24, <1>25, <1>26, <1>27, <1>28, <1>29,
     <1>30, <1>31
     DEF Starts, Prepares, Stages, Flushes, Fails, Removes, Deletes, Reads

-----------------------------------------------------------------------------
(* The other conjuncts of the inductive invariant *)

\* Two transactions never hold the row locks together.
LEMMA LockHeldStep ==
  ASSUME TypeOK, TypeOK', LockHeld, [Next]_vars
  PROVE  LockHeld'
<1> USE ConstantsAssumption DEF TypeOK, Procs, Artifacts, KnowledgeBase, Goto,
         Acquire, Release, Free, LockHeld
<1>1. ASSUME NEW r \in Requests, Starts(r) PROVE LockHeld'
  BY <1>1 DEF Starts, StartMissing, StartConflict, StartFlush, StartRollback,
         EnsureIdle
<1>2. ASSUME NEW r \in Requests, StartCommit(r) PROVE LockHeld'
  BY <1>2 DEF StartCommit
<1>3. ASSUME NEW r \in Requests, Prepares(r) PROVE LockHeld'
  BY <1>3 DEF Prepares, JobBegin, JobBeginLost, JobRead, JobLoad, Loaded
<1>4. ASSUME NEW r \in Requests, Stages(r) PROVE LockHeld'
  BY <1>4 DEF Stages, JobStage, JobStageError, JobStageAbort, RemoveStaged
<1>5. ASSUME NEW r \in Requests, Flushes(r) PROVE LockHeld'
  BY <1>5 DEF Flushes, JobFlush, JobFlushError, RemoveStaged, Replaced
<1>6. ASSUME NEW r \in Requests, JobCommit(r) PROVE LockHeld'
  BY <1>6 DEF JobCommit, Published, Staged
<1>7. ASSUME NEW r \in Requests, Fails(r) PROVE LockHeld'
  BY <1>7 DEF Fails, JobFail, JobFailLost
<1>8. ASSUME NEW p \in Requests \cup Deleters, Removes(p) PROVE LockHeld'
  BY <1>8 DEF Removes, RemoveArtifact, Rollback
<1>9. ASSUME NEW d \in Deleters, Deletes(d) PROVE LockHeld'
  BY <1>9 DEF Deletes, DeleteRead, DeleteFlush, DeleteFlushError, Loaded
<1>10. ASSUME NEW d \in Deleters, DeleteCommit(d) PROVE LockHeld'
  BY <1>10 DEF DeleteCommit
<1>11. ASSUME NEW s \in Readers, Reads(s) PROVE LockHeld'
  BY <1>11 DEF Reads, ReadMissing, SearchRow, SearchIndexFile, FetchRow,
         FetchFiles, ReadBlobs
<1>12. CASE Crash
  BY <1>12 DEF Crash, Live, LivePcs, JobPcs
<1>13. CASE UNCHANGED vars
  BY <1>13 DEF vars
<1> QED
  BY StepCases, <1>1, <1>2, <1>3, <1>4, <1>5, <1>6, <1>7, <1>8, <1>9, <1>10,
     <1>11, <1>12, <1>13

\* The committed status of a task says how far its job has got.
LEMMA TaskFollowsJobStep ==
  ASSUME TypeOK, TypeOK', TaskFollowsJob, [Next]_vars
  PROVE  TaskFollowsJob'
<1> USE ConstantsAssumption DEF TypeOK, Procs, Artifacts, KnowledgeBase, Goto,
         Acquire, Release, Free, JobPcs, Running, TaskFollowsJob
<1>1. ASSUME NEW r \in Requests, Starts(r) PROVE TaskFollowsJob'
  BY <1>1 DEF Starts, StartMissing, StartConflict, StartFlush, StartRollback,
         EnsureIdle
<1>2. ASSUME NEW r \in Requests, StartCommit(r) PROVE TaskFollowsJob'
  BY <1>2 DEF StartCommit
<1>3. ASSUME NEW r \in Requests, Prepares(r) PROVE TaskFollowsJob'
  BY <1>3 DEF Prepares, JobBegin, JobBeginLost, JobRead, JobLoad, Loaded
<1>4. ASSUME NEW r \in Requests, Stages(r) PROVE TaskFollowsJob'
  BY <1>4 DEF Stages, JobStage, JobStageError, JobStageAbort, RemoveStaged
<1>5. ASSUME NEW r \in Requests, Flushes(r) PROVE TaskFollowsJob'
  BY <1>5 DEF Flushes, JobFlush, JobFlushError, RemoveStaged, Replaced
<1>6. ASSUME NEW r \in Requests, JobCommit(r) PROVE TaskFollowsJob'
  BY <1>6 DEF JobCommit, Published, Staged
<1>7. ASSUME NEW r \in Requests, Fails(r) PROVE TaskFollowsJob'
  BY <1>7 DEF Fails, JobFail, JobFailLost
<1>8. ASSUME NEW p \in Requests \cup Deleters, Removes(p) PROVE TaskFollowsJob'
  BY <1>8 DEF Removes, RemoveArtifact, Rollback
<1>9. ASSUME NEW d \in Deleters, Deletes(d) PROVE TaskFollowsJob'
  BY <1>9 DEF Deletes, DeleteRead, DeleteFlush, DeleteFlushError, Loaded
<1>10. ASSUME NEW d \in Deleters, DeleteCommit(d) PROVE TaskFollowsJob'
  BY <1>10 DEF DeleteCommit
<1>11. ASSUME NEW s \in Readers, Reads(s) PROVE TaskFollowsJob'
  BY <1>11 DEF Reads, ReadMissing, SearchRow, SearchIndexFile, FetchRow,
         FetchFiles, ReadBlobs
<1>12. CASE Crash
  BY <1>12 DEF Crash, Live, LivePcs, JobPcs
<1>13. CASE UNCHANGED vars
  BY <1>13 DEF vars
<1> QED
  BY StepCases, <1>1, <1>2, <1>3, <1>4, <1>5, <1>6, <1>7, <1>8, <1>9, <1>10,
     <1>11, <1>12, <1>13

\* Between the check of _ensure_idle and the commit nothing starts to run.
LEMMA AdmittedAloneStep ==
  ASSUME TypeOK, TypeOK', LockHeld, AdmittedAlone, PolledByOperation,
         TaskFollowsJob, [Next]_vars
  PROVE  AdmittedAlone'
<1> USE ConstantsAssumption DEF TypeOK, Procs, Artifacts, KnowledgeBase, Goto,
         Acquire, Release, Free, AdmittedAlone, JobPcs, LockHeld,
         PolledByOperation, Running, TaskFollowsJob
<1>1. ASSUME NEW r \in Requests, Starts(r) PROVE AdmittedAlone'
  BY <1>1 DEF Starts, StartMissing, StartConflict, StartFlush, StartRollback,
         EnsureIdle
<1>2. ASSUME NEW r \in Requests, StartCommit(r) PROVE AdmittedAlone'
  BY <1>2 DEF StartCommit
<1>3. ASSUME NEW r \in Requests, Prepares(r) PROVE AdmittedAlone'
  BY <1>3 DEF Prepares, JobBegin, JobBeginLost, JobRead, JobLoad, Loaded
<1>4. ASSUME NEW r \in Requests, Stages(r) PROVE AdmittedAlone'
  BY <1>4 DEF Stages, JobStage, JobStageError, JobStageAbort, RemoveStaged
<1>5. ASSUME NEW r \in Requests, Flushes(r) PROVE AdmittedAlone'
  BY <1>5 DEF Flushes, JobFlush, JobFlushError, RemoveStaged, Replaced
<1>6. ASSUME NEW r \in Requests, JobCommit(r) PROVE AdmittedAlone'
  BY <1>6 DEF JobCommit, Published, Staged
<1>7. ASSUME NEW r \in Requests, Fails(r) PROVE AdmittedAlone'
  BY <1>7 DEF Fails, JobFail, JobFailLost
<1>8. ASSUME NEW p \in Requests \cup Deleters, Removes(p) PROVE AdmittedAlone'
  BY <1>8 DEF Removes, RemoveArtifact, Rollback
<1>9. ASSUME NEW d \in Deleters, Deletes(d) PROVE AdmittedAlone'
  BY <1>9 DEF Deletes, DeleteRead, DeleteFlush, DeleteFlushError, Loaded
<1>10. ASSUME NEW d \in Deleters, DeleteCommit(d) PROVE AdmittedAlone'
  BY <1>10 DEF DeleteCommit
<1>11. ASSUME NEW s \in Readers, Reads(s) PROVE AdmittedAlone'
  BY <1>11 DEF Reads, ReadMissing, SearchRow, SearchIndexFile, FetchRow,
         FetchFiles, ReadBlobs
<1>12. CASE Crash
  BY <1>12 DEF Crash, Live, LivePcs, JobPcs
<1>13. CASE UNCHANGED vars
  BY <1>13 DEF vars
<1> QED
  BY StepCases, <1>1, <1>2, <1>3, <1>4, <1>5, <1>6, <1>7, <1>8, <1>9, <1>10,
     <1>11, <1>12, <1>13

\* A new task starts to run only when no other one runs.
LEMMA SingleFlightStep ==
  ASSUME TypeOK, TypeOK', SingleFlight, AdmittedAlone, TaskFollowsJob,
         [Next]_vars
  PROVE  SingleFlight'
<1> USE ConstantsAssumption DEF TypeOK, Procs, Artifacts, KnowledgeBase, Goto,
         Acquire, Release, Free, AdmittedAlone, JobPcs, Running, SingleFlight,
         TaskFollowsJob
<1>1. ASSUME NEW r \in Requests, Starts(r) PROVE SingleFlight'
  BY <1>1 DEF Starts, StartMissing, StartConflict, StartFlush, StartRollback,
         EnsureIdle
<1>2. ASSUME NEW r \in Requests, StartCommit(r) PROVE SingleFlight'
  BY <1>2 DEF StartCommit
<1>3. ASSUME NEW r \in Requests, Prepares(r) PROVE SingleFlight'
  BY <1>3 DEF Prepares, JobBegin, JobBeginLost, JobRead, JobLoad, Loaded
<1>4. ASSUME NEW r \in Requests, Stages(r) PROVE SingleFlight'
  BY <1>4 DEF Stages, JobStage, JobStageError, JobStageAbort, RemoveStaged
<1>5. ASSUME NEW r \in Requests, Flushes(r) PROVE SingleFlight'
  BY <1>5 DEF Flushes, JobFlush, JobFlushError, RemoveStaged, Replaced
<1>6. ASSUME NEW r \in Requests, JobCommit(r) PROVE SingleFlight'
  BY <1>6 DEF JobCommit, Published, Staged
<1>7. ASSUME NEW r \in Requests, Fails(r) PROVE SingleFlight'
  BY <1>7 DEF Fails, JobFail, JobFailLost
<1>8. ASSUME NEW p \in Requests \cup Deleters, Removes(p) PROVE SingleFlight'
  BY <1>8 DEF Removes, RemoveArtifact, Rollback
<1>9. ASSUME NEW d \in Deleters, Deletes(d) PROVE SingleFlight'
  BY <1>9 DEF Deletes, DeleteRead, DeleteFlush, DeleteFlushError, Loaded
<1>10. ASSUME NEW d \in Deleters, DeleteCommit(d) PROVE SingleFlight'
  BY <1>10 DEF DeleteCommit
<1>11. ASSUME NEW s \in Readers, Reads(s) PROVE SingleFlight'
  BY <1>11 DEF Reads, ReadMissing, SearchRow, SearchIndexFile, FetchRow,
         FetchFiles, ReadBlobs
<1>12. CASE Crash
  BY <1>12 DEF Crash, Live, LivePcs, JobPcs
<1>13. CASE UNCHANGED vars
  BY <1>13 DEF vars
<1> QED
  BY StepCases, <1>1, <1>2, <1>3, <1>4, <1>5, <1>6, <1>7, <1>8, <1>9, <1>10,
     <1>11, <1>12, <1>13

\* A commit redirects a task reference only when its task has ended.
LEMMA PolledByOperationStep ==
  ASSUME TypeOK, TypeOK', PolledByOperation, AdmittedAlone, SingleFlight,
         TaskFollowsJob, [Next]_vars
  PROVE  PolledByOperation'
<1> USE ConstantsAssumption DEF TypeOK, Procs, Artifacts, KnowledgeBase, Goto,
         Acquire, Release, Free, AdmittedAlone, JobPcs, PolledByOperation,
         Running, SingleFlight, TaskFollowsJob
<1>1. ASSUME NEW r \in Requests, Starts(r) PROVE PolledByOperation'
  BY <1>1 DEF Starts, StartMissing, StartConflict, StartFlush, StartRollback,
         EnsureIdle
<1>2. ASSUME NEW r \in Requests, StartCommit(r) PROVE PolledByOperation'
  <2>1. \A q \in Requests : q # r => ~Running(q)'
    BY <1>2 DEF StartCommit
  <2>2. CASE op[r] = "conversion"
    <3>1. kb' = [kb EXCEPT !.conversion_task = r] /\ op' = op
      BY <1>2, <2>2 DEF StartCommit
    <3> QED
      BY <2>1, <2>2, <3>1
  <2>3. CASE op[r] = "indexing"
    <3>1. kb' = [kb EXCEPT !.indexing_task = r] /\ op' = op
      BY <1>2, <2>3 DEF StartCommit
    <3> QED
      BY <2>1, <2>3, <3>1
  <2> QED
    BY <2>2, <2>3 DEF Operations
<1>3. ASSUME NEW r \in Requests, Prepares(r) PROVE PolledByOperation'
  BY <1>3 DEF Prepares, JobBegin, JobBeginLost, JobRead, JobLoad, Loaded
<1>4. ASSUME NEW r \in Requests, Stages(r) PROVE PolledByOperation'
  BY <1>4 DEF Stages, JobStage, JobStageError, JobStageAbort, RemoveStaged
<1>5. ASSUME NEW r \in Requests, Flushes(r) PROVE PolledByOperation'
  BY <1>5 DEF Flushes, JobFlush, JobFlushError, RemoveStaged, Replaced
<1>6. ASSUME NEW r \in Requests, JobCommit(r) PROVE PolledByOperation'
  BY <1>6 DEF JobCommit, Published, Staged
<1>7. ASSUME NEW r \in Requests, Fails(r) PROVE PolledByOperation'
  BY <1>7 DEF Fails, JobFail, JobFailLost
<1>8. ASSUME NEW p \in Requests \cup Deleters, Removes(p) PROVE PolledByOperation'
  BY <1>8 DEF Removes, RemoveArtifact, Rollback
<1>9. ASSUME NEW d \in Deleters, Deletes(d) PROVE PolledByOperation'
  BY <1>9 DEF Deletes, DeleteRead, DeleteFlush, DeleteFlushError, Loaded
<1>10. ASSUME NEW d \in Deleters, DeleteCommit(d) PROVE PolledByOperation'
  BY <1>10 DEF DeleteCommit
<1>11. ASSUME NEW s \in Readers, Reads(s) PROVE PolledByOperation'
  BY <1>11 DEF Reads, ReadMissing, SearchRow, SearchIndexFile, FetchRow,
         FetchFiles, ReadBlobs
<1>12. CASE Crash
  BY <1>12 DEF Crash, Live, LivePcs, JobPcs
<1>13. CASE UNCHANGED vars
  BY <1>13 DEF vars
<1> QED
  BY StepCases, <1>1, <1>2, <1>3, <1>4, <1>5, <1>6, <1>7, <1>8, <1>9, <1>10,
     <1>11, <1>12, <1>13

\* No other transaction than a delete changes what a live job has loaded.
LEMMA LoadedIsCommittedStep ==
  ASSUME TypeOK, TypeOK', LoadedIsCommitted, SingleFlight, TaskFollowsJob,
         [Next]_vars
  PROVE  LoadedIsCommitted'
<1> USE ConstantsAssumption DEF TypeOK, Procs, Artifacts, KnowledgeBase, Goto,
         Acquire, Release, Free, JobPcs, Loaded, LoadedIsCommitted, Running,
         SingleFlight, TaskFollowsJob
<1>1. ASSUME NEW r \in Requests, Starts(r) PROVE LoadedIsCommitted'
  BY <1>1 DEF Starts, StartMissing, StartConflict, StartFlush, StartRollback,
         EnsureIdle
<1>2. ASSUME NEW r \in Requests, StartCommit(r) PROVE LoadedIsCommitted'
  BY <1>2 DEF StartCommit
<1>3. ASSUME NEW r \in Requests, Prepares(r) PROVE LoadedIsCommitted'
  BY <1>3 DEF Prepares, JobBegin, JobBeginLost, JobRead, JobLoad, Loaded
<1>4. ASSUME NEW r \in Requests, Stages(r) PROVE LoadedIsCommitted'
  BY <1>4 DEF Stages, JobStage, JobStageError, JobStageAbort, RemoveStaged
<1>5. ASSUME NEW r \in Requests, Flushes(r) PROVE LoadedIsCommitted'
  BY <1>5 DEF Flushes, JobFlush, JobFlushError, RemoveStaged, Replaced
<1>6. ASSUME NEW r \in Requests, JobCommit(r) PROVE LoadedIsCommitted'
  BY <1>6, SMTT(60) DEF JobCommit, Published, Staged
<1>7. ASSUME NEW r \in Requests, Fails(r) PROVE LoadedIsCommitted'
  BY <1>7 DEF Fails, JobFail, JobFailLost
<1>8. ASSUME NEW p \in Requests \cup Deleters, Removes(p) PROVE LoadedIsCommitted'
  BY <1>8 DEF Removes, RemoveArtifact, Rollback
<1>9. ASSUME NEW d \in Deleters, Deletes(d) PROVE LoadedIsCommitted'
  BY <1>9 DEF Deletes, DeleteRead, DeleteFlush, DeleteFlushError, Loaded
<1>10. ASSUME NEW d \in Deleters, DeleteCommit(d) PROVE LoadedIsCommitted'
  BY <1>10 DEF DeleteCommit
<1>11. ASSUME NEW s \in Readers, Reads(s) PROVE LoadedIsCommitted'
  BY <1>11 DEF Reads, ReadMissing, SearchRow, SearchIndexFile, FetchRow,
         FetchFiles, ReadBlobs
<1>12. CASE Crash
  BY <1>12 DEF Crash, Live, LivePcs, JobPcs
<1>13. CASE UNCHANGED vars
  BY <1>13 DEF vars
<1> QED
  BY StepCases, <1>1, <1>2, <1>3, <1>4, <1>5, <1>6, <1>7, <1>8, <1>9, <1>10,
     <1>11, <1>12, <1>13

\* Artifacts are committed together with the success of the task that made them.
LEMMA WritersSucceededStep ==
  ASSUME TypeOK, TypeOK', WritersSucceeded, TaskFollowsJob, [Next]_vars
  PROVE  WritersSucceeded'
<1> USE ConstantsAssumption DEF TypeOK, Procs, Artifacts, KnowledgeBase, Goto,
         Acquire, Release, Free, WritersSucceeded, OutputOf, Operations, JobPcs, Running,
         TaskFollowsJob
<1>1. ASSUME NEW r \in Requests, Starts(r) PROVE WritersSucceeded'
  BY <1>1 DEF Starts, StartMissing, StartConflict, StartFlush, StartRollback,
         EnsureIdle
<1>2. ASSUME NEW r \in Requests, StartCommit(r) PROVE WritersSucceeded'
  BY <1>2 DEF StartCommit
<1>3. ASSUME NEW r \in Requests, Prepares(r) PROVE WritersSucceeded'
  BY <1>3 DEF Prepares, JobBegin, JobBeginLost, JobRead, JobLoad, Loaded
<1>4. ASSUME NEW r \in Requests, Stages(r) PROVE WritersSucceeded'
  BY <1>4 DEF Stages, JobStage, JobStageError, JobStageAbort, RemoveStaged
<1>5. ASSUME NEW r \in Requests, Flushes(r) PROVE WritersSucceeded'
  BY <1>5 DEF Flushes, JobFlush, JobFlushError, RemoveStaged, Replaced
<1>6. ASSUME NEW r \in Requests, JobCommit(r) PROVE WritersSucceeded'
  BY <1>6 DEF JobCommit, Published, Staged
<1>7. ASSUME NEW r \in Requests, Fails(r) PROVE WritersSucceeded'
  BY <1>7 DEF Fails, JobFail, JobFailLost
<1>8. ASSUME NEW p \in Requests \cup Deleters, Removes(p) PROVE WritersSucceeded'
  BY <1>8 DEF Removes, RemoveArtifact, Rollback
<1>9. ASSUME NEW d \in Deleters, Deletes(d) PROVE WritersSucceeded'
  BY <1>9 DEF Deletes, DeleteRead, DeleteFlush, DeleteFlushError, Loaded
<1>10. ASSUME NEW d \in Deleters, DeleteCommit(d) PROVE WritersSucceeded'
  BY <1>10 DEF DeleteCommit
<1>11. ASSUME NEW s \in Readers, Reads(s) PROVE WritersSucceeded'
  BY <1>11 DEF Reads, ReadMissing, SearchRow, SearchIndexFile, FetchRow,
         FetchFiles, ReadBlobs
<1>12. CASE Crash
  BY <1>12 DEF Crash, Live, LivePcs, JobPcs
<1>13. CASE UNCHANGED vars
  BY <1>13 DEF vars
<1> QED
  BY StepCases, <1>1, <1>2, <1>3, <1>4, <1>5, <1>6, <1>7, <1>8, <1>9, <1>10,
     <1>11, <1>12, <1>13

\* A job reaches its flush with all its outputs written, and at least one.
LEMMA OutputsPlannedStep ==
  ASSUME TypeOK, TypeOK', OutputsPlanned, [Next]_vars
  PROVE  OutputsPlanned'
<1> USE ConstantsAssumption DEF TypeOK, Procs, Artifacts, KnowledgeBase, Goto,
         Acquire, Release, Free, OutputsPlanned
<1>1. ASSUME NEW r \in Requests, Starts(r) PROVE OutputsPlanned'
  BY <1>1 DEF Starts, StartMissing, StartConflict, StartFlush, StartRollback,
         EnsureIdle
<1>2. ASSUME NEW r \in Requests, StartCommit(r) PROVE OutputsPlanned'
  BY <1>2 DEF StartCommit
<1>3. ASSUME NEW r \in Requests, Prepares(r) PROVE OutputsPlanned'
  BY <1>3 DEF Prepares, JobBegin, JobBeginLost, JobRead, JobLoad, Loaded
<1>4. ASSUME NEW r \in Requests, Stages(r) PROVE OutputsPlanned'
  BY <1>4 DEF Stages, JobStage, JobStageError, JobStageAbort, RemoveStaged
<1>5. ASSUME NEW r \in Requests, Flushes(r) PROVE OutputsPlanned'
  BY <1>5 DEF Flushes, JobFlush, JobFlushError, RemoveStaged, Replaced
<1>6. ASSUME NEW r \in Requests, JobCommit(r) PROVE OutputsPlanned'
  BY <1>6 DEF JobCommit, Published, Staged
<1>7. ASSUME NEW r \in Requests, Fails(r) PROVE OutputsPlanned'
  BY <1>7 DEF Fails, JobFail, JobFailLost
<1>8. ASSUME NEW p \in Requests \cup Deleters, Removes(p) PROVE OutputsPlanned'
  BY <1>8 DEF Removes, RemoveArtifact, Rollback
<1>9. ASSUME NEW d \in Deleters, Deletes(d) PROVE OutputsPlanned'
  BY <1>9 DEF Deletes, DeleteRead, DeleteFlush, DeleteFlushError, Loaded
<1>10. ASSUME NEW d \in Deleters, DeleteCommit(d) PROVE OutputsPlanned'
  BY <1>10 DEF DeleteCommit
<1>11. ASSUME NEW s \in Readers, Reads(s) PROVE OutputsPlanned'
  BY <1>11 DEF Reads, ReadMissing, SearchRow, SearchIndexFile, FetchRow,
         FetchFiles, ReadBlobs
<1>12. CASE Crash
  BY <1>12 DEF Crash, Live, LivePcs, JobPcs
<1>13. CASE UNCHANGED vars
  BY <1>13 DEF vars
<1> QED
  BY StepCases, <1>1, <1>2, <1>3, <1>4, <1>5, <1>6, <1>7, <1>8, <1>9, <1>10,
     <1>11, <1>12, <1>13

\* An indexing job goes on only with converted files to index.
LEMMA IndexingHasInputStep ==
  ASSUME TypeOK, TypeOK', IndexingHasInput, [Next]_vars
  PROVE  IndexingHasInput'
<1> USE ConstantsAssumption DEF TypeOK, Procs, Artifacts, KnowledgeBase, Goto,
         Acquire, Release, Free, IndexingHasInput
<1>1. ASSUME NEW r \in Requests, Starts(r) PROVE IndexingHasInput'
  BY <1>1, SMTT(60) DEF Starts, StartMissing, StartConflict, StartFlush, StartRollback,
         EnsureIdle
<1>2. ASSUME NEW r \in Requests, StartCommit(r) PROVE IndexingHasInput'
  BY <1>2 DEF StartCommit
<1>3. ASSUME NEW r \in Requests, Prepares(r) PROVE IndexingHasInput'
  BY <1>3 DEF Prepares, JobBegin, JobBeginLost, JobRead, JobLoad, Loaded
<1>4. ASSUME NEW r \in Requests, Stages(r) PROVE IndexingHasInput'
  BY <1>4 DEF Stages, JobStage, JobStageError, JobStageAbort, RemoveStaged
<1>5. ASSUME NEW r \in Requests, Flushes(r) PROVE IndexingHasInput'
  BY <1>5 DEF Flushes, JobFlush, JobFlushError, RemoveStaged, Replaced
<1>6. ASSUME NEW r \in Requests, JobCommit(r) PROVE IndexingHasInput'
  BY <1>6 DEF JobCommit, Published, Staged
<1>7. ASSUME NEW r \in Requests, Fails(r) PROVE IndexingHasInput'
  BY <1>7 DEF Fails, JobFail, JobFailLost
<1>8. ASSUME NEW p \in Requests \cup Deleters, Removes(p) PROVE IndexingHasInput'
  BY <1>8 DEF Removes, RemoveArtifact, Rollback
<1>9. ASSUME NEW d \in Deleters, Deletes(d) PROVE IndexingHasInput'
  BY <1>9, SMTT(60) DEF Deletes, DeleteRead, DeleteFlush, DeleteFlushError, Loaded
<1>10. ASSUME NEW d \in Deleters, DeleteCommit(d) PROVE IndexingHasInput'
  BY <1>10 DEF DeleteCommit
<1>11. ASSUME NEW s \in Readers, Reads(s) PROVE IndexingHasInput'
  BY <1>11 DEF Reads, ReadMissing, SearchRow, SearchIndexFile, FetchRow,
         FetchFiles, ReadBlobs
<1>12. CASE Crash
  BY <1>12 DEF Crash, Live, LivePcs, JobPcs
<1>13. CASE UNCHANGED vars
  BY <1>13 DEF vars
<1> QED
  BY StepCases, <1>1, <1>2, <1>3, <1>4, <1>5, <1>6, <1>7, <1>8, <1>9, <1>10,
     <1>11, <1>12, <1>13

\* Every committed index was built from the committed files.
LEMMA IndexMatchesConversionStep ==
  ASSUME TypeOK, TypeOK', IndexMatchesConversion, WritersSucceeded,
         LoadedIsCommitted, TaskFollowsJob, [Next]_vars
  PROVE  IndexMatchesConversion'
<1> USE ConstantsAssumption DEF TypeOK, Procs, Artifacts, KnowledgeBase, Goto,
         Acquire, Release, Free, IndexMatchesConversion, WritersSucceeded, OutputOf,
         JobPcs, LoadedIsCommitted, Running, TaskFollowsJob
<1>1. ASSUME NEW r \in Requests, Starts(r) PROVE IndexMatchesConversion'
  BY <1>1 DEF Starts, StartMissing, StartConflict, StartFlush, StartRollback,
         EnsureIdle
<1>2. ASSUME NEW r \in Requests, StartCommit(r) PROVE IndexMatchesConversion'
  BY <1>2 DEF StartCommit
<1>3. ASSUME NEW r \in Requests, Prepares(r) PROVE IndexMatchesConversion'
  <2>1. task[r] # "SUCCESS" /\ kb' = kb
    BY <1>3 DEF Prepares, JobBegin, JobBeginLost, JobRead, JobLoad
  <2>2. \A q \in Requests : q # r => seen'[q] = seen[q]
    BY <1>3 DEF Prepares, JobBegin, JobBeginLost, JobRead, JobLoad
  <2>3. \A b \in kb.index : seen'[b[1]] = seen[b[1]]
    BY <2>1, <2>2
  <2> QED
    BY <2>1, <2>3
<1>4. ASSUME NEW r \in Requests, Stages(r) PROVE IndexMatchesConversion'
  BY <1>4 DEF Stages, JobStage, JobStageError, JobStageAbort, RemoveStaged
<1>5. ASSUME NEW r \in Requests, Flushes(r) PROVE IndexMatchesConversion'
  BY <1>5 DEF Flushes, JobFlush, JobFlushError, RemoveStaged, Replaced
<1>6. ASSUME NEW r \in Requests, JobCommit(r) PROVE IndexMatchesConversion'
  <2>1. CASE op[r] = "conversion"
    <3>1. kb'.index = {}
      BY <1>6, <2>1 DEF JobCommit, Published
    <3> QED
      BY <3>1
  <2>2. CASE op[r] # "conversion"
    <3>1. kb' = [kb EXCEPT !.index = Staged(r)] /\ seen' = seen
      BY <1>6, <2>2 DEF JobCommit, Published
    <3>2. kb.exists => seen[r].files = kb.files
      BY <1>6 DEF JobCommit, Loaded
    <3>3. \A b \in Staged(r) : b[1] = r
      BY DEF Staged
    <3> QED
      BY <3>1, <3>2, <3>3
  <2> QED
    BY <2>1, <2>2
<1>7. ASSUME NEW r \in Requests, Fails(r) PROVE IndexMatchesConversion'
  BY <1>7 DEF Fails, JobFail, JobFailLost
<1>8. ASSUME NEW p \in Requests \cup Deleters, Removes(p) PROVE IndexMatchesConversion'
  BY <1>8 DEF Removes, RemoveArtifact, Rollback
<1>9. ASSUME NEW d \in Deleters, Deletes(d) PROVE IndexMatchesConversion'
  <2>1. kb' = kb /\ \A q \in Requests : seen'[q] = seen[q]
    BY <1>9 DEF Deletes, DeleteRead, DeleteFlush, DeleteFlushError
  <2> QED
    BY <2>1
<1>10. ASSUME NEW d \in Deleters, DeleteCommit(d) PROVE IndexMatchesConversion'
  BY <1>10 DEF DeleteCommit
<1>11. ASSUME NEW s \in Readers, Reads(s) PROVE IndexMatchesConversion'
  <2>1. kb' = kb /\ \A q \in Requests : seen'[q] = seen[q]
    BY <1>11 DEF Reads, ReadMissing, SearchRow, SearchIndexFile, FetchRow,
                 FetchFiles, ReadBlobs
  <2> QED
    BY <2>1
<1>12. CASE Crash
  BY <1>12 DEF Crash, Live, LivePcs, JobPcs
<1>13. CASE UNCHANGED vars
  BY <1>13 DEF vars
<1> QED
  BY StepCases, <1>1, <1>2, <1>3, <1>4, <1>5, <1>6, <1>7, <1>8, <1>9, <1>10,
     <1>11, <1>12, <1>13

\* A conversion clears what an earlier indexing task had announced.
LEMMA PolledSuccessIsCurrentStep ==
  ASSUME TypeOK, TypeOK', PolledSuccessIsCurrent, PolledByOperation,
         TaskFollowsJob, OutputsPlanned, [Next]_vars
  PROVE  PolledSuccessIsCurrent'
<1> USE ConstantsAssumption DEF TypeOK, Procs, Artifacts, KnowledgeBase, Goto,
         Acquire, Release, Free, JobPcs, OutputsPlanned, PolledByOperation,
         PolledSuccessIsCurrent, Running, Staged, TaskFollowsJob
<1>1. ASSUME NEW r \in Requests, Starts(r) PROVE PolledSuccessIsCurrent'
  BY <1>1 DEF Starts, StartMissing, StartConflict, StartFlush, StartRollback,
         EnsureIdle
<1>2. ASSUME NEW r \in Requests, StartCommit(r) PROVE PolledSuccessIsCurrent'
  BY <1>2 DEF StartCommit
<1>3. ASSUME NEW r \in Requests, Prepares(r) PROVE PolledSuccessIsCurrent'
  BY <1>3 DEF Prepares, JobBegin, JobBeginLost, JobRead, JobLoad, Loaded
<1>4. ASSUME NEW r \in Requests, Stages(r) PROVE PolledSuccessIsCurrent'
  BY <1>4 DEF Stages, JobStage, JobStageError, JobStageAbort, RemoveStaged
<1>5. ASSUME NEW r \in Requests, Flushes(r) PROVE PolledSuccessIsCurrent'
  BY <1>5 DEF Flushes, JobFlush, JobFlushError, RemoveStaged, Replaced
<1>6. ASSUME NEW r \in Requests, JobCommit(r) PROVE PolledSuccessIsCurrent'
  <2>1. \A q \in Requests : Staged(q)' = Staged(q)
    BY <1>6 DEF JobCommit, Staged
  <2>4. Staged(r) # {}
    <3>1. 1 \in 1 .. written[r]
      BY <1>6 DEF JobCommit
    <3>2. <<r, 1>> \in {r} \X (1 .. written[r])
      BY <3>1
    <3> QED
      BY <3>2 DEF Staged
  <2>2. CASE op[r] = "conversion"
    <3>1. /\ kb'.files = Staged(r) /\ kb'.indexing_task = NoProc
          /\ kb'.exists = kb.exists /\ kb'.conversion_task = kb.conversion_task
      BY <1>6, <2>2 DEF JobCommit, Published
    <3>2. kb.exists => kb.conversion_task = r
      BY <1>6, <2>2 DEF JobCommit
    <3> QED
      BY <2>1, <2>4, <3>1, <3>2
  <2>3. CASE op[r] # "conversion"
    <3>1. /\ kb' = [kb EXCEPT !.index = Staged(r)]
          /\ task' = [task EXCEPT ![r] = "SUCCESS"]
      BY <1>6, <2>3 DEF JobCommit, Published
    <3>2. kb.exists => kb.indexing_task = r /\ kb.conversion_task # r
      BY <1>6, <2>3 DEF JobCommit
    <3> QED
      BY <2>1, <2>4, <3>1, <3>2
  <2> QED
    BY <2>2, <2>3
<1>7. ASSUME NEW r \in Requests, Fails(r) PROVE PolledSuccessIsCurrent'
  BY <1>7 DEF Fails, JobFail, JobFailLost
<1>8. ASSUME NEW p \in Requests \cup Deleters, Removes(p) PROVE PolledSuccessIsCurrent'
  BY <1>8 DEF Removes, RemoveArtifact, Rollback
<1>9. ASSUME NEW d \in Deleters, Deletes(d) PROVE PolledSuccessIsCurrent'
  BY <1>9 DEF Deletes, DeleteRead, DeleteFlush, DeleteFlushError, Loaded
<1>10. ASSUME NEW d \in Deleters, DeleteCommit(d) PROVE PolledSuccessIsCurrent'
  BY <1>10 DEF DeleteCommit
<1>11. ASSUME NEW s \in Readers, Reads(s) PROVE PolledSuccessIsCurrent'
  BY <1>11 DEF Reads, ReadMissing, SearchRow, SearchIndexFile, FetchRow,
         FetchFiles, ReadBlobs
<1>12. CASE Crash
  BY <1>12 DEF Crash, Live, LivePcs, JobPcs
<1>13. CASE UNCHANGED vars
  BY <1>13 DEF vars
<1> QED
  BY StepCases, <1>1, <1>2, <1>3, <1>4, <1>5, <1>6, <1>7, <1>8, <1>9, <1>10,
     <1>11, <1>12, <1>13

-----------------------------------------------------------------------------
(* Theorems *)

LEMMA InitIInv == Init => IInv
<1> SUFFICES ASSUME Init PROVE IInv
  OBVIOUS
<1> USE ConstantsAssumption DEF Init
<1>1. TypeOK
  BY DEF TypeOK, Procs, Blob, Operations, RequestPcs, Artifacts, NoArtifacts,
         KnowledgeBase
<1>2. LockHeld /\ TaskFollowsJob /\ AdmittedAlone /\ SingleFlight
  BY DEF LockHeld, TaskFollowsJob, AdmittedAlone, SingleFlight, Running, Procs,
         JobPcs
<1>3. PolledByOperation /\ LoadedIsCommitted /\ WritersSucceeded
  BY DEF PolledByOperation, LoadedIsCommitted, WritersSucceeded, Running, Procs
<1>4. OutputsPlanned /\ IndexingHasInput /\ IndexMatchesConversion /\ PolledSuccessIsCurrent
  BY DEF OutputsPlanned, IndexingHasInput, IndexMatchesConversion,
         PolledSuccessIsCurrent, Procs
<1> QED
  BY <1>1, <1>2, <1>3, <1>4 DEF IInv

LEMMA IInvStep == IInv /\ [Next]_vars => IInv'
BY TypeOKStep, LockHeldStep, TaskFollowsJobStep, AdmittedAloneStep,
   SingleFlightStep, PolledByOperationStep, LoadedIsCommittedStep,
   WritersSucceededStep, OutputsPlannedStep, IndexingHasInputStep, IndexMatchesConversionStep,
   PolledSuccessIsCurrentStep
   DEF IInv

\* Every behaviour of the service satisfies the inductive invariant.
THEOREM InvariantHolds == Spec => []IInv
BY InitIInv, IInvStep, PTL DEF Spec

\* Rows, blobs and requests keep their types, whatever fails.
THEOREM TypeCorrect == Spec => []TypeOK
<1>1. IInv => TypeOK
  BY DEF IInv
<1> QED
  BY <1>1, InvariantHolds, PTL

\* start_knowledge_base_operation never admits a second running operation,
\* whatever fails between its check and its commit and wherever a job stops.
THEOREM OneOperationAtATime == Spec => []SingleFlight
<1>1. IInv => SingleFlight
  BY DEF IInv
<1> QED
  BY <1>1, InvariantHolds, PTL

\* The running task is always one of the two that a client can poll.
THEOREM RunningTaskIsPolled == Spec => []RunningIsPolled
<1>1. IInv => RunningIsPolled
  BY DEF IInv, RunningIsPolled, PolledByOperation
<1> QED
  BY <1>1, InvariantHolds, PTL

\* A search never sees an index of other files than the converted ones.
THEOREM IndexNeverStale == Spec => []IndexMatchesConversion
<1>1. IInv => IndexMatchesConversion
  BY DEF IInv
<1> QED
  BY <1>1, InvariantHolds, PTL

\* The outputs of a task that is polled as successful are the current ones.
THEOREM PolledSuccessIsTrue == Spec => []PolledSuccessIsCurrent
<1>1. IInv => PolledSuccessIsCurrent
  BY DEF IInv
<1> QED
  BY <1>1, InvariantHolds, PTL

-----------------------------------------------------------------------------
(* The gate in front of the operations *)

LEMMA GateInit == Init => Gate!Init
BY DEF Init, Gate!Init

\* A step of the service is a step of the gate, or one the gate does not see.
LEMMA GateStep ==
  ASSUME IInv, [Next]_vars
  PROVE  [Gate!Next]_task
<1> USE DEF IInv, TypeOK, TaskFollowsJob, JobPcs
<1>1. ASSUME NEW r \in Requests, Starts(r) PROVE UNCHANGED task
  BY <1>1 DEF Starts, StartMissing, StartConflict, StartFlush, StartRollback
<1>2. ASSUME NEW r \in Requests, StartCommit(r) PROVE Gate!Accept(r)
  BY <1>2 DEF StartCommit, AdmittedAlone, Running, Gate!Accept, Gate!InFlight
<1>3. ASSUME NEW r \in Requests, Prepares(r)
      PROVE  Gate!Begin(r) \/ UNCHANGED task
  BY <1>3 DEF Prepares, JobBegin, JobBeginLost, JobRead, JobLoad, Gate!Begin
<1>4. ASSUME NEW r \in Requests, Stages(r) \/ Flushes(r) PROVE UNCHANGED task
  BY <1>4 DEF Stages, JobStage, JobStageError, JobStageAbort, Flushes, JobFlush,
              JobFlushError
<1>5. ASSUME NEW r \in Requests, JobCommit(r) PROVE Gate!Finish(r)
  BY <1>5 DEF JobCommit, Gate!Finish
<1>6. ASSUME NEW r \in Requests, Fails(r)
      PROVE  Gate!Finish(r) \/ UNCHANGED task
  BY <1>6 DEF Fails, JobFail, JobFailLost, Gate!Finish
<1>7. ASSUME NEW p \in Requests \cup Deleters, Removes(p) PROVE UNCHANGED task
  BY <1>7 DEF Removes, RemoveArtifact, Rollback
<1>8. ASSUME NEW d \in Deleters, Deletes(d) \/ DeleteCommit(d)
      PROVE  UNCHANGED task
  BY <1>8 DEF Deletes, DeleteRead, DeleteFlush, DeleteFlushError, DeleteCommit
<1>9. ASSUME NEW s \in Readers, Reads(s) PROVE UNCHANGED task
  BY <1>9 DEF Reads, ReadMissing, SearchRow, SearchIndexFile, FetchRow,
              FetchFiles, ReadBlobs
<1>10. Crash \/ UNCHANGED vars => UNCHANGED task
  BY DEF Crash, vars
<1> QED
  BY StepCases, <1>1, <1>2, <1>3, <1>4, <1>5, <1>6, <1>7, <1>8, <1>9, <1>10
     DEF Gate!Next

\* Conversions and indexing runs go through a gate that admits one at a time,
\* begins it once and ends it once, whatever fails.
THEOREM ImplementsGate == Spec => GateRefined
<1>1. Init => Gate!Init
  BY GateInit
<1>2. IInv /\ [Next]_vars => [Gate!Next]_task
  BY GateStep
<1> QED
  BY <1>1, <1>2, InvariantHolds, PTL DEF Spec, GateRefined, Gate!Spec

-----------------------------------------------------------------------------
(* The searchable corpus *)

LEMMA CorpusInit == Init => Corpus!Init
BY DEF Init, Corpus!Init, BuiltFrom

\* A step that leaves the row alone, and what the writers of its index had
\* loaded, is not seen.
LEMMA UnseenStep ==
  ASSUME IInv,
         kb'.exists = kb.exists, kb'.files = kb.files, kb'.index = kb.index,
         \A q \in Requests : task[q] = "SUCCESS" => seen'[q] = seen[q]
  PROVE  UNCHANGED Corpus!corpusVars
<1>1. \A b \in kb.index : seen'[b[1]].files = seen[b[1]].files
  BY DEF IInv, WritersSucceeded, OutputOf
<1>2. BuiltFrom(kb.index)' = BuiltFrom(kb.index)
  BY <1>1 DEF BuiltFrom
<1> QED
  BY <1>2 DEF Corpus!corpusVars

\* A successful job publishes a conversion, or an index of the whole corpus.
LEMMA JobCommitStep ==
  ASSUME IInv, NEW r \in Requests, JobCommit(r)
  PROVE  [Corpus!Next]_(Corpus!corpusVars)
<1> USE ConstantsAssumption DEF IInv, TypeOK, KnowledgeBase, Procs
<1>1. CASE ~kb.exists
  BY <1>1 DEF JobCommit, Published, Corpus!corpusVars
<1>2. CASE kb.exists /\ op[r] = "conversion"
  <2>1. /\ kb'.exists /\ kb'.files = Staged(r) /\ kb'.index = {}
    BY <1>2 DEF JobCommit, Published
  <2>2. Staged(r) \in SUBSET Blob
    BY StagedIsBlobs
  <2>3. Staged(r) # {}
    <3>1. <<r, 1>> \in {r} \X (1 .. written[r])
      BY DEF JobCommit, OutputsPlanned
    <3> QED
      BY <3>1 DEF Staged
  <2>4. Staged(r) \cap kb.files = {}
    <3>1. \A b \in Staged(r) : b[1] = r
      BY DEF Staged
    <3>2. task[r] # "SUCCESS"
      BY DEF JobCommit, TaskFollowsJob
    <3> QED
      BY <3>1, <3>2 DEF WritersSucceeded, OutputOf
  <2>5. BuiltFrom(kb.index)' = {}
    BY <2>1 DEF BuiltFrom
  <2>6. Corpus!Convert
    BY <1>2, <2>1, <2>2, <2>3, <2>4, <2>5 DEF Corpus!Convert
  <2> QED
    BY <2>6 DEF Corpus!Next
<1>3. CASE kb.exists /\ op[r] # "conversion"
  <2>1. kb' = [kb EXCEPT !.index = Staged(r)] /\ seen' = seen
    BY <1>3 DEF JobCommit, Published
  <2>2. seen[r].files = kb.files /\ kb.files # {}
    BY <1>3 DEF JobCommit, LoadedIsCommitted, Loaded, IndexingHasInput, Operations
  <2>3. (\A b \in Staged(r) : b[1] = r) /\ \E b \in Staged(r) : TRUE
    <3>1. <<r, 1>> \in {r} \X (1 .. written[r])
      BY DEF JobCommit, OutputsPlanned
    <3> QED
      BY <3>1 DEF Staged
  <2>4. BuiltFrom(Staged(r)) = seen[r].files
    BY <2>3 DEF BuiltFrom
  <2>5. BuiltFrom(kb.index)' = BuiltFrom(Staged(r))
    BY <2>1 DEF BuiltFrom, Staged, JobCommit
  <2>6. Corpus!Index
    BY <1>3, <2>1, <2>2, <2>4, <2>5 DEF Corpus!Index
  <2> QED
    BY <2>6 DEF Corpus!Next
<1> QED
  BY <1>1, <1>2, <1>3

LEMMA CorpusStep ==
  ASSUME IInv, [Next]_vars
  PROVE  [Corpus!Next]_(Corpus!corpusVars)
<1> USE ConstantsAssumption DEF IInv, TypeOK, KnowledgeBase, Procs, Goto
<1>1. ASSUME NEW r \in Requests, Starts(r) PROVE [Corpus!Next]_(Corpus!corpusVars)
  <2>1. /\ kb'.exists = kb.exists /\ kb'.files = kb.files /\ kb'.index = kb.index
        /\ \A q \in Requests : task[q] = "SUCCESS" => seen'[q] = seen[q]
    BY <1>1 DEF Starts, StartMissing, StartConflict, StartFlush, StartRollback
  <2> QED
    BY <2>1, UnseenStep
<1>2. ASSUME NEW r \in Requests, StartCommit(r) PROVE [Corpus!Next]_(Corpus!corpusVars)
  <2>1. /\ kb'.exists = kb.exists /\ kb'.files = kb.files /\ kb'.index = kb.index
        /\ \A q \in Requests : task[q] = "SUCCESS" => seen'[q] = seen[q]
    BY <1>2 DEF StartCommit
  <2> QED
    BY <2>1, UnseenStep
<1>3. ASSUME NEW r \in Requests, Prepares(r) PROVE [Corpus!Next]_(Corpus!corpusVars)
  <2>1. /\ kb'.exists = kb.exists /\ kb'.files = kb.files /\ kb'.index = kb.index
        /\ \A q \in Requests : task[q] = "SUCCESS" => seen'[q] = seen[q]
    BY <1>3 DEF Prepares, JobBegin, JobBeginLost, JobRead, JobLoad,
           TaskFollowsJob, JobPcs
  <2> QED
    BY <2>1, UnseenStep
<1>4. ASSUME NEW r \in Requests, Stages(r) PROVE [Corpus!Next]_(Corpus!corpusVars)
  <2>1. /\ kb'.exists = kb.exists /\ kb'.files = kb.files /\ kb'.index = kb.index
        /\ \A q \in Requests : task[q] = "SUCCESS" => seen'[q] = seen[q]
    BY <1>4 DEF Stages, JobStage, JobStageError, JobStageAbort
  <2> QED
    BY <2>1, UnseenStep
<1>5. ASSUME NEW r \in Requests, Flushes(r) PROVE [Corpus!Next]_(Corpus!corpusVars)
  <2>1. /\ kb'.exists = kb.exists /\ kb'.files = kb.files /\ kb'.index = kb.index
        /\ \A q \in Requests : task[q] = "SUCCESS" => seen'[q] = seen[q]
    BY <1>5 DEF Flushes, JobFlush, JobFlushError
  <2> QED
    BY <2>1, UnseenStep
<1>6. ASSUME NEW r \in Requests, JobCommit(r) PROVE [Corpus!Next]_(Corpus!corpusVars)
  BY <1>6, JobCommitStep
<1>7. ASSUME NEW r \in Requests, Fails(r) PROVE [Corpus!Next]_(Corpus!corpusVars)
  <2>1. /\ kb'.exists = kb.exists /\ kb'.files = kb.files /\ kb'.index = kb.index
        /\ \A q \in Requests : task[q] = "SUCCESS" => seen'[q] = seen[q]
    BY <1>7 DEF Fails, JobFail, JobFailLost
  <2> QED
    BY <2>1, UnseenStep
<1>8. ASSUME NEW p \in Requests \cup Deleters, Removes(p) PROVE [Corpus!Next]_(Corpus!corpusVars)
  <2>1. /\ kb'.exists = kb.exists /\ kb'.files = kb.files /\ kb'.index = kb.index
        /\ \A q \in Requests : task[q] = "SUCCESS" => seen'[q] = seen[q]
    BY <1>8 DEF Removes, RemoveArtifact, Rollback
  <2> QED
    BY <2>1, UnseenStep
<1>9. ASSUME NEW d \in Deleters, Deletes(d) PROVE [Corpus!Next]_(Corpus!corpusVars)
  <2>1. /\ kb'.exists = kb.exists /\ kb'.files = kb.files /\ kb'.index = kb.index
        /\ \A q \in Requests : task[q] = "SUCCESS" => seen'[q] = seen[q]
    BY <1>9 DEF Deletes, DeleteRead, DeleteFlush, DeleteFlushError
  <2> QED
    BY <2>1, UnseenStep
<1>10. ASSUME NEW d \in Deleters, DeleteCommit(d) PROVE [Corpus!Next]_(Corpus!corpusVars)
  <2>1. kb' = [kb EXCEPT !.exists = FALSE]
    BY <1>10 DEF DeleteCommit
  <2>2. CASE kb.exists
    BY <2>1, <2>2 DEF Corpus!Next, Corpus!Delete
  <2>3. CASE ~kb.exists
    BY <2>1, <2>3 DEF Corpus!corpusVars
  <2> QED
    BY <2>2, <2>3
<1>11. ASSUME NEW s \in Readers, Reads(s) PROVE [Corpus!Next]_(Corpus!corpusVars)
  <2>1. /\ kb'.exists = kb.exists /\ kb'.files = kb.files /\ kb'.index = kb.index
        /\ \A q \in Requests : task[q] = "SUCCESS" => seen'[q] = seen[q]
    BY <1>11 DEF Reads, ReadMissing, SearchRow, SearchIndexFile, FetchRow,
           FetchFiles, ReadBlobs
  <2> QED
    BY <2>1, UnseenStep
<1>12. Crash \/ UNCHANGED vars => UNCHANGED <<kb, seen>>
  BY DEF Crash, vars
<1> QED
  BY StepCases, UnseenStep, <1>1, <1>2, <1>3, <1>4, <1>5, <1>6, <1>7, <1>8,
     <1>9, <1>10, <1>11, <1>12

\* A search covers nothing, or exactly the last successful conversion.
THEOREM ImplementsCorpus == Spec => CorpusRefined
<1>1. Init => Corpus!Init
  BY CorpusInit
<1>2. IInv /\ [Next]_vars => [Corpus!Next]_(Corpus!corpusVars)
  BY CorpusStep
<1> QED
  BY <1>1, <1>2, InvariantHolds, PTL DEF Spec, CorpusRefined, Corpus!Spec

-----------------------------------------------------------------------------
(* The artifacts on the disk *)

\* Neither an unlink nor a commit fails, and the process does not stop: each of
\* these leaves a rolled back transaction behind that has unlinked blobs.
OrderlyTransactions == Faults \cap {"unlink", "commit", "crash"} = {}

\* The outputs of a job are removed by nobody but the job itself.
LEMMA StagedOnDiskStep ==
  ASSUME TypeOK, TypeOK', OrderlyTransactions, StagedOnDisk,
         LoadedWritersSucceeded, DoomedIsReplaced, TaskFollowsJob, OutputsPlanned, [Next]_vars
  PROVE  StagedOnDisk'
<1> USE ConstantsAssumption DEF TypeOK, Procs, Artifacts, KnowledgeBase, Goto,
         Acquire, Release, Free, DoomedIsReplaced, JobPcs,
         LoadedWritersSucceeded, OrderlyTransactions, OutputOf, OutputsPlanned, Replaced,
         Staged, StagedOnDisk, TaskFollowsJob
<1>1. ASSUME NEW r \in Requests, Starts(r) PROVE StagedOnDisk'
  BY <1>1 DEF Starts, StartMissing, StartConflict, StartFlush, StartRollback,
         EnsureIdle
<1>2. ASSUME NEW r \in Requests, StartCommit(r) PROVE StagedOnDisk'
  BY <1>2 DEF StartCommit
<1>3. ASSUME NEW r \in Requests, Prepares(r) PROVE StagedOnDisk'
  <2>1. written'[r] = 0 /\ disk' = disk /\ \A q \in Requests : Staged(q)' = Staged(q)
    BY <1>3 DEF Prepares, JobBegin, JobBeginLost, JobRead, JobLoad
  <2>2. Staged(r)' = {}
    BY <2>1
  <2>3. \A q \in Requests : q # r => pc'[q] = pc[q]
    BY <1>3 DEF Prepares, JobBegin, JobBeginLost, JobRead, JobLoad
  <2>4. ASSUME NEW q \in Requests, pc'[q] \in {"staging", "removing"}
        PROVE  Staged(q)' \subseteq disk'
    <3>1. CASE q = r
      BY <2>2, <3>1
    <3>2. CASE q # r
      <4>1. Staged(q) \subseteq disk
        BY <2>3, <2>4, <3>2
      <4> QED
        BY <2>1, <4>1
    <3> QED
      BY <3>1, <3>2
  <2> QED
    BY <2>4
<1>4. ASSUME NEW r \in Requests, Stages(r) PROVE StagedOnDisk'
  <2>1. ASSUME NEW q \in Requests, q # r, pc[q] \in {"staging", "removing"}
        PROVE  Staged(q)' = Staged(q) /\ Staged(q) \subseteq disk'
    <3>1. written'[q] = written[q]
      BY <1>4, <2>1 DEF Stages, JobStage, JobStageError, JobStageAbort
    <3>2. \A b \in Staged(q) : b[1] = q
      OBVIOUS
    <3>3. \A b \in disk \ disk' : b[1] = r
      BY <1>4 DEF Stages, JobStage, JobStageError, JobStageAbort, RemoveStaged
    <3> QED
      BY <2>1, <3>1, <3>2, <3>3
  <2>2. CASE JobStage(r)
    <3>1. /\ disk' = disk \cup {<<r, written[r] + 1>>}
          /\ written'[r] = written[r] + 1
          /\ Staged(r) \subseteq disk
      BY <2>2 DEF JobStage
    <3>2. ASSUME NEW i \in 1 .. written'[r]
          PROVE  <<r, i>> \in disk'
      <4>1. CASE i = written[r] + 1
        BY <3>1, <4>1
      <4>2. CASE i # written[r] + 1
        <5>1. i \in 1 .. written[r]
          <6>1. written[r] \in Nat
            OBVIOUS
          <6>2. i \in Nat /\ 1 <= i /\ i <= written[r] + 1
            BY <3>1, <6>1
          <6> QED
            BY <4>2, <6>1, <6>2
        <5> QED
          BY <3>1, <5>1
      <4> QED
        BY <4>1, <4>2
    <3>4. Staged(r)' \subseteq disk'
      BY <3>2
    <3>3. pc' = pc
      BY <2>2 DEF JobStage
    <3> QED
      BY <2>1, <3>3, <3>4
  <2>3. CASE JobStageError(r) \/ JobStageAbort(r)
    <3>1. pc' = [pc EXCEPT ![r] = "failing"]
      BY <2>3 DEF JobStageError, JobStageAbort
    <3> QED
      BY <2>1, <3>1
  <2> QED
    BY <1>4, <2>2, <2>3 DEF Stages
<1>5. ASSUME NEW r \in Requests, Flushes(r) PROVE StagedOnDisk'
  BY <1>5 DEF Flushes, JobFlush, JobFlushError, RemoveStaged
<1>6. ASSUME NEW r \in Requests, JobCommit(r) PROVE StagedOnDisk'
  BY <1>6 DEF JobCommit, Published
<1>7. ASSUME NEW r \in Requests, Fails(r) PROVE StagedOnDisk'
  BY <1>7 DEF Fails, JobFail, JobFailLost
<1>8. ASSUME NEW p \in Requests \cup Deleters, Removes(p) PROVE StagedOnDisk'
  BY <1>8 DEF Removes, RemoveArtifact, Rollback
<1>9. ASSUME NEW d \in Deleters, Deletes(d) PROVE StagedOnDisk'
  BY <1>9, SMTT(60) DEF Deletes, DeleteRead, DeleteFlush, DeleteFlushError, Loaded
<1>10. ASSUME NEW d \in Deleters, DeleteCommit(d) PROVE StagedOnDisk'
  BY <1>10 DEF DeleteCommit
<1>11. ASSUME NEW s \in Readers, Reads(s) PROVE StagedOnDisk'
  BY <1>11 DEF Reads, ReadMissing, SearchRow, SearchIndexFile, FetchRow,
         FetchFiles, ReadBlobs
<1>12. CASE Crash
  BY <1>12 DEF Crash
<1>13. CASE UNCHANGED vars
  BY <1>13 DEF vars
<1> QED
  BY StepCases, <1>1, <1>2, <1>3, <1>4, <1>5, <1>6, <1>7, <1>8, <1>9, <1>10,
     <1>11, <1>12, <1>13

\* What a transaction has loaded are outputs of jobs that had succeeded.
LEMMA LoadedWritersSucceededStep ==
  ASSUME TypeOK, TypeOK', OrderlyTransactions, LoadedWritersSucceeded,
         WritersSucceeded, TaskFollowsJob, [Next]_vars
  PROVE  LoadedWritersSucceeded'
<1> USE ConstantsAssumption DEF TypeOK, Procs, Artifacts, KnowledgeBase, Goto,
         Acquire, Release, Free, JobPcs, LoadedWritersSucceeded,
         OrderlyTransactions, OutputOf, TaskFollowsJob, WritersSucceeded
<1>1. ASSUME NEW r \in Requests, Starts(r) PROVE LoadedWritersSucceeded'
  BY <1>1 DEF Starts, StartMissing, StartConflict, StartFlush, StartRollback,
         EnsureIdle
<1>2. ASSUME NEW r \in Requests, StartCommit(r) PROVE LoadedWritersSucceeded'
  BY <1>2 DEF StartCommit
<1>3. ASSUME NEW r \in Requests, Prepares(r) PROVE LoadedWritersSucceeded'
  BY <1>3 DEF Prepares, JobBegin, JobBeginLost, JobRead, JobLoad, Loaded
<1>4. ASSUME NEW r \in Requests, Stages(r) PROVE LoadedWritersSucceeded'
  BY <1>4 DEF Stages, JobStage, JobStageError, JobStageAbort, RemoveStaged
<1>5. ASSUME NEW r \in Requests, Flushes(r) PROVE LoadedWritersSucceeded'
  BY <1>5 DEF Flushes, JobFlush, JobFlushError, RemoveStaged, Replaced
<1>6. ASSUME NEW r \in Requests, JobCommit(r) PROVE LoadedWritersSucceeded'
  BY <1>6 DEF JobCommit, Published, Staged
<1>7. ASSUME NEW r \in Requests, Fails(r) PROVE LoadedWritersSucceeded'
  BY <1>7 DEF Fails, JobFail, JobFailLost
<1>8. ASSUME NEW p \in Requests \cup Deleters, Removes(p) PROVE LoadedWritersSucceeded'
  BY <1>8 DEF Removes, RemoveArtifact, Rollback
<1>9. ASSUME NEW d \in Deleters, Deletes(d) PROVE LoadedWritersSucceeded'
  BY <1>9 DEF Deletes, DeleteRead, DeleteFlush, DeleteFlushError, Loaded
<1>10. ASSUME NEW d \in Deleters, DeleteCommit(d) PROVE LoadedWritersSucceeded'
  BY <1>10 DEF DeleteCommit
<1>11. ASSUME NEW s \in Readers, Reads(s) PROVE LoadedWritersSucceeded'
  <2>1. op' = op /\ task' = task /\ \A p \in Procs : p # s => seen'[p] = seen[p]
    BY <1>11 DEF Reads, ReadMissing, SearchRow, SearchIndexFile, FetchRow,
                 FetchFiles, ReadBlobs
  <2>2. seen'[s].files \in {{}, seen[s].files, kb.files}
    BY <1>11 DEF Reads, ReadMissing, SearchRow, SearchIndexFile, FetchRow,
                 FetchFiles, ReadBlobs
  <2>3. seen'[s].index \in {seen[s].index, kb.index}
    BY <1>11 DEF Reads, ReadMissing, SearchRow, SearchIndexFile, FetchRow,
                 FetchFiles, ReadBlobs
  <2>4. ASSUME NEW p \in Procs
        PROVE  /\ \A b \in seen'[p].files : OutputOf(b, "conversion")
               /\ \A b \in seen'[p].index : OutputOf(b, "indexing")
    <3>1. CASE p = s
      <4>1. \A b \in seen'[s].files : OutputOf(b, "conversion")
        BY <2>2
      <4>2. \A b \in seen'[s].index : OutputOf(b, "indexing")
        BY <2>3
      <4> QED
        BY <3>1, <4>1, <4>2
    <3>2. CASE p # s
      BY <2>1, <3>2
    <3> QED
      BY <3>1, <3>2
  <2> QED
    BY <2>1, <2>4
<1>12. CASE Crash
  BY <1>12 DEF Crash
<1>13. CASE UNCHANGED vars
  BY <1>13 DEF vars
<1> QED
  BY StepCases, <1>1, <1>2, <1>3, <1>4, <1>5, <1>6, <1>7, <1>8, <1>9, <1>10,
     <1>11, <1>12, <1>13

\* A transaction unlinks only what it replaces.
LEMMA DoomedIsReplacedStep ==
  ASSUME TypeOK, TypeOK', OrderlyTransactions, DoomedIsReplaced, [Next]_vars
  PROVE  DoomedIsReplaced'
<1> USE ConstantsAssumption DEF TypeOK, Procs, Artifacts, KnowledgeBase, Goto,
         Acquire, Release, Free, DoomedIsReplaced, JobPcs,
         OrderlyTransactions, Replaced
<1>1. ASSUME NEW r \in Requests, Starts(r) PROVE DoomedIsReplaced'
  BY <1>1 DEF Starts, StartMissing, StartConflict, StartFlush, StartRollback,
         EnsureIdle
<1>2. ASSUME NEW r \in Requests, StartCommit(r) PROVE DoomedIsReplaced'
  BY <1>2 DEF StartCommit
<1>3. ASSUME NEW r \in Requests, Prepares(r) PROVE DoomedIsReplaced'
  BY <1>3 DEF Prepares, JobBegin, JobBeginLost, JobRead, JobLoad, Loaded
<1>4. ASSUME NEW r \in Requests, Stages(r) PROVE DoomedIsReplaced'
  BY <1>4 DEF Stages, JobStage, JobStageError, JobStageAbort, RemoveStaged
<1>5. ASSUME NEW r \in Requests, Flushes(r) PROVE DoomedIsReplaced'
  BY <1>5 DEF Flushes, JobFlush, JobFlushError, RemoveStaged
<1>6. ASSUME NEW r \in Requests, JobCommit(r) PROVE DoomedIsReplaced'
  BY <1>6 DEF JobCommit, Published, Staged
<1>7. ASSUME NEW r \in Requests, Fails(r) PROVE DoomedIsReplaced'
  BY <1>7 DEF Fails, JobFail, JobFailLost
<1>8. ASSUME NEW p \in Requests \cup Deleters, Removes(p) PROVE DoomedIsReplaced'
  BY <1>8 DEF Removes, RemoveArtifact, Rollback
<1>9. ASSUME NEW d \in Deleters, Deletes(d) PROVE DoomedIsReplaced'
  BY <1>9 DEF Deletes, DeleteRead, DeleteFlush, DeleteFlushError, Loaded
<1>10. ASSUME NEW d \in Deleters, DeleteCommit(d) PROVE DoomedIsReplaced'
  BY <1>10 DEF DeleteCommit
<1>11. ASSUME NEW s \in Readers, Reads(s) PROVE DoomedIsReplaced'
  <2>1. /\ op' = op /\ doomed' = doomed
        /\ \A p \in Requests \cup Deleters : seen'[p] = seen[p] /\ pc'[p] = pc[p]
    BY <1>11 DEF Reads, ReadMissing, SearchRow, SearchIndexFile, FetchRow,
                 FetchFiles, ReadBlobs
  <2> QED
    BY <2>1
<1>12. CASE Crash
  BY <1>12 DEF Crash
<1>13. CASE UNCHANGED vars
  BY <1>13 DEF vars
<1> QED
  BY StepCases, <1>1, <1>2, <1>3, <1>4, <1>5, <1>6, <1>7, <1>8, <1>9, <1>10,
     <1>11, <1>12, <1>13

\* A committed artifact is off the disk only during the transaction that drops it.
LEMMA ArtifactsOnDiskStep ==
  ASSUME TypeOK, TypeOK', OrderlyTransactions, ArtifactsOnDisk,
         WritersSucceeded, StagedOnDisk, LoadedWritersSucceeded,
         DoomedIsReplaced, TaskFollowsJob, LockHeld, [Next]_vars
  PROVE  ArtifactsOnDisk'
<1> USE ConstantsAssumption DEF TypeOK, Procs, Artifacts, KnowledgeBase, Goto,
         Acquire, Release, Free, Artifact, ArtifactsOnDisk, DoomedIsReplaced,
         JobPcs, LoadedWritersSucceeded, LockHeld, OrderlyTransactions,
         OutputOf, Replaced, Staged, StagedOnDisk, TaskFollowsJob,
         WritersSucceeded
<1>1. ASSUME NEW r \in Requests, Starts(r) PROVE ArtifactsOnDisk'
  BY <1>1 DEF Starts, StartMissing, StartConflict, StartFlush, StartRollback,
         EnsureIdle
<1>2. ASSUME NEW r \in Requests, StartCommit(r) PROVE ArtifactsOnDisk'
  BY <1>2 DEF StartCommit
<1>3. ASSUME NEW r \in Requests, Prepares(r) PROVE ArtifactsOnDisk'
  BY <1>3 DEF Prepares, JobBegin, JobBeginLost, JobRead, JobLoad, Loaded
<1>4. ASSUME NEW r \in Requests, Stages(r) PROVE ArtifactsOnDisk'
  BY <1>4 DEF Stages, JobStage, JobStageError, JobStageAbort, RemoveStaged
<1>5. ASSUME NEW r \in Requests, Flushes(r) PROVE ArtifactsOnDisk'
  BY <1>5 DEF Flushes, JobFlush, JobFlushError, RemoveStaged
<1>6. ASSUME NEW r \in Requests, JobCommit(r) PROVE ArtifactsOnDisk'
  <2>1. disk' = disk /\ Staged(r) \subseteq disk /\ kb'.exists = kb.exists
    BY <1>6 DEF JobCommit, Published
  <2>2. kb.exists => Artifact \ disk \subseteq Replaced(r)
    BY <1>6 DEF JobCommit
  <2>3. CASE op[r] = "conversion"
    <3>1. kb'.files = Staged(r) /\ kb'.index = {}
      BY <1>6, <2>3 DEF JobCommit, Published
    <3> QED
      BY <2>1, <3>1
  <2>4. CASE op[r] # "conversion"
    <3>1. kb'.files = kb.files /\ kb'.index = Staged(r)
      BY <1>6, <2>4 DEF JobCommit, Published
    <3>2. Replaced(r) \cap kb.files = {}
      BY <2>4
    <3> QED
      BY <2>1, <2>2, <3>1, <3>2
  <2> QED
    BY <2>3, <2>4
<1>7. ASSUME NEW r \in Requests, Fails(r) PROVE ArtifactsOnDisk'
  BY <1>7 DEF Fails, JobFail, JobFailLost
<1>8. ASSUME NEW p \in Requests \cup Deleters, Removes(p) PROVE ArtifactsOnDisk'
  BY <1>8 DEF Removes, RemoveArtifact, Rollback
<1>9. ASSUME NEW d \in Deleters, Deletes(d) PROVE ArtifactsOnDisk'
  BY <1>9 DEF Deletes, DeleteRead, DeleteFlush, DeleteFlushError, Loaded
<1>10. ASSUME NEW d \in Deleters, DeleteCommit(d) PROVE ArtifactsOnDisk'
  BY <1>10 DEF DeleteCommit
<1>11. ASSUME NEW s \in Readers, Reads(s) PROVE ArtifactsOnDisk'
  BY <1>11 DEF Reads, ReadMissing, SearchRow, SearchIndexFile, FetchRow,
         FetchFiles, ReadBlobs
<1>12. CASE Crash
  BY <1>12 DEF Crash
<1>13. CASE UNCHANGED vars
  BY <1>13 DEF vars
<1> QED
  BY StepCases, <1>1, <1>2, <1>3, <1>4, <1>5, <1>6, <1>7, <1>8, <1>9, <1>10,
     <1>11, <1>12, <1>13

\* Unless an unlink, a commit or the process fails, a committed artifact is off
\* the disk only while the transaction that drops it is between its first unlink
\* and its commit.
THEOREM ArtifactsStay ==
  ASSUME OrderlyTransactions
  PROVE  Spec => []ArtifactsOnDisk
<1>1. Init => DiskInv
  BY DEF Init, DiskInv, StagedOnDisk, LoadedWritersSucceeded, DoomedIsReplaced,
         ArtifactsOnDisk, Artifact, Procs, NoArtifacts
<1>2. IInv /\ IInv' /\ DiskInv /\ [Next]_vars => DiskInv'
  BY StagedOnDiskStep, LoadedWritersSucceededStep, DoomedIsReplacedStep,
     ArtifactsOnDiskStep DEF IInv, DiskInv
<1>3. DiskInv => ArtifactsOnDisk
  BY DEF DiskInv
<1> QED
  BY <1>1, <1>2, <1>3, InvariantHolds, PTL DEF Spec

\* Under the same assumption a search or a fetch misses a blob only because its
\* artifact is replaced or deleted meanwhile.
THEOREM ReadErrorsExplained ==
  ASSUME OrderlyTransactions
  PROVE  Spec => ReadErrorMeansReplaced
<1>1. ASSUME IInv, ArtifactsOnDisk, [Next]_vars PROVE [ReadErrorExplained]_vars
  <2> SUFFICES ASSUME NEW s \in Readers, pc[s] = "opening", pc'[s] = "error"
               PROVE  ~(seen[s].files \cup seen[s].index \subseteq disk)
    BY <1>1 DEF ArtifactsOnDisk, ReadErrorExplained
  <2> USE ConstantsAssumption DEF IInv, TypeOK, Procs, Goto
  <2>1. ASSUME NEW r \in Requests, Starts(r) PROVE FALSE
    BY <1>1, <2>1 DEF Starts, StartMissing, StartConflict, StartFlush,
           StartRollback
  <2>2. ASSUME NEW r \in Requests, StartCommit(r) PROVE FALSE
    BY <1>1, <2>2 DEF StartCommit
  <2>3. ASSUME NEW r \in Requests, Prepares(r) PROVE FALSE
    BY <1>1, <2>3 DEF Prepares, JobBegin, JobBeginLost, JobRead, JobLoad
  <2>4. ASSUME NEW r \in Requests, Stages(r) PROVE FALSE
    BY <1>1, <2>4 DEF Stages, JobStage, JobStageError, JobStageAbort
  <2>5. ASSUME NEW r \in Requests, Flushes(r) PROVE FALSE
    BY <1>1, <2>5 DEF Flushes, JobFlush, JobFlushError
  <2>6. ASSUME NEW r \in Requests, JobCommit(r) PROVE FALSE
    BY <1>1, <2>6 DEF JobCommit
  <2>7. ASSUME NEW r \in Requests, Fails(r) PROVE FALSE
    BY <1>1, <2>7 DEF Fails, JobFail, JobFailLost
  <2>8. ASSUME NEW p \in Requests \cup Deleters, Removes(p) PROVE FALSE
    BY <1>1, <2>8 DEF Removes, RemoveArtifact, Rollback
  <2>9. ASSUME NEW d \in Deleters, Deletes(d) PROVE FALSE
    BY <1>1, <2>9 DEF Deletes, DeleteRead, DeleteFlush, DeleteFlushError
  <2>10. ASSUME NEW d \in Deleters, DeleteCommit(d) PROVE FALSE
    BY <1>1, <2>10 DEF DeleteCommit
  <2>11. ASSUME NEW q \in Readers, Reads(q)
        PROVE  ~(seen[s].files \cup seen[s].index \subseteq disk)
    <3>1. pc'[q] = "error" \/ s # q => ReadBlobs(q) \/ pc'[s] = pc[s]
      BY <1>1, <2>11 DEF Reads, ReadMissing, SearchRow, SearchIndexFile, FetchRow,
                  FetchFiles
    <3>2. s = q /\ ReadBlobs(q)
      BY <1>1, <2>11, <3>1 DEF ReadBlobs
    <3> QED
      BY <1>1, <3>2 DEF ReadBlobs
  <2>12. ~Crash /\ ~UNCHANGED vars
    BY <1>1 DEF Crash, Live, vars
  <2> QED
    BY <1>1, StepCases, <2>1, <2>2, <2>3, <2>4, <2>5, <2>6, <2>7, <2>8, <2>9,
       <2>10, <2>11, <2>12
<1>2. Spec => []ArtifactsOnDisk
  BY ArtifactsStay
<1>3. IInv /\ ArtifactsOnDisk /\ [Next]_vars => [ReadErrorExplained]_vars
  BY <1>1
<1> QED
  BY <1>2, <1>3, InvariantHolds, PTL DEF ReadErrorMeansReplaced, Spec

-----------------------------------------------------------------------------
(* Nothing is left on the disk *)

\* Staging fails with an OSError or not at all, and nobody deletes the
\* knowledge base: runs with either show what is left behind.
OrderlyJobs == OrderlyTransactions /\ "encode" \notin Faults /\ Deleters = {}

\* A step that writes neither a row nor a blob, and ends no job without removing
\* its outputs.
LEMMA NothingLeaked ==
  ASSUME LeakInv, UNCHANGED <<kb, rows>>, disk' \subseteq disk,
         \A q \in Requests : AtWork(q) =>
             \/ AtWork(q)' /\ Staged(q)' = Staged(q)
             \/ Staged(q) \cap disk' = {},
         \A q \in Requests : pc'[q] = "removing" =>
             (Replaced(q)' \ doomed'[q]) \cap disk' = {}
  PROVE  LeakInv'
<1>1. kb'.exists /\ rows' = Artifact' /\ RemovedIsGone'
  BY DEF LeakInv, Artifact, RemovedIsGone
<1>2. BlobsAccountedFor'
  <2> SUFFICES ASSUME NEW b \in disk', b \notin rows
               PROVE  \E q \in Requests : AtWork(q)' /\ b \in Staged(q)'
    BY DEF BlobsAccountedFor
  <2>1. PICK q \in Requests : AtWork(q) /\ b \in Staged(q)
    BY DEF LeakInv, BlobsAccountedFor
  <2> QED
    BY <2>1
<1> QED
  BY <1>1, <1>2 DEF LeakInv

\* The commit of a job replaces exactly the rows whose blobs it has unlinked.
LEMMA CommitLeaksNothing ==
  ASSUME IInv, LeakInv, Deleters = {}, NEW r \in Requests, JobCommit(r)
  PROVE  LeakInv'
<1> USE ConstantsAssumption DEF IInv, TypeOK, KnowledgeBase, Artifacts, Procs
<1>1. /\ pc[r] = "removing" /\ doomed[r] = {} /\ kb' = Published(r)
      /\ rows' = (rows \ Replaced(r)) \cup Staged(r)
      /\ pc' = [pc EXCEPT ![r] = "done"]
      /\ UNCHANGED <<disk, op, seen, written, doomed>>
  BY DEF JobCommit, Goto
<1>2. kb.exists /\ rows = kb.files \cup kb.index
  BY DEF LeakInv, Artifact
<1>3. seen[r].files = kb.files /\ seen[r].index = kb.index
  BY <1>1, <1>2 DEF LoadedIsCommitted, Loaded
<1>4. Replaced(r) \cap disk = {}
  BY <1>1 DEF LeakInv, RemovedIsGone
<1>5. kb'.exists /\ rows' = Artifact'
  <2>1. CASE op[r] = "conversion"
    <3>1. kb'.exists /\ kb'.files = Staged(r) /\ kb'.index = {}
      BY <1>1, <1>2, <2>1 DEF Published
    <3>2. rows \subseteq Replaced(r)
      BY <1>2, <1>3, <2>1 DEF Replaced
    <3> QED
      BY <1>1, <3>1, <3>2 DEF Artifact
  <2>2. CASE op[r] # "conversion"
    <3>1. kb'.exists /\ kb'.files = kb.files /\ kb'.index = Staged(r)
      BY <1>1, <1>2, <2>2 DEF Published
    <3>2. Replaced(r) = kb.index
      BY <1>3, <2>2 DEF Replaced
    <3>3. kb.files \cap kb.index = {}
      BY DEF WritersSucceeded, OutputOf
    <3> QED
      BY <1>1, <1>2, <3>1, <3>2, <3>3 DEF Artifact
  <2> QED
    BY <2>1, <2>2
<1>6. BlobsAccountedFor'
  <2> SUFFICES ASSUME NEW b \in disk, b \notin rows'
               PROVE  \E q \in Requests : AtWork(q)' /\ b \in Staged(q)'
    BY <1>1 DEF BlobsAccountedFor
  <2>1. b \notin rows
    BY <1>1, <1>4
  <2>2. PICK q \in Requests : AtWork(q) /\ b \in Staged(q)
    BY <2>1 DEF LeakInv, BlobsAccountedFor
  <2>3. q # r
    BY <1>1, <2>2
  <2>4. AtWork(q)' /\ Staged(q)' = Staged(q)
    BY <1>1, <2>2, <2>3 DEF AtWork, Staged
  <2> QED
    BY <2>2, <2>4
<1>7. RemovedIsGone'
  BY <1>1 DEF LeakInv, RemovedIsGone, Replaced
<1> QED
  BY <1>5, <1>6, <1>7 DEF LeakInv

\* A write is accounted for by the job at work, and its location is new.
LEMMA WriteIsStaged ==
  ASSUME IInv, LoadedWritersSucceeded, LeakInv, NEW r \in Requests, JobStage(r)
  PROVE  LeakInv'
<1> USE ConstantsAssumption DEF IInv, TypeOK, Procs
<1> DEFINE new == <<r, written[r] + 1>>
<1>1. /\ pc[r] = "staging" /\ disk' = disk \cup {new}
      /\ written' = [written EXCEPT ![r] = @ + 1]
      /\ UNCHANGED <<kb, rows, pc, op, seen, doomed>>
  BY DEF JobStage
<1>2. kb'.exists /\ rows' = Artifact'
  BY <1>1 DEF LeakInv, Artifact
<1>3. \A q \in Requests : Staged(q) \subseteq Staged(q)'
  BY <1>1 DEF Staged
<1>4. new \in Staged(r)' /\ AtWork(r)'
  BY <1>1 DEF Staged, AtWork
<1>5. BlobsAccountedFor'
  <2> SUFFICES ASSUME NEW b \in disk', b \notin rows
               PROVE  \E q \in Requests : AtWork(q)' /\ b \in Staged(q)'
    BY <1>1 DEF BlobsAccountedFor
  <2>1. CASE b = new
    BY <1>4, <2>1
  <2>2. CASE b # new
    <3>1. PICK q \in Requests : AtWork(q) /\ b \in Staged(q)
      BY <1>1, <2>2 DEF LeakInv, BlobsAccountedFor
    <3> QED
      BY <1>1, <1>3, <3>1 DEF AtWork
  <2> QED
    BY <2>1, <2>2
<1>6. ASSUME NEW q \in Requests PROVE new \notin Replaced(q)
  <2>1. task[r] # "SUCCESS"
    BY <1>1 DEF TaskFollowsJob
  <2>2. new \notin seen[q].files \cup seen[q].index
    BY <2>1 DEF LoadedWritersSucceeded, OutputOf
  <2> QED
    BY <2>2 DEF Replaced
<1>7. RemovedIsGone'
  <2>1. \A q \in Requests : Replaced(q)' = Replaced(q)
    BY <1>1 DEF Replaced
  <2>2. \A q \in Requests :
            pc[q] = "removing" => (Replaced(q) \ doomed[q]) \cap disk' = {}
    BY <1>1, <1>6 DEF LeakInv, RemovedIsGone
  <2> QED
    BY <1>1, <2>1, <2>2 DEF RemovedIsGone
<1> QED
  BY <1>1, <1>2, <1>5, <1>7 DEF LeakInv

LEMMA LeakInvStep ==
  ASSUME IInv, LoadedWritersSucceeded, LeakInv, OrderlyJobs, [Next]_vars
  PROVE  LeakInv'
<1> USE ConstantsAssumption DEF IInv, TypeOK, Procs, OrderlyJobs,
         OrderlyTransactions, Goto, AtWork, Replaced
<1> DEFINE Kept ==
             /\ UNCHANGED <<kb, rows>>
             /\ disk' \subseteq disk
             /\ \A q \in Requests : AtWork(q) =>
                    \/ AtWork(q)' /\ Staged(q)' = Staged(q)
                    \/ Staged(q) \cap disk' = {}
             /\ \A q \in Requests : pc'[q] = "removing" =>
                    (Replaced(q)' \ doomed'[q]) \cap disk' = {}
<1>0. Kept => LeakInv'
  BY NothingLeaked
<1>1. ASSUME NEW r \in Requests, Starts(r) PROVE Kept
  BY <1>1 DEF Starts, StartMissing, StartConflict, StartFlush, StartRollback,
         Staged, LeakInv, RemovedIsGone
<1>2. ASSUME NEW r \in Requests, StartCommit(r) PROVE LeakInv'
  <2>1. /\ rows' = rows /\ disk' = disk /\ seen' = seen /\ op' = op
        /\ doomed' = doomed /\ written' = written
        /\ kb'.exists = kb.exists /\ kb'.files = kb.files /\ kb'.index = kb.index
        /\ \A q \in Requests : AtWork(q) => pc'[q] = pc[q]
        /\ \A q \in Requests : pc'[q] = "removing" => pc[q] = "removing"
    BY <1>2 DEF StartCommit, KnowledgeBase
  <2>2. BlobsAccountedFor'
    BY <2>1 DEF LeakInv, BlobsAccountedFor, Staged
  <2>3. RemovedIsGone'
    BY <2>1 DEF LeakInv, RemovedIsGone
  <2> QED
    BY <2>1, <2>2, <2>3 DEF LeakInv, Artifact
<1>3. ASSUME NEW r \in Requests, Prepares(r) PROVE Kept
  BY <1>3 DEF Prepares, JobBegin, JobBeginLost, JobRead, JobLoad, Staged,
         LeakInv, RemovedIsGone
<1>4. ASSUME NEW r \in Requests, JobStageError(r) PROVE Kept
  <2>1. /\ UNCHANGED <<kb, rows, op, seen, written, doomed>>
        /\ pc' = [pc EXCEPT ![r] = "failing"]
        /\ disk' \subseteq disk /\ Staged(r) \cap disk' = {}
    BY <1>4 DEF JobStageError, RemoveStaged
  <2> QED
    BY <2>1 DEF Staged, LeakInv, RemovedIsGone
<1>5. ASSUME NEW r \in Requests, JobFlush(r) PROVE Kept
  BY <1>5 DEF JobFlush, Staged, LeakInv, RemovedIsGone
<1>6. ASSUME NEW r \in Requests, JobFlushError(r) PROVE Kept
  <2>1. /\ UNCHANGED <<kb, rows, op, seen, written, doomed>>
        /\ pc' = [pc EXCEPT ![r] = "failing"]
        /\ disk' \subseteq disk /\ Staged(r) \cap disk' = {}
    BY <1>6 DEF JobFlushError, RemoveStaged
  <2> QED
    BY <2>1 DEF Staged, LeakInv, RemovedIsGone
<1>7. ASSUME NEW r \in Requests, Fails(r) PROVE Kept
  BY <1>7 DEF Fails, JobFail, JobFailLost, Staged, LeakInv, RemovedIsGone
<1>8. ASSUME NEW p \in Requests \cup Deleters, Removes(p) PROVE Kept
  BY <1>8 DEF Removes, RemoveArtifact, Rollback, Staged, LeakInv, RemovedIsGone
<1>9. ASSUME NEW s \in Readers, Reads(s) PROVE Kept
  <2>1. /\ UNCHANGED <<kb, rows, disk, op, written, doomed>>
        /\ \A q \in Requests : seen'[q] = seen[q] /\ pc'[q] = pc[q]
    BY <1>9 DEF Reads, ReadMissing, SearchRow, SearchIndexFile, FetchRow,
           FetchFiles, ReadBlobs
  <2> QED
    BY <2>1 DEF Staged, LeakInv, RemovedIsGone
<1>10. ~Crash /\ (UNCHANGED vars => Kept)
  BY DEF Crash, vars, Staged, LeakInv, RemovedIsGone
<1>11. ASSUME NEW r \in Requests, Stages(r) \/ Flushes(r) PROVE LeakInv'
  BY <1>0, <1>4, <1>5, <1>6, <1>11, WriteIsStaged
     DEF Stages, Flushes, JobStageAbort
<1> HIDE DEF Kept
<1> QED
  BY StepCases, CommitLeaksNothing, <1>0, <1>1, <1>2, <1>3, <1>7, <1>8, <1>9,
     <1>10, <1>11

\* A conversion or indexing run that fails leaves no blob behind, and no
\* replaced artifact outlives the commit that replaces it, unless staging breaks
\* off without an OSError, an unlink, a commit or the process fails, or the
\* knowledge base is deleted.
THEOREM FailedJobsLeaveNothing ==
  ASSUME OrderlyJobs
  PROVE  Spec => []NoLeak
<1>1. Init => LeakInv /\ LoadedWritersSucceeded
  BY DEF Init, LeakInv, Artifact, BlobsAccountedFor, RemovedIsGone,
         LoadedWritersSucceeded, Procs, NoArtifacts
<1>2. /\ IInv /\ IInv' /\ LeakInv /\ LoadedWritersSucceeded /\ [Next]_vars
      => LeakInv' /\ LoadedWritersSucceeded'
  BY LeakInvStep, LoadedWritersSucceededStep DEF IInv, OrderlyJobs
<1>3. LeakInv => NoLeak
  BY DEF LeakInv, BlobsAccountedFor, AtWork, NoLeak
<1> QED
  BY <1>1, <1>2, <1>3, InvariantHolds, PTL DEF Spec

=============================================================================
