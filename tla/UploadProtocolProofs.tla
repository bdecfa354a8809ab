------------------------ MODULE UploadProtocolProofs ------------------------
(***************************************************************************)
(* Proofs about UploadProtocol, for every number of pages, files, ids and  *)
(* requests under way: its types, that a file is stored once, what is left *)
(* on disk, and what is stored when a page says so.  The assumptions on    *)
(* Faults below are those under which the code keeps its promises.         *)
(***************************************************************************)
EXTENDS UploadProtocol, TLAPS

\* What a page does that changes neither the cache nor the server.
Waits(t) ==
    Retry(t) \/ Unanswered(t) \/ ServerError(t) \/ Rejected(t)
        \/ Drop(t) \/ GiveUp(t) \/ Reload(t)

\* What a request does before its rows are flushed, or when it fails.
Prepares(q) ==
    CheckSource(q) \/ CheckLinks(q) \/ SelectError(q) \/ OpenBlob(q) \/
    WriteBlob(q) \/ WriteError(q) \/ FlushError(q) \/ RemoveBlob(q) \/ CleanUp(q)

LEMMA StepCases ==
  ASSUME [Next]_vars
  PROVE  \/ \E t \in Tabs : Select(t) /\ UNCHANGED serverVars
         \/ \E t \in Tabs : Waits(t) /\ UNCHANGED serverVars
         \/ \E t \in Tabs : Uploaded(t) /\ UNCHANGED serverVars
         \/ \E t \in Tabs, q \in Requests : Post(t, q)
         \/ \E q \in Requests : Prepares(q) /\ UNCHANGED menuVars
         \/ \E q \in Requests : Flush(q) /\ UNCHANGED menuVars
         \/ \E q \in Requests : Commit(q) /\ UNCHANGED menuVars
         \/ \E q \in Requests : CommitLost(q) /\ UNCHANGED menuVars
         \/ Delete /\ UNCHANGED menuVars
         \/ Crash /\ UNCHANGED menuVars
         \/ UNCHANGED vars
BY DEF Next, User, PageStep, PageFault, UploadStep, UploadFault, Terminated,
   Waits, Prepares

-----------------------------------------------------------------------------
(* Type correctness *)


LEMMA BatchIdsTyped ==
  ASSUME TypeInv, NEW t \in Tabs, page[t] # "idle", NEW b \in SUBSET todo[t]
  PROVE  BatchIds(t, b) \subseteq Ids
BY DEF TypeInv, TypeOK, MenuTypeOK, FilesHaveIds, BatchIds, Entry

\* The server's steps keep the server's types.
LEMMA ServerTypeOKStep ==
  ASSUME TypeInv, [Next]_vars
  PROVE  ServerTypeOK'
<1> USE DEF TypeInv, TypeOK, ServerTypeOK, LivePcs, Live, Answers, Blobs, stores,
         Goto, Answer, End, serverVars
<1>1. ASSUME NEW t \in Tabs, NEW q \in Requests, Post(t, q)
      PROVE  ServerTypeOK'
  <2>1. PICK b \in SUBSET todo[t] : Arrive(q, BatchIds(t, b))
    BY <1>1 DEF Post
  <2>2. BatchIds(t, b) \subseteq Ids
    BY <1>1, BatchIdsTyped DEF Post
  <2> QED
    BY <2>1, <2>2 DEF Arrive
<1>2. ASSUME NEW q \in Requests, CheckSource(q) PROVE ServerTypeOK'
  BY <1>2 DEF CheckSource
<1>3. ASSUME NEW q \in Requests, CheckLinks(q) PROVE ServerTypeOK'
  BY <1>3 DEF CheckLinks
<1>4. ASSUME NEW q \in Requests, SelectError(q) PROVE ServerTypeOK'
  BY <1>4 DEF SelectError
<1>5. ASSUME NEW q \in Requests, OpenBlob(q) PROVE ServerTypeOK'
  BY <1>5 DEF OpenBlob, Unlinked
<1>6. ASSUME NEW q \in Requests, WriteBlob(q) PROVE ServerTypeOK'
  BY <1>6 DEF WriteBlob
<1>7. ASSUME NEW q \in Requests, WriteError(q) PROVE ServerTypeOK'
  BY <1>7 DEF WriteError
<1>8. ASSUME NEW q \in Requests, FlushError(q) PROVE ServerTypeOK'
  BY <1>8 DEF FlushError
<1>9. ASSUME NEW q \in Requests, RemoveBlob(q) \/ CleanUp(q) PROVE ServerTypeOK'
  <2>1. CASE RemoveBlob(q)
    BY <2>1 DEF RemoveBlob, Removed
  <2>2. CASE CleanUp(q)
    BY <2>2 DEF CleanUp
  <2> QED
    BY <1>9, <2>1, <2>2
<1>10. ASSUME NEW q \in Requests, Flush(q) PROVE ServerTypeOK'
  BY <1>10 DEF Flush
<1>11. ASSUME NEW q \in Requests, Commit(q) PROVE ServerTypeOK'
  BY <1>11 DEF Commit, Unlinked
<1>12. ASSUME NEW q \in Requests, CommitLost(q) PROVE ServerTypeOK'
  BY <1>12 DEF CommitLost
<1>13. ASSUME Delete PROVE ServerTypeOK'
  BY <1>13 DEF Delete, DeleteFlush, DeleteCommit, DeleteLost
<1>14. ASSUME Crash PROVE ServerTypeOK'
  BY <1>14 DEF Crash
<1>15. CASE UNCHANGED serverVars
  BY <1>15
<1> QED
  BY <1>1, <1>2, <1>3, <1>4, <1>5, <1>6, <1>7, <1>8, <1>9, <1>10, <1>11, <1>12,
     <1>13, <1>14, <1>15, StepCases DEF Prepares, vars

\* Selecting files keeps the cache's types, and the ids drawn so far.
LEMMA SelectTyped ==
  ASSUME TypeInv, NEW t \in Tabs, Select(t)
  PROVE  /\ MenuTypeOK'
         /\ AttemptsLeft'
         /\ FilesHaveIds'
<1> USE MenuAssumption DEF TypeInv, TypeOK, MenuTypeOK, Entry, PagePcs
<1>1. PICK selected \in SUBSET Files :
        LET ready == {f \in selected : ~stored[f].uploaded}
            fresh == {f \in ready : stored[f].id = NoId}
        IN  /\ \E drawn \in [fresh -> {i \in Ids : fileOf[i] = NoId}] :
                LET entries == [f \in Files |->
                        IF f \in fresh THEN [id |-> drawn[f], uploaded |-> FALSE]
                                       ELSE stored[f]]
                IN  /\ fileOf' = [i \in Ids |->
                           IF \E f \in fresh : drawn[f] = i
                           THEN CHOOSE f \in fresh : drawn[f] = i ELSE fileOf[i]]
                    /\ cache' = [cache EXCEPT ![t] = entries]
                    /\ SaveIds(entries)
            /\ todo' = [todo EXCEPT ![t] = ready]
            /\ Show(t, IF ready = {} THEN "idle" ELSE "uploading")
  BY DEF Select
<1> DEFINE ready == {f \in selected : ~stored[f].uploaded}
           fresh == {f \in ready : stored[f].id = NoId}
<1>2. PICK drawn \in [fresh -> {i \in Ids : fileOf[i] = NoId}] :
        LET entries == [f \in Files |->
                IF f \in fresh THEN [id |-> drawn[f], uploaded |-> FALSE]
                               ELSE stored[f]]
        IN  /\ fileOf' = [i \in Ids |->
                   IF \E f \in fresh : drawn[f] = i
                   THEN CHOOSE f \in fresh : drawn[f] = i ELSE fileOf[i]]
            /\ cache' = [cache EXCEPT ![t] = entries]
            /\ SaveIds(entries)
  BY <1>1
<1> DEFINE entries == [f \in Files |->
                IF f \in fresh THEN [id |-> drawn[f], uploaded |-> FALSE]
                               ELSE stored[f]]
<1>3. entries \in [Files -> Entry]
  OBVIOUS
<1>4. \A f \in ready : entries[f].id # NoId
  OBVIOUS
<1>5. fileOf' \in [Ids -> Files \cup {NoId}]
  BY <1>2
<1>6. stored' \in [Files -> Entry]
  BY <1>2, <1>3 DEF SaveIds, SaveCache
<1>7. cache' = [cache EXCEPT ![t] = entries] /\ todo' = [todo EXCEPT ![t] = ready]
  BY <1>1, <1>2
<1>8. /\ batch' = [batch EXCEPT ![t] = {}]
      /\ attempt' = [attempt EXCEPT ![t] = 0]
      /\ call' = call
      /\ page' = [page EXCEPT ![t] = IF ready = {} THEN "idle" ELSE "uploading"]
  BY <1>1 DEF Select, Show
<1> HIDE DEF entries, ready
<1>9. MenuTypeOK'
  <2>1. cache' \in [Tabs -> [Files -> Entry]]
    BY <1>3, <1>7
  <2>2. ready \subseteq Files
    BY DEF ready
  <2>3. todo' \in [Tabs -> SUBSET Files]
    BY <1>7, <2>2
  <2>4. /\ batch' \in [Tabs -> SUBSET Files] /\ attempt' \in [Tabs -> 0 .. MaxAttempts]
        /\ call' \in [Tabs -> Requests \cup {NoRequest}] /\ page' \in [Tabs -> PagePcs]
    BY <1>8
  <2> QED
    BY <1>5, <1>6, <2>1, <2>3, <2>4
<1>10. AttemptsLeft'
  BY <1>8 DEF AttemptsLeft
<1>11. FilesHaveIds'
  BY <1>4, <1>7, <1>8 DEF FilesHaveIds
<1> QED
  BY <1>9, <1>10, <1>11

\* The pages' steps keep the pages' types.
LEMMA MenuStep ==
  ASSUME TypeInv, [Next]_vars
  PROVE  /\ MenuTypeOK'
         /\ AttemptsLeft'
         /\ FilesHaveIds'
<1> DEFINE Goal == MenuTypeOK' /\ AttemptsLeft' /\ FilesHaveIds'
<1> USE MenuAssumption DEF TypeInv, TypeOK, MenuTypeOK, PagePcs, AttemptsLeft,
        FilesHaveIds, Show
<1>1. ASSUME NEW t \in Tabs, Select(t) PROVE Goal
  BY <1>1, SelectTyped
<1>2. ASSUME NEW t \in Tabs, Retry(t) PROVE Goal
  BY <1>2 DEF Retry
<1>3. ASSUME NEW t \in Tabs, AttemptFailed(t), page[t] \in {"uploading", "waiting"},
             call' \in {call, [call EXCEPT ![t] = NoRequest]},
             UNCHANGED <<fileOf, stored, cache, todo, batch>>
      PROVE  Goal
  <2>1. attempt' \in [Tabs -> 0 .. MaxAttempts]
    BY <1>3 DEF AttemptFailed
  <2>2. /\ page' = [page EXCEPT ![t] = IF attempt[t] + 1 < MaxAttempts
                                       THEN "uploading" ELSE "failed"]
        /\ attempt' = [attempt EXCEPT ![t] = attempt[t] + 1]
    BY <1>3 DEF AttemptFailed
  <2>3. AttemptsLeft'
    BY <2>1, <2>2
  <2>4. FilesHaveIds'
    BY <1>3, <2>2
  <2>5. page' \in [Tabs -> PagePcs] /\ call' \in [Tabs -> Requests \cup {NoRequest}]
    BY <1>3, <2>2
  <2> QED
    BY <1>3, <2>1, <2>3, <2>4, <2>5
<1>4. ASSUME NEW t \in Tabs, Unanswered(t) PROVE Goal
  BY <1>3, <1>4 DEF Unanswered, NoResult
<1>12. ASSUME NEW t \in Tabs, GiveUp(t) PROVE Goal
  BY <1>3, <1>12 DEF GiveUp, NoResult
<1>5. ASSUME NEW t \in Tabs, ServerError(t) PROVE Goal
  BY <1>3, <1>5 DEF ServerError, NoResult
<1>6. ASSUME NEW t \in Tabs, Drop(t) PROVE Goal
  BY <1>3, <1>6 DEF Drop
<1>7. ASSUME NEW t \in Tabs, Rejected(t) PROVE Goal
  BY <1>7 DEF Rejected
<1>8. ASSUME NEW t \in Tabs, Reload(t) PROVE Goal
  BY <1>8 DEF Reload
<1>9. ASSUME NEW t \in Tabs, Uploaded(t) PROVE Goal
  <2> DEFINE entries == [f \in Files |-> IF f \in Marked(t)
                           THEN [cache[t][f] EXCEPT !.uploaded = TRUE]
                           ELSE cache[t][f]]
  <2>1. entries \in [Files -> Entry] /\ \A f \in Files : entries[f].id = cache[t][f].id
    <3>1. ASSUME NEW f \in Files
          PROVE  /\ cache[t][f] \in Entry
                 /\ [cache[t][f] EXCEPT !.uploaded = TRUE] \in Entry
                 /\ [cache[t][f] EXCEPT !.uploaded = TRUE].id = cache[t][f].id
      <4>1. cache[t][f] \in Entry
        OBVIOUS
      <4> QED
        BY <4>1 DEF Entry
    <3> QED
      BY <3>1
  <2>2. cache' = [cache EXCEPT ![t] = entries] /\ stored' \in [Files -> Entry]
    BY <1>9, <2>1 DEF Uploaded, SaveCache
  <2> HIDE DEF entries
  <2>3. /\ fileOf' = fileOf
        /\ todo' = [todo EXCEPT ![t] = @ \ batch[t]]
        /\ batch' = [batch EXCEPT ![t] = {}]
        /\ attempt' = [attempt EXCEPT ![t] = 0]
        /\ call' = [call EXCEPT ![t] = NoRequest]
        /\ page' = [page EXCEPT ![t] = IF todo[t] = batch[t] THEN "idle" ELSE "uploading"]
        /\ page[t] = "waiting"
    BY <1>9 DEF Uploaded
  <2>4. cache' \in [Tabs -> [Files -> Entry]]
    BY <2>1, <2>2
  <2>5. MenuTypeOK'
    BY <2>2, <2>3, <2>4
  <2>6. AttemptsLeft'
    BY <2>3
  <2>7. FilesHaveIds'
    BY <2>1, <2>2, <2>3
  <2> QED
    BY <2>5, <2>6, <2>7
<1>10. ASSUME NEW t \in Tabs, NEW q \in Requests, Post(t, q) PROVE Goal
  <2>1. PICK b \in SUBSET todo[t] : batch' = [batch EXCEPT ![t] = b]
    BY <1>10 DEF Post
  <2>2. batch' \in [Tabs -> SUBSET Files]
    BY <2>1
  <2> QED
    BY <1>10, <2>1, <2>2 DEF Post
<1>11. CASE UNCHANGED menuVars
  BY <1>11 DEF menuVars
<1> QED
  BY <1>1, <1>2, <1>4, <1>5, <1>6, <1>7, <1>8, <1>9, <1>10, <1>11, <1>12,
     StepCases
     DEF Waits, vars

LEMMA TypeInvStep == TypeInv /\ [Next]_vars => TypeInv'
BY ServerTypeOKStep, MenuStep DEF TypeInv, TypeOK

LEMMA InitTypeInv == Init => TypeInv
BY MenuAssumption DEF Init, ServerInit, MenuInit, TypeInv, TypeOK, ServerTypeOK,
   MenuTypeOK, AttemptsLeft, FilesHaveIds, LivePcs, Answers, Blobs, PagePcs,
   Entry, NoEntry

\* The rows, the blobs, the caches and the pages keep their types.
THEOREM UploadTypeCorrect == Spec => []TypeOK
<1>1. Spec => []TypeInv
  BY InitTypeInv, TypeInvStep, PTL DEF Spec
<1>2. TypeInv => TypeOK
  BY DEF TypeInv
<1> QED
  BY <1>1, <1>2, PTL

-----------------------------------------------------------------------------
(* Every file is stored once *)

LEMMA InitIdsInv == Init => IdsInv
BY InitTypeInv, MenuAssumption
   DEF Init, ServerInit, MenuInit, IdsInv, CacheKeepsIds, CachedIdsDrawn,
       PageFollowsCache, SentIdsDrawn, NoEntry

\* One page works on the cache, and what it stores there stays.
OnePage == (\A t, u \in Tabs : t = u) /\ "storage" \notin Faults

\* A selected file without an id draws one, which nothing else has or had.
LEMMA SelectKeepsIds ==
  ASSUME IdsInv, OnePage, NEW t \in Tabs, Select(t), UNCHANGED serverVars
  PROVE  /\ CacheKeepsIds' /\ CachedIdsDrawn' /\ PageFollowsCache' /\ SentIdsDrawn'
         /\ \A i \in Ids : fileOf[i] # NoId => fileOf'[i] = fileOf[i]
         /\ \A f \in Files : stored'[f].uploaded <=> stored[f].uploaded
<1> USE MenuAssumption DEF IdsInv, TypeInv, TypeOK, MenuTypeOK, Entry
<1>1. PICK selected \in SUBSET Files :
        LET ready == {f \in selected : ~stored[f].uploaded}
            fresh == {f \in ready : stored[f].id = NoId}
        IN  \E drawn \in [fresh -> {i \in Ids : fileOf[i] = NoId}] :
                LET entries == [f \in Files |->
                        IF f \in fresh THEN [id |-> drawn[f], uploaded |-> FALSE]
                                       ELSE stored[f]]
                IN  /\ \A f, g \in fresh : drawn[f] = drawn[g] => f = g
                    /\ fileOf' = [i \in Ids |->
                           IF \E f \in fresh : drawn[f] = i
                           THEN CHOOSE f \in fresh : drawn[f] = i ELSE fileOf[i]]
                    /\ cache' = [cache EXCEPT ![t] = entries]
                    /\ SaveIds(entries)
  BY DEF Select
<1> DEFINE fresh == {f \in {g \in selected : ~stored[g].uploaded} : stored[f].id = NoId}
<1>2. PICK drawn \in [fresh -> {i \in Ids : fileOf[i] = NoId}] :
        LET entries == [f \in Files |->
                IF f \in fresh THEN [id |-> drawn[f], uploaded |-> FALSE]
                               ELSE stored[f]]
        IN  /\ \A f, g \in fresh : drawn[f] = drawn[g] => f = g
            /\ fileOf' = [i \in Ids |->
                   IF \E f \in fresh : drawn[f] = i
                   THEN CHOOSE f \in fresh : drawn[f] = i ELSE fileOf[i]]
            /\ cache' = [cache EXCEPT ![t] = entries]
            /\ SaveIds(entries)
  BY <1>1
<1>3. \A f \in fresh : f \in Files /\ stored[f].id = NoId /\ ~stored[f].uploaded
  OBVIOUS
<1>4. /\ \A f \in fresh : drawn[f] \in Ids /\ fileOf[drawn[f]] = NoId
      /\ \A f, g \in fresh : drawn[f] = drawn[g] => f = g
  BY <1>2
<1>5. stored' = [f \in Files |->
                IF f \in fresh THEN [id |-> drawn[f], uploaded |-> FALSE]
                               ELSE stored[f]]
  BY <1>2 DEF SaveIds, SaveCache, OnePage
<1>6. cache'[t] = stored' /\ \A u \in Tabs : u = t
  BY <1>2, <1>5 DEF OnePage
<1>7. ASSUME NEW i \in Ids, ~\E f \in fresh : drawn[f] = i
      PROVE  fileOf'[i] = fileOf[i]
  BY <1>2, <1>7
<1>8. ASSUME NEW f \in fresh
      PROVE  fileOf'[drawn[f]] = f
  <2>1. (CHOOSE g \in fresh : drawn[g] = drawn[f]) = f
    BY <1>4
  <2> QED
    BY <1>2, <1>4, <2>1
<1> HIDE DEF fresh
<1>9. CacheKeepsIds'
  <2> SUFFICES ASSUME NEW i \in Ids, fileOf'[i] # NoId
               PROVE  stored'[fileOf'[i]].id = i
    BY DEF CacheKeepsIds
  <2>1. CASE \E f \in fresh : drawn[f] = i
    BY <1>3, <1>5, <1>8, <2>1
  <2>2. CASE ~\E f \in fresh : drawn[f] = i
    <3>1. fileOf'[i] = fileOf[i] /\ fileOf[i] \in Files /\ stored[fileOf[i]].id = i
      BY <1>7, <2>2 DEF CacheKeepsIds
    <3>2. fileOf[i] \notin fresh
      BY <1>3, <3>1
    <3> QED
      BY <1>5, <3>1, <3>2
  <2> QED
    BY <2>1, <2>2
<1>10. CachedIdsDrawn'
  <2> SUFFICES ASSUME NEW f \in Files, stored'[f].id # NoId
               PROVE  fileOf'[stored'[f].id] = f
    BY DEF CachedIdsDrawn
  <2>1. CASE f \in fresh
    BY <1>5, <1>8, <2>1
  <2>2. CASE f \notin fresh
    <3>1. stored'[f] = stored[f]
      BY <1>5, <2>2
    <3>2. fileOf[stored[f].id] = f /\ stored[f].id \in Ids
      BY <3>1 DEF CachedIdsDrawn
    <3>3. ~\E g \in fresh : drawn[g] = stored[f].id
      BY <1>4, <3>2
    <3> QED
      BY <1>7, <3>1, <3>2, <3>3
  <2> QED
    BY <2>1, <2>2
<1>11. PageFollowsCache'
  BY <1>6 DEF PageFollowsCache
<1>12. \A i \in Ids : fileOf[i] # NoId => fileOf'[i] = fileOf[i]
  BY <1>4, <1>7
<1>13. SentIdsDrawn'
  BY <1>12 DEF SentIdsDrawn, serverVars, ServerTypeOK
<1>14. \A f \in Files : stored'[f].uploaded <=> stored[f].uploaded
  BY <1>3, <1>5
<1> QED
  BY <1>9, <1>10, <1>11, <1>12, <1>13, <1>14

LEMMA IdsInvStep ==
  ASSUME IdsInv, OnePage, [Next]_vars
  PROVE  IdsInv'
<1> DEFINE Goal == CacheKeepsIds' /\ CachedIdsDrawn' /\ PageFollowsCache' /\ SentIdsDrawn'
<1> USE DEF CacheKeepsIds, CachedIdsDrawn, PageFollowsCache, SentIdsDrawn
<1>1. ASSUME NEW t \in Tabs, Select(t), UNCHANGED serverVars PROVE Goal
  BY <1>1, SelectKeepsIds
<1>2. ASSUME NEW t \in Tabs, Waits(t), UNCHANGED serverVars PROVE Goal
  <2>1. /\ UNCHANGED <<fileOf, stored, cache>>
        /\ \A u \in Tabs : page'[u] # "idle" => page[u] # "idle"
    BY <1>2 DEF Waits, Retry, Unanswered, ServerError, Rejected, Drop, GiveUp, Reload,
       NoResult, AttemptFailed, Show, IdsInv, TypeInv, TypeOK, MenuTypeOK
  <2> QED
    BY <1>2, <2>1 DEF serverVars, IdsInv
<1>3. ASSUME NEW t \in Tabs, Uploaded(t), UNCHANGED serverVars PROVE Goal
  <2> DEFINE entries == [f \in Files |-> IF f \in Marked(t)
                           THEN [cache[t][f] EXCEPT !.uploaded = TRUE]
                           ELSE cache[t][f]]
  <2>1. ASSUME NEW f \in Files PROVE entries[f].id = cache[t][f].id
    <3>1. cache[t][f] \in Entry
      BY DEF IdsInv, TypeInv, TypeOK, MenuTypeOK
    <3> QED
      BY <3>1 DEF Entry
  <2>2. cache' = [cache EXCEPT ![t] = entries] /\ stored' = entries /\ fileOf' = fileOf
    BY <1>3 DEF Uploaded, SaveCache, OnePage
  <2> HIDE DEF entries
  <2>3. \A f \in Files : entries[f].id = stored[f].id
    BY <1>3, <2>1 DEF Uploaded, IdsInv
  <2>4. cache'[t] = stored' /\ \A u \in Tabs : u = t
    BY <2>2 DEF OnePage, IdsInv, TypeInv, TypeOK, MenuTypeOK
  <2>5. \A f \in Files : stored'[f].id = stored[f].id
    BY <2>2, <2>3
  <2> QED
    BY <1>3, <2>2, <2>4, <2>5, MenuAssumption
       DEF serverVars, IdsInv, TypeInv, TypeOK, MenuTypeOK
<1>4. ASSUME NEW t \in Tabs, NEW q \in Requests, Post(t, q) PROVE Goal
  <2>1. PICK b \in SUBSET todo[t] : Arrive(q, BatchIds(t, b))
    BY <1>4 DEF Post
  <2>2. ASSUME NEW i \in BatchIds(t, b) PROVE fileOf[i] # NoId
    <3>1. PICK f \in b : i = cache[t][f].id
      BY DEF BatchIds
    <3>2. f \in Files /\ page[t] # "idle" /\ cache[t][f].id # NoId
      BY <1>4 DEF Post, IdsInv, TypeInv, TypeOK, MenuTypeOK, FilesHaveIds
    <3> QED
      BY <3>1, <3>2, MenuAssumption DEF IdsInv
  <2>3. ids' = [ids EXCEPT ![q] = BatchIds(t, b)] /\ rows' = rows
    BY <2>1 DEF Arrive, stores
  <2>4. UNCHANGED <<fileOf, stored, cache>> /\ page[t] # "idle"
    BY <1>4 DEF Post
  <2>5. \A u \in Tabs : page'[u] # "idle" => page[u] # "idle"
    BY <1>4, <2>4 DEF Post, Show, IdsInv, TypeInv, TypeOK, MenuTypeOK
  <2> QED
    BY <2>2, <2>3, <2>4, <2>5
       DEF IdsInv, TypeInv, TypeOK, ServerTypeOK
<1>5. ASSUME UNCHANGED menuVars,
             \A q \in Requests : ids'[q] \subseteq ids[q],
             rows' \subseteq rows \cup UNION {ids[q] : q \in Requests}
      PROVE  Goal
  BY <1>5 DEF menuVars, IdsInv
<1>6. ASSUME NEW q \in Requests, Prepares(q), UNCHANGED menuVars PROVE Goal
  BY <1>5, <1>6 DEF Prepares, CheckSource, CheckLinks, SelectError, OpenBlob,
     WriteBlob, WriteError, FlushError, RemoveBlob, CleanUp, End, stores, IdsInv, TypeInv,
     TypeOK, ServerTypeOK
<1>7. ASSUME NEW q \in Requests, Flush(q), UNCHANGED menuVars PROVE Goal
  BY <1>5, <1>7 DEF Flush, stores, IdsInv, TypeInv, TypeOK, ServerTypeOK
<1>12. ASSUME NEW q \in Requests, CommitLost(q), UNCHANGED menuVars PROVE Goal
  BY <1>5, <1>12 DEF CommitLost, End, stores, IdsInv, TypeInv, TypeOK, ServerTypeOK
<1>8. ASSUME NEW q \in Requests, Commit(q), UNCHANGED menuVars PROVE Goal
  BY <1>5, <1>8 DEF Commit, End, Unlinked, IdsInv, TypeInv, TypeOK, ServerTypeOK
<1>9. ASSUME Delete, UNCHANGED menuVars PROVE Goal
  BY <1>5, <1>9 DEF Delete, DeleteFlush, DeleteCommit, DeleteLost, IdsInv,
     TypeInv, TypeOK, ServerTypeOK
<1>13. ASSUME Crash, UNCHANGED menuVars PROVE Goal
  BY <1>5, <1>13 DEF Crash, IdsInv, TypeInv, TypeOK, ServerTypeOK
<1>10. ASSUME UNCHANGED vars PROVE Goal
  <2>1. UNCHANGED menuVars /\ UNCHANGED serverVars
    BY <1>10 DEF vars
  <2>2. UNCHANGED <<ids, rows>>
    BY <2>1 DEF serverVars
  <2> QED
    BY <1>5, <2>1, <2>2
<1> HIDE DEF Goal, CacheKeepsIds, CachedIdsDrawn, PageFollowsCache, SentIdsDrawn
<1>11. Goal
  BY <1>1, <1>2, <1>3, <1>4, <1>6, <1>7, <1>8, <1>9, <1>10, <1>12, <1>13, StepCases
<1> QED
  BY <1>11, TypeInvStep DEF IdsInv, Goal

LEMMA IdsInvImpliesStoredOnce == IdsInv => StoredOnce
BY DEF IdsInv, CacheKeepsIds, SentIdsDrawn, StoredOnce, TypeInv, TypeOK, ServerTypeOK

\* With one page at work and a storage that stores, a file is stored at most
\* once, whatever else fails and however often it is tried again.
THEOREM FilesStoredOnce ==
  ASSUME OnePage
  PROVE  Spec => []StoredOnce
<1>1. IdsInv /\ [Next]_vars => IdsInv'
  BY IdsInvStep
<1> QED
  BY InitIdsInv, <1>1, IdsInvImpliesStoredOnce, PTL DEF Spec

-----------------------------------------------------------------------------
(* What is left on disk, and what is stored when a page says so *)

\* No write fails half way, and no transaction is lost.
CleanFailures == Faults \cap {"io", "unlink", "commit", "crash"} = {}

\* A transaction that has been flushed commits.
NoLoss == Faults \cap {"commit", "crash"} = {}

-----------------------------------------------------------------------------
(* An upload that fails leaves nothing behind *)

LEMMA InitBlobInv == Init => BlobInv
BY InitTypeInv DEF Init, ServerInit, BlobInv, BlobsAreOpened, NoOrphanBlob

\* A step that neither writes nor forgets an opened blob.
LEMMA BlobInvKept ==
  ASSUME BlobInv,
         disk' = disk, rows \subseteq rows',
         \A q \in Requests :
            /\ opened'[q] = opened[q] /\ staged'[q] = staged[q]
            /\ opened[q] # {} => Unlinked(q)' = Unlinked(q) /\ Live(q)'
            /\ pc'[q] \in {"idle", "arrived", "checking"} => opened[q] = {}
            /\ pc'[q] \in {"cleaning", "committing"} => opened[q] = staged[q]
  PROVE  BlobsAreOpened' /\ NoOrphanBlob'
<1>1. BlobsAreOpened'
  BY DEF BlobInv, BlobsAreOpened
<1>2. NoOrphanBlob'
  BY DEF BlobInv, NoOrphanBlob
<1> QED
  BY <1>1, <1>2

LEMMA BlobInvStep ==
  ASSUME BlobInv, CleanFailures, [Next]_vars
  PROVE  BlobInv'
<1> DEFINE Goal == BlobsAreOpened' /\ NoOrphanBlob'
<1> USE DEF CleanFailures
<1>1. ASSUME UNCHANGED serverVars PROVE Goal
  BY <1>1 DEF serverVars, BlobInv, BlobsAreOpened, NoOrphanBlob, Live, Unlinked
<1>2. ASSUME NEW t \in Tabs, NEW q \in Requests, Post(t, q) PROVE Goal
  <2>1. PICK b \in SUBSET todo[t] : Arrive(q, BatchIds(t, b))
    BY <1>2 DEF Post
  <2>2. /\ pc[q] = "idle" /\ opened[q] = {}
        /\ pc' = [pc EXCEPT ![q] = "arrived"]
        /\ ids' = [ids EXCEPT ![q] = BatchIds(t, b)]
        /\ UNCHANGED <<disk, rows, known, opened, staged>>
    BY <2>1 DEF Arrive, Goto, stores, BlobInv, BlobsAreOpened
  <2>3. \A p \in Requests : p # q => pc'[p] = pc[p] /\ Unlinked(p)' = Unlinked(p)
    BY <2>2 DEF Unlinked, BlobInv, TypeInv, TypeOK, ServerTypeOK
  <2>4. pc'[q] = "arrived"
    BY <2>2 DEF BlobInv, TypeInv, TypeOK, ServerTypeOK
  <2>5. \A p \in Requests : opened[p] # {} => Live(p)'
    BY <2>2, <2>3 DEF Live, LivePcs, BlobInv, BlobsAreOpened, TypeInv, TypeOK, ServerTypeOK
  <2> QED
    BY <2>2, <2>3, <2>4, <2>5, BlobInvKept DEF BlobInv, BlobsAreOpened
<1> USE DEF BlobInv, BlobsAreOpened, TypeInv, TypeOK, ServerTypeOK, Live, LivePcs,
        Unlinked, Goto, stores, End
<1>3. ASSUME NEW q \in Requests, CheckSource(q) PROVE Goal
  <2>1. opened[q] = {} /\ staged[q] = {}
    BY <1>3 DEF CheckSource
  <2>2. disk' = disk /\ rows' = rows /\ pc'[q] \in {"idle", "checking"}
    BY <1>3 DEF CheckSource
  <2>3. opened'[q] = {} /\ staged'[q] = {}
    BY <1>3, <2>1 DEF CheckSource
  <2>4. ASSUME NEW p \in Requests, p # q
        PROVE  /\ pc'[p] = pc[p] /\ ids'[p] = ids[p] /\ known'[p] = known[p]
               /\ opened'[p] = opened[p] /\ staged'[p] = staged[p]
    BY <1>3, <2>4 DEF CheckSource
  <2> QED
    BY <2>1, <2>2, <2>3, <2>4, BlobInvKept
<1>4. ASSUME NEW q \in Requests, CheckLinks(q) PROVE Goal
  <2>1. opened[q] = {} /\ staged[q] = {}
    BY <1>4 DEF CheckLinks
  <2>2. disk' = disk /\ rows' = rows /\ pc'[q] \in {"idle", "writing"}
    BY <1>4 DEF CheckLinks
  <2>3. opened'[q] = {} /\ staged'[q] = {}
    BY <1>4, <2>1 DEF CheckLinks
  <2>4. ASSUME NEW p \in Requests, p # q
        PROVE  /\ pc'[p] = pc[p] /\ ids'[p] = ids[p] /\ known'[p] = known[p]
               /\ opened'[p] = opened[p] /\ staged'[p] = staged[p]
    BY <1>4, <2>4 DEF CheckLinks
  <2> QED
    BY <2>1, <2>2, <2>3, <2>4, BlobInvKept
<1>5. ASSUME NEW q \in Requests, SelectError(q) PROVE Goal
  <2>1. opened[q] = {} /\ staged[q] = {}
    BY <1>5 DEF SelectError
  <2>2. disk' = disk /\ rows' = rows /\ pc'[q] \in {"idle"}
    BY <1>5 DEF SelectError
  <2>3. opened'[q] = {} /\ staged'[q] = {}
    BY <1>5, <2>1 DEF SelectError
  <2>4. ASSUME NEW p \in Requests, p # q
        PROVE  /\ pc'[p] = pc[p] /\ ids'[p] = ids[p] /\ known'[p] = known[p]
               /\ opened'[p] = opened[p] /\ staged'[p] = staged[p]
    BY <1>5, <2>4 DEF SelectError
  <2> QED
    BY <2>1, <2>2, <2>3, <2>4, BlobInvKept
<1>6. ASSUME NEW q \in Requests, OpenBlob(q) PROVE Goal
  BY <1>6 DEF OpenBlob, NoOrphanBlob
<1>7. ASSUME NEW q \in Requests, WriteBlob(q) PROVE Goal
  BY <1>7 DEF WriteBlob, NoOrphanBlob
<1>8. ASSUME NEW q \in Requests, Flush(q) PROVE Goal
  <2>1. opened[q] = staged[q] /\ pc' = [pc EXCEPT ![q] = "committing"]
    BY <1>8 DEF Flush, ReadyToFlush
  <2>2. UNCHANGED <<disk, rows, ids, known, opened, staged>>
    BY <1>8 DEF Flush
  <2> QED
    BY <2>1, <2>2, BlobInvKept
<1>9. ASSUME NEW q \in Requests, FlushError(q) PROVE Goal
  <2>1. opened[q] = staged[q] /\ pc' = [pc EXCEPT ![q] = "cleaning"]
    BY <1>9 DEF FlushError, ReadyToFlush
  <2>2. UNCHANGED <<disk, rows, ids, known, opened, staged>>
    BY <1>9 DEF FlushError
  <2> QED
    BY <2>1, <2>2, BlobInvKept
<1>10. ASSUME NEW q \in Requests, RemoveBlob(q) \/ CleanUp(q) PROVE Goal
  <2>1. CASE RemoveBlob(q)
    <3>1. PICK i \in staged[q] :
            /\ opened' = [opened EXCEPT ![q] = @ \ {i}]
            /\ staged' = [staged EXCEPT ![q] = @ \ {i}]
            /\ disk' = [disk EXCEPT ![i] = "none"]
      BY <2>1 DEF RemoveBlob, Removed
    <3>2. pc[q] = "cleaning" /\ UNCHANGED <<rows, pc, ids, known>>
      BY <2>1 DEF RemoveBlob
    <3>3. /\ opened'[q] = opened[q] \ {i} /\ staged'[q] = staged[q] \ {i}
          /\ disk'[i] = "none" /\ \A j \in Ids \ {i} : disk'[j] = disk[j]
          /\ \A p \in Requests \ {q} : opened'[p] = opened[p] /\ staged'[p] = staged[p]
      BY <3>1
    <3>4. \A p \in Requests : Unlinked(p)' = Unlinked(p)
      BY <3>2 DEF Unlinked
    <3>5. BlobsAreOpened'
      BY <3>2, <3>3, <3>4
    <3>6. NoOrphanBlob'
      BY <3>2, <3>3 DEF NoOrphanBlob
    <3> QED
      BY <3>5, <3>6
  <2>2. CASE CleanUp(q)
    <3>1. opened[q] = {} /\ staged[q] = {}
      BY <2>2 DEF CleanUp, Removed
    <3>2. disk' = disk /\ rows' = rows /\ pc'[q] \in {"idle"}
      BY <2>2 DEF CleanUp
    <3>3. opened'[q] = {} /\ staged'[q] = {}
      BY <2>2 DEF CleanUp
    <3>4. ASSUME NEW p \in Requests, p # q
          PROVE  /\ pc'[p] = pc[p] /\ ids'[p] = ids[p] /\ known'[p] = known[p]
                 /\ opened'[p] = opened[p] /\ staged'[p] = staged[p]
      BY <2>2, <3>4 DEF CleanUp
    <3> QED
      BY <3>1, <3>2, <3>3, <3>4, BlobInvKept
  <2> QED
    BY <1>10, <2>1, <2>2
<1>11. ASSUME NEW q \in Requests, Commit(q) PROVE Goal
  BY <1>11 DEF Commit, NoOrphanBlob
<1>12. ASSUME Delete PROVE Goal
  BY <1>12, BlobInvKept DEF Delete, DeleteFlush, DeleteCommit, DeleteLost
<1> HIDE DEF Goal
<1>13. Goal
  BY <1>1, <1>2, <1>3, <1>4, <1>5, <1>6, <1>7, <1>8, <1>9, <1>10, <1>11, <1>12,
     StepCases
     DEF Prepares, WriteError, CommitLost, Crash, vars
<1> QED
  BY <1>13, TypeInvStep DEF Goal

\* A failed upload, a refused one and a deleted source leave no blob without a
\* files row, as long as writing, removing and committing succeed.
THEOREM FailedUploadsLeaveNothing ==
  ASSUME CleanFailures
  PROVE  Spec => []NoOrphanBlob
<1>1. BlobInv /\ [Next]_vars => BlobInv'
  BY BlobInvStep
<1>2. BlobInv => NoOrphanBlob
  BY DEF BlobInv
<1> QED
  BY InitBlobInv, <1>1, <1>2, PTL DEF Spec

-----------------------------------------------------------------------------
(* A file that is reported as uploaded is stored *)

LEMMA InitHeldInv == Init => HeldInv
BY InitTypeInv DEF Init, ServerInit, MenuInit, HeldInv, LinksAreRows, KnownAreRows,
   AnswersPending, CallsMatchBatches, UploadedAreHeld, Held, Committing, Live,
   LivePcs, NoEntry

\* What the pages rely on when a step of the server is taken.
CallsHonoured ==
    /\ Held \subseteq Held'
    /\ \A q \in Requests :
          /\ Live(q)' => Live(q) /\ ids'[q] = ids[q]
          /\ answer'[q] = "ok" => answer[q] = "ok" \/ (Live(q) /\ ids[q] \subseteq Held')

ServerKeeps ==
    LinksAreRows' /\ KnownAreRows' /\ AnswersPending' /\ CallsHonoured

LEMMA CallsKept ==
  ASSUME HeldInv, CallsHonoured, UNCHANGED menuVars
  PROVE  CallsMatchBatches' /\ UploadedAreHeld'
<1> USE DEF HeldInv, CallsHonoured, menuVars
<1>1. UploadedAreHeld'
  BY DEF UploadedAreHeld
<1>2. \A t \in Tabs : BatchIds(t, batch[t])' = BatchIds(t, batch[t])
  BY DEF BatchIds
<1>3. CallsMatchBatches'
  <2> SUFFICES ASSUME NEW t \in Tabs, page[t] = "waiting"
               PROVE  /\ call[t] \in Requests
                      /\ Live(call[t])' => ids'[call[t]] = BatchIds(t, batch[t])
                      /\ answer'[call[t]] = "ok" => BatchIds(t, batch[t]) \subseteq Held'
    BY <1>2 DEF CallsMatchBatches
  <2> QED
    BY DEF CallsMatchBatches
<1> QED
  BY <1>1, <1>3

LEMMA ServerHeldStep ==
  ASSUME HeldInv, NoLoss,
         \/ \E q \in Requests : Prepares(q) \/ Flush(q) \/ Commit(q) \/ CommitLost(q)
         \/ Delete \/ Crash
  PROVE  ServerKeeps
<1> USE DEF HeldInv, ServerKeeps, CallsHonoured, LinksAreRows, KnownAreRows,
        AnswersPending, Held, Committing, Live, LivePcs, TypeInv, TypeOK,
        ServerTypeOK, stores, Goto, Answer, End, Unlinked, NoLoss
<1>1. ASSUME NEW q \in Requests, CheckSource(q) PROVE ServerKeeps
  BY <1>1 DEF CheckSource
<1>2. ASSUME NEW q \in Requests, CheckLinks(q) PROVE ServerKeeps
  BY <1>2 DEF CheckLinks
<1>3. ASSUME NEW q \in Requests, SelectError(q) PROVE ServerKeeps
  BY <1>3 DEF SelectError
<1>4. ASSUME NEW q \in Requests, OpenBlob(q) PROVE ServerKeeps
  BY <1>4 DEF OpenBlob
<1>5. ASSUME NEW q \in Requests, WriteBlob(q) PROVE ServerKeeps
  BY <1>5 DEF WriteBlob
<1>6. ASSUME NEW q \in Requests, WriteError(q) PROVE ServerKeeps
  BY <1>6 DEF WriteError
<1>7. ASSUME NEW q \in Requests, FlushError(q) PROVE ServerKeeps
  BY <1>7 DEF FlushError, ReadyToFlush
<1>8. ASSUME NEW q \in Requests, RemoveBlob(q) \/ CleanUp(q) PROVE ServerKeeps
  <2>1. CASE RemoveBlob(q)
    BY <2>1 DEF RemoveBlob
  <2>2. CASE CleanUp(q)
    BY <2>2 DEF CleanUp
  <2> QED
    BY <1>8, <2>1, <2>2
<1>9. ASSUME NEW q \in Requests, Flush(q) PROVE ServerKeeps
  BY <1>9 DEF Flush, ReadyToFlush
<1>10. ASSUME NEW q \in Requests, Commit(q) PROVE ServerKeeps
  BY <1>10 DEF Commit
<1>11. ASSUME Delete PROVE ServerKeeps
  BY <1>11 DEF Delete, DeleteFlush, DeleteCommit, DeleteLost
<1> HIDE DEF ServerKeeps
<1> QED
  BY <1>1, <1>2, <1>3, <1>4, <1>5, <1>6, <1>7, <1>8, <1>9, <1>10, <1>11
     DEF Prepares, CommitLost, Crash

\* The pages' own steps leave the server as it is.
PagesKeep == CallsMatchBatches' /\ UploadedAreHeld'

LEMMA SelectKeepsHeld ==
  ASSUME HeldInv, NEW t \in Tabs, Select(t), UNCHANGED serverVars
  PROVE  PagesKeep
<1> USE DEF HeldInv, TypeInv, TypeOK, MenuTypeOK
<1>1. PICK entries :
        /\ cache' = [cache EXCEPT ![t] = entries]
        /\ stored' \in {stored, entries}
        /\ \A f \in Files : entries[f].uploaded => entries[f] = stored[f]
  <2>1. PICK selected \in SUBSET Files :
          LET ready == {f \in selected : ~stored[f].uploaded}
              fresh == {f \in ready : stored[f].id = NoId}
          IN  \E drawn \in [fresh -> {i \in Ids : fileOf[i] = NoId}] :
                LET new == [f \in Files |->
                        IF f \in fresh THEN [id |-> drawn[f], uploaded |-> FALSE]
                                       ELSE stored[f]]
                IN  /\ \A f, g \in fresh : drawn[f] = drawn[g] => f = g
                    /\ fileOf' = [i \in Ids |->
                           IF \E f \in fresh : drawn[f] = i
                           THEN CHOOSE f \in fresh : drawn[f] = i ELSE fileOf[i]]
                    /\ cache' = [cache EXCEPT ![t] = new]
                    /\ SaveIds(new)
    BY DEF Select
  <2> DEFINE fresh == {f \in {g \in selected : ~stored[g].uploaded} : stored[f].id = NoId}
  <2>2. PICK drawn \in [fresh -> {i \in Ids : fileOf[i] = NoId}] :
                LET new == [f \in Files |->
                        IF f \in fresh THEN [id |-> drawn[f], uploaded |-> FALSE]
                                       ELSE stored[f]]
                IN  /\ cache' = [cache EXCEPT ![t] = new]
                    /\ SaveIds(new)
    BY <2>1
  <2> HIDE DEF fresh
  <2> DEFINE new == [f \in Files |->
                        IF f \in fresh THEN [id |-> drawn[f], uploaded |-> FALSE]
                                       ELSE stored[f]]
  <2>3. \A f \in Files : new[f].uploaded => new[f] = stored[f]
    OBVIOUS
  <2>4. cache' = [cache EXCEPT ![t] = new] /\ stored' \in {stored, new}
    BY <2>2 DEF SaveIds, SaveCache
  <2> QED
    BY <2>3, <2>4
<1>2. /\ call' = call /\ UNCHANGED <<answer, ids, pc>> /\ Held' = Held
      /\ \A u \in Tabs : u # t => page'[u] = page[u] /\ batch'[u] = batch[u] /\ cache'[u] = cache[u]
      /\ page'[t] # "waiting"
  BY <1>1 DEF Select, Show, serverVars, Held, Committing
<1>3. UploadedAreHeld'
  BY <1>1, <1>2 DEF UploadedAreHeld
<1>4. CallsMatchBatches'
  <2> SUFFICES ASSUME NEW u \in Tabs, page'[u] = "waiting"
               PROVE  /\ call'[u] \in Requests
                      /\ pc'[call'[u]] \in LivePcs => ids'[call'[u]] = BatchIds(u, batch[u])'
                      /\ answer'[call'[u]] = "ok" => BatchIds(u, batch[u])' \subseteq Held'
    BY DEF CallsMatchBatches, Live
  <2>1. page[u] = "waiting" /\ call'[u] = call[u] /\ batch'[u] = batch[u]
        /\ cache'[u] = cache[u]
    BY <1>2
  <2>2. BatchIds(u, batch[u])' = BatchIds(u, batch[u])
    BY <2>1 DEF BatchIds
  <2> QED
    BY <1>2, <2>1, <2>2 DEF CallsMatchBatches, Live
<1> QED
  BY <1>3, <1>4 DEF PagesKeep

LEMMA PagesHeldStep ==
  ASSUME HeldInv, NEW t \in Tabs, Waits(t) \/ Uploaded(t), UNCHANGED serverVars
  PROVE  PagesKeep
<1> USE DEF HeldInv, TypeInv, TypeOK, MenuTypeOK
<1>1. UNCHANGED <<answer, ids, pc>> /\ Held' = Held
  BY DEF serverVars, Held, Committing
<1>2. /\ page'[t] # "waiting"
      /\ \A u \in Tabs : u # t =>
            /\ page'[u] = page[u] /\ batch'[u] = batch[u] /\ call'[u] = call[u]
            /\ cache'[u] = cache[u]
  BY DEF Waits, Uploaded, Retry, Unanswered, ServerError, Rejected, Drop, GiveUp, Reload,
     NoResult, AttemptFailed, Show
<1>3. CallsMatchBatches'
  <2> SUFFICES ASSUME NEW u \in Tabs, page'[u] = "waiting"
               PROVE  /\ call'[u] \in Requests
                      /\ pc'[call'[u]] \in LivePcs => ids'[call'[u]] = BatchIds(u, batch[u])'
                      /\ answer'[call'[u]] = "ok" => BatchIds(u, batch[u])' \subseteq Held'
    BY DEF CallsMatchBatches, Live
  <2>1. page[u] = "waiting" /\ call'[u] = call[u] /\ batch'[u] = batch[u]
        /\ cache'[u] = cache[u]
    BY <1>2
  <2>2. BatchIds(u, batch[u])' = BatchIds(u, batch[u])
    BY <2>1 DEF BatchIds
  <2> QED
    BY <1>1, <2>1, <2>2 DEF CallsMatchBatches, Live
<1>4. UploadedAreHeld'
  <2>1. CASE Waits(t)
    <3>1. UNCHANGED <<stored, cache>>
      BY <2>1 DEF Waits, Retry, Unanswered, ServerError, Rejected, Drop, GiveUp,
         Reload, NoResult
    <3> QED
      BY <1>1, <3>1 DEF UploadedAreHeld
  <2>2. CASE Uploaded(t)
    <3> DEFINE entries == [f \in Files |-> IF f \in Marked(t)
                             THEN [cache[t][f] EXCEPT !.uploaded = TRUE]
                             ELSE cache[t][f]]
    <3>1. \A f \in batch[t] : f \in Files /\ cache[t][f].id \in Held
      BY <2>2 DEF Uploaded, CallsMatchBatches, BatchIds
    <3>2. ASSUME NEW f \in Files, entries[f].uploaded PROVE entries[f].id \in Held
      <4>1. cache[t][f] \in Entry
        OBVIOUS
      <4> QED
        BY <3>1, <3>2, <4>1 DEF Marked, Entry, UploadedAreHeld
    <3>3. cache' = [cache EXCEPT ![t] = entries] /\ stored' \in {stored, entries}
      BY <2>2 DEF Uploaded, SaveCache
    <3> HIDE DEF entries
    <3> QED
      BY <1>1, <3>2, <3>3 DEF UploadedAreHeld
  <2> QED
    BY <2>1, <2>2
<1> QED
  BY <1>3, <1>4 DEF PagesKeep

LEMMA PostKeepsHeld ==
  ASSUME HeldInv, NEW t \in Tabs, NEW q \in Requests, Post(t, q)
  PROVE  PagesKeep /\ LinksAreRows' /\ KnownAreRows' /\ AnswersPending'
<1> USE DEF HeldInv, TypeInv, TypeOK, MenuTypeOK, ServerTypeOK
<1>1. PICK b \in SUBSET todo[t] :
        batch' = [batch EXCEPT ![t] = b] /\ Arrive(q, BatchIds(t, b))
  BY DEF Post
<1>2. /\ pc[q] = "idle" /\ pc' = [pc EXCEPT ![q] = "arrived"]
      /\ ids' = [ids EXCEPT ![q] = BatchIds(t, b)]
      /\ answer' = [answer EXCEPT ![q] = "none"]
      /\ UNCHANGED <<source, rows, links, known>>
  BY <1>1 DEF Arrive, Goto, Answer, stores
<1>3. /\ \A u \in Tabs : call[u] # q
      /\ call' = [call EXCEPT ![t] = q] /\ page' = [page EXCEPT ![t] = "waiting"]
      /\ UNCHANGED <<stored, cache>>
  BY DEF Post, Show
<1>4. LinksAreRows' /\ KnownAreRows' /\ AnswersPending'
  BY <1>2 DEF LinksAreRows, KnownAreRows, AnswersPending, Live, LivePcs
<1>5. Held' = Held
  <2>1. Committing' = Committing /\ \A p \in Committing : ids'[p] = ids[p]
    BY <1>2 DEF Committing
  <2> QED
    BY <1>2, <2>1 DEF Held
<1>6. UploadedAreHeld'
  BY <1>3, <1>5 DEF UploadedAreHeld
<1>7. CallsMatchBatches'
  <2> SUFFICES ASSUME NEW u \in Tabs, page'[u] = "waiting"
               PROVE  /\ call'[u] \in Requests
                      /\ pc'[call'[u]] \in LivePcs => ids'[call'[u]] = BatchIds(u, batch[u])'
                      /\ answer'[call'[u]] = "ok" => BatchIds(u, batch[u])' \subseteq Held'
    BY DEF CallsMatchBatches, Live
  <2>1. CASE u = t
    <3>1. call'[u] = q /\ ids'[q] = BatchIds(t, b) /\ batch'[t] = b /\ answer'[q] = "none"
      BY <1>1, <1>2, <1>3, <2>1
    <3> QED
      BY <1>3, <2>1, <3>1 DEF BatchIds
  <2>2. CASE u # t
    <3>1. call'[u] = call[u] /\ call[u] # q /\ page[u] = "waiting" /\ batch'[u] = batch[u]
      BY <1>1, <1>3, <2>2
    <3>2. call[u] \in Requests
      BY <3>1 DEF CallsMatchBatches
    <3>3. pc'[call[u]] = pc[call[u]] /\ ids'[call[u]] = ids[call[u]]
          /\ answer'[call[u]] = answer[call[u]]
      BY <1>2, <3>1, <3>2
    <3>4. BatchIds(u, batch[u])' = BatchIds(u, batch[u])
      BY <1>3, <3>1 DEF BatchIds
    <3> QED
      BY <1>5, <3>1, <3>2, <3>3, <3>4 DEF CallsMatchBatches, Live
  <2> QED
    BY <2>1, <2>2
<1> QED
  BY <1>4, <1>6, <1>7 DEF PagesKeep

LEMMA HeldInvStep ==
  ASSUME HeldInv, NoLoss, [Next]_vars
  PROVE  HeldInv' /\ Held \subseteq Held'
<1> DEFINE Goal == PagesKeep /\ LinksAreRows' /\ KnownAreRows' /\ AnswersPending'
                    /\ Held \subseteq Held'
<1>1. ASSUME UNCHANGED serverVars
      PROVE  LinksAreRows' /\ KnownAreRows' /\ AnswersPending' /\ Held \subseteq Held'
  BY <1>1 DEF serverVars, HeldInv, LinksAreRows, KnownAreRows, AnswersPending, Live,
     Held, Committing
<1>2. ASSUME NEW t \in Tabs, Select(t), UNCHANGED serverVars PROVE Goal
  BY <1>1, <1>2, SelectKeepsHeld
<1>3. ASSUME NEW t \in Tabs, Waits(t) \/ Uploaded(t), UNCHANGED serverVars PROVE Goal
  BY <1>1, <1>3, PagesHeldStep
<1>4. ASSUME NEW t \in Tabs, NEW q \in Requests, Post(t, q) PROVE Goal
  <2>1. Committing' = Committing /\ rows' = rows /\ \A p \in Committing : ids'[p] = ids[p]
    BY <1>4 DEF Post, Arrive, Goto, stores, Committing, HeldInv, TypeInv, TypeOK,
       ServerTypeOK
  <2> QED
    BY <1>4, <2>1, PostKeepsHeld DEF Held
<1>5. ASSUME \/ \E q \in Requests : Prepares(q) \/ Flush(q) \/ Commit(q) \/ CommitLost(q)
             \/ Delete \/ Crash,
             UNCHANGED menuVars
      PROVE  Goal
  <2>1. ServerKeeps
    BY <1>5, ServerHeldStep
  <2> QED
    BY <1>5, <2>1, CallsKept DEF ServerKeeps, PagesKeep, CallsHonoured
<1>6. ASSUME UNCHANGED vars PROVE Goal
  <2>1. UNCHANGED menuVars /\ UNCHANGED serverVars
    BY <1>6 DEF vars
  <2>2. CallsHonoured
    BY <1>1, <2>1 DEF CallsHonoured, serverVars, Live
  <2> QED
    BY <1>1, <2>1, <2>2, CallsKept DEF PagesKeep
<1> HIDE DEF Goal
<1>7. Goal
  BY <1>2, <1>3, <1>4, <1>5, <1>6, StepCases
<1> QED
  BY <1>7, TypeInvStep DEF Goal, HeldInv, PagesKeep

LEMMA HeldInvImpliesReported == HeldInv => ReportedIsStored
BY DEF HeldInv, ReportedIsStored, UploadedAreHeld, LinksAreRows, Held, Promised

\* A page never shows a file as uploaded that is not stored, nor about to be, as
\* long as a flushed transaction commits: whatever is retried, overlaps, times
\* out or is refused, on however many pages.
THEOREM ReportsAreTrue ==
  ASSUME NoLoss
  PROVE  Spec => []ReportedIsStored
<1>1. HeldInv /\ [Next]_vars => HeldInv'
  BY HeldInvStep
<1> QED
  BY InitHeldInv, <1>1, HeldInvImpliesReported, PTL DEF Spec

-----------------------------------------------------------------------------
(* The protocol implements the ledger *)

HeldIdsDrawn == \A i \in Held : i \in Ids /\ fileOf[i] # NoId

LEMMA HeldDrawn == IdsInv => HeldIdsDrawn
BY DEF IdsInv, HeldIdsDrawn, SentIdsDrawn, Held, Committing, TypeInv, TypeOK,
   ServerTypeOK

LEMMA InitLedger == Init => Ledger!Init
BY DEF Init, ServerInit, MenuInit, NoEntry, Ledger!Init, Held, Committing

LEMMA LedgerStep ==
  ASSUME IdsInv, HeldInv, OnePage, NoLoss, [Next]_vars
  PROVE  [Ledger!Next]_(Ledger!ledgerVars)
<1> DEFINE Reported == {f \in Files : stored[f].uploaded}
           Keeps == \A i \in Ids : fileOf[i] # NoId => fileOf'[i] = fileOf[i]
<1>1. /\ IdsInv' /\ Held \subseteq Held'
      /\ HeldIdsDrawn /\ HeldIdsDrawn'
  <2>1. IdsInv' /\ Held \subseteq Held'
    BY IdsInvStep, HeldInvStep
  <2>2. HeldIdsDrawn'
    BY HeldDrawn, <2>1, PTL
  <2> QED
    BY HeldDrawn, <2>1, <2>2
<1>2. ASSUME Keeps, Reported' = Reported PROVE Ledger!Store
  <2>1. \A i, j \in Held' : fileOf'[i] = fileOf'[j] => i = j
    BY <1>1 DEF HeldIdsDrawn, IdsInv, CacheKeepsIds
  <2>2. \A i \in Held : fileOf'[i] = fileOf[i]
    BY <1>1, <1>2 DEF HeldIdsDrawn
  <2> QED
    BY <1>1, <1>2, <2>1, <2>2 DEF Ledger!Store
<1>3. ASSUME NEW t \in Tabs, Select(t), UNCHANGED serverVars PROVE Ledger!Store
  <2>1. Keeps /\ Reported' = Reported
    BY <1>3, SelectKeepsIds
  <2> QED
    BY <1>2, <2>1
<1>4. ASSUME UNCHANGED <<fileOf, stored>> PROVE Ledger!Store
  BY <1>2, <1>4
<1>5. ASSUME NEW t \in Tabs, Uploaded(t), UNCHANGED serverVars PROVE Ledger!Report
  <2> USE DEF IdsInv, TypeInv, TypeOK, MenuTypeOK
  <2>1. Held' = Held /\ fileOf' = fileOf
    BY <1>5 DEF serverVars, Held, Committing, Uploaded
  <2>2. cache[t] = stored /\ page[t] = "waiting" /\ answer[call[t]] = "ok"
    BY <1>5 DEF Uploaded, PageFollowsCache
  <2>3. stored' = [f \in Files |-> IF f \in batch[t]
                       THEN [stored[f] EXCEPT !.uploaded = TRUE] ELSE stored[f]]
    BY <1>5, <2>2 DEF Uploaded, Marked, SaveCache, OnePage
  <2>4. ASSUME NEW f \in Files PROVE stored[f] \in Entry
    OBVIOUS
  <2>5. ASSUME NEW f \in batch[t] PROVE \E i \in Held : fileOf[i] = f
    <3>1. f \in Files /\ stored[f].id \in BatchIds(t, batch[t])
      BY <2>2 DEF BatchIds
    <3>2. stored[f].id \in Held
      BY <2>2, <3>1 DEF HeldInv, CallsMatchBatches
    <3>3. stored[f].id # NoId
      BY <1>1, <3>2, MenuAssumption DEF HeldIdsDrawn
    <3> QED
      BY <3>1, <3>2, <3>3 DEF CachedIdsDrawn
  <2>6. Reported \subseteq Reported'
    BY <2>3, <2>4 DEF Entry
  <2>7. Reported' \subseteq Reported \cup {fileOf[i] : i \in Held}
    BY <2>3, <2>5
  <2> QED
    BY <2>1, <2>6, <2>7 DEF Ledger!Report, Ledger!Stored
<1>6. ASSUME NEW t \in Tabs, Waits(t) PROVE UNCHANGED <<fileOf, stored>>
  BY <1>6 DEF Waits, Retry, Unanswered, ServerError, Rejected, Drop, GiveUp, Reload,
     NoResult
<1>7. ASSUME NEW t \in Tabs, NEW q \in Requests, Post(t, q) PROVE UNCHANGED <<fileOf, stored>>
  BY <1>7 DEF Post
<1>8. UNCHANGED menuVars => UNCHANGED <<fileOf, stored>>
  BY DEF menuVars
<1>9. UNCHANGED vars => UNCHANGED menuVars
  BY DEF vars
<1> HIDE DEF Reported, Keeps
<1> QED
  BY <1>3, <1>4, <1>5, <1>6, <1>7, <1>8, <1>9, StepCases DEF Ledger!Next

\* With one page at work, a storage that stores and transactions that commit,
\* every behaviour of browser and server is one of the ledger's.
THEOREM LedgerImplemented ==
  ASSUME OnePage, NoLoss
  PROVE  Spec => LedgerRefined
<1>1. IdsInv /\ [Next]_vars => IdsInv'
  BY IdsInvStep
<1>2. HeldInv /\ [Next]_vars => HeldInv'
  BY HeldInvStep
<1>3. IdsInv /\ HeldInv /\ [Next]_vars => [Ledger!Next]_(Ledger!ledgerVars)
  BY LedgerStep
<1> QED
  BY InitIdsInv, InitHeldInv, InitLedger, <1>1, <1>2, <1>3, PTL
     DEF Spec, LedgerRefined, Ledger!Spec

-----------------------------------------------------------------------------
(* What is stored can be read *)

\* The page waits until its request is over: no page is reloaded, and neither
\* the browser nor a proxy gives up.
PagesWait == OnePage /\ Faults \cap {"timeout", "reload"} = {}

LEMMA InitReadableInv == Init => ReadableInv
BY InitIdsInv DEF Init, ServerInit, MenuInit, ReadableInv, AwaitedInv, StoresInv,
   AnswersInOrder, AnswersPending, Committing, CallsCarryBatches, LiveIsAwaited,
   TodoNotUploaded, WritesInOrder, NewIdsOnly, WholeBlobs, Unlinked, Live, LivePcs

\* While a request is at work every other one is about to commit, other files.
LEMMA OneAtWork ==
  ASSUME AwaitedInv, OnePage, NEW q \in Requests, Live(q), pc[q] # "committing"
  PROVE  \A p \in Requests : p # q /\ Live(p) =>
             pc[p] = "committing" /\ ids[p] \cap ids[q] = {}
<1> USE DEF AwaitedInv, IdsInv, TypeInv, TypeOK, MenuTypeOK, ServerTypeOK
<1>1. PICK t \in Tabs : page[t] = "waiting" /\ call[t] = q
  BY DEF LiveIsAwaited
<1> SUFFICES ASSUME NEW p \in Requests, p # q, Live(p)
             PROVE  pc[p] = "committing" /\ ids[p] \cap ids[q] = {}
  OBVIOUS
<1>2. pc[p] = "committing" /\ \A i \in ids[p] : stored[fileOf[i]].uploaded
  BY <1>1 DEF LiveIsAwaited, OnePage
<1>3. ASSUME NEW i \in ids[q] PROVE ~stored[fileOf[i]].uploaded
  <2>1. ids[q] = BatchIds(t, batch[t])
    BY <1>1 DEF CallsCarryBatches
  <2>2. PICK f \in batch[t] : i = cache[t][f].id
    BY <2>1 DEF BatchIds
  <2>3. f \in todo[t] /\ f \in Files /\ cache[t] = stored /\ cache[t][f].id # NoId
    BY <1>1 DEF FilesHaveIds, PageFollowsCache
  <2>4. fileOf[i] = f
    BY <2>2, <2>3 DEF CachedIdsDrawn
  <2> QED
    BY <1>1, <2>3, <2>4 DEF TodoNotUploaded
<1> QED
  BY <1>2, <1>3

\* Steps of the server that the waiting pages can live with.
LEMMA AwaitedKept ==
  ASSUME AwaitedInv, UNCHANGED menuVars, AnswersInOrder',
         \A q \in Requests : Live(q)' =>
             /\ Live(q) /\ ids'[q] = ids[q]
             /\ pc[q] = "committing" => pc'[q] = "committing"
  PROVE  CallsCarryBatches' /\ LiveIsAwaited' /\ TodoNotUploaded'
<1> USE DEF AwaitedInv, menuVars
<1>1. TodoNotUploaded'
  BY DEF TodoNotUploaded
<1>2. LiveIsAwaited'
  BY DEF LiveIsAwaited
<1>3. \A t \in Tabs : BatchIds(t, batch[t])' = BatchIds(t, batch[t])
  BY DEF BatchIds
<1>4. CallsCarryBatches'
  BY <1>3 DEF CallsCarryBatches
<1> QED
  BY <1>1, <1>2, <1>4

LEMMA ServerAwaitedStep ==
  ASSUME AwaitedInv, UNCHANGED menuVars,
         \/ \E q \in Requests : Prepares(q) \/ Flush(q) \/ Commit(q) \/ CommitLost(q)
         \/ Delete \/ Crash
  PROVE  AnswersInOrder' /\ CallsCarryBatches' /\ LiveIsAwaited' /\ TodoNotUploaded'
<1> DEFINE Goes == /\ AnswersInOrder'
                   /\ \A q \in Requests : Live(q)' =>
                         /\ Live(q) /\ ids'[q] = ids[q]
                         /\ pc[q] = "committing" => pc'[q] = "committing"
<1> USE DEF AwaitedInv, IdsInv, TypeInv, TypeOK, ServerTypeOK, AnswersInOrder,
        AnswersPending, Committing, Live, LivePcs, stores, Goto, Answer, End
<1>1. ASSUME NEW q \in Requests, CheckSource(q) PROVE Goes
  BY <1>1 DEF CheckSource
<1>2. ASSUME NEW q \in Requests, CheckLinks(q) PROVE Goes
  BY <1>2 DEF CheckLinks
<1>3. ASSUME NEW q \in Requests, SelectError(q) PROVE Goes
  BY <1>3 DEF SelectError
<1>4. ASSUME NEW q \in Requests, OpenBlob(q) PROVE Goes
  BY <1>4 DEF OpenBlob
<1>5. ASSUME NEW q \in Requests, WriteBlob(q) PROVE Goes
  BY <1>5 DEF WriteBlob
<1>6. ASSUME NEW q \in Requests, WriteError(q) PROVE Goes
  BY <1>6 DEF WriteError
<1>7. ASSUME NEW q \in Requests, FlushError(q) PROVE Goes
  BY <1>7 DEF FlushError, ReadyToFlush
<1>8. ASSUME NEW q \in Requests, RemoveBlob(q) \/ CleanUp(q) PROVE Goes
  <2>1. CASE RemoveBlob(q)
    BY <2>1 DEF RemoveBlob
  <2>2. CASE CleanUp(q)
    BY <2>2 DEF CleanUp
  <2> QED
    BY <1>8, <2>1, <2>2
<1>9. ASSUME NEW q \in Requests, Flush(q) PROVE Goes
  BY <1>9 DEF Flush, ReadyToFlush
<1>10. ASSUME NEW q \in Requests, Commit(q) \/ CommitLost(q) PROVE Goes
  BY <1>10 DEF Commit, CommitLost
<1>11. ASSUME Delete PROVE Goes
  BY <1>11 DEF Delete, DeleteFlush, DeleteCommit, DeleteLost
<1>12. ASSUME Crash PROVE Goes
  BY <1>12 DEF Crash
<1> HIDE DEF Goes
<1>13. Goes
  BY <1>1, <1>2, <1>3, <1>4, <1>5, <1>6, <1>7, <1>8, <1>9, <1>10, <1>11, <1>12
     DEF Prepares
<1> QED
  BY <1>13, AwaitedKept DEF Goes

\* A page that waits for nothing, or takes the answer of a request that is
\* about to commit, leaves no request at work behind.
LEMMA PageAwaitedStep ==
  ASSUME AwaitedInv, PagesWait, NEW t \in Tabs,
         Select(t) \/ Waits(t) \/ Uploaded(t), UNCHANGED serverVars
  PROVE  AnswersInOrder' /\ CallsCarryBatches' /\ LiveIsAwaited' /\ TodoNotUploaded'
<1> USE DEF AwaitedInv, IdsInv, TypeInv, TypeOK, MenuTypeOK, ServerTypeOK
<1>1. /\ UNCHANGED <<pc, ids, answer>> /\ \A u \in Tabs : u = t
      /\ page'[t] # "waiting"
      /\ \A q \in Requests : Live(q)' = Live(q)
  BY DEF serverVars, Live, PagesWait, OnePage, Select, Waits, Uploaded, Retry,
     Unanswered, ServerError, Rejected, Drop, GiveUp, Reload, NoResult,
     AttemptFailed, Show
<1>2. AnswersInOrder' /\ CallsCarryBatches'
  BY <1>1 DEF AnswersInOrder, AnswersPending, Committing, CallsCarryBatches
<1>3. CASE Select(t)
  <2>1. /\ \A i \in Ids : fileOf[i] # NoId => fileOf'[i] = fileOf[i]
        /\ \A f \in Files : stored'[f].uploaded <=> stored[f].uploaded
    BY <1>3, SelectKeepsIds DEF PagesWait
  <2>2. todo'[t] \subseteq {f \in Files : ~stored[f].uploaded}
    BY <1>3 DEF Select
  <2>3. TodoNotUploaded'
    BY <1>1, <2>1, <2>2 DEF TodoNotUploaded
  <2>4. page[t] # "waiting"
    BY <1>3 DEF Select
  <2>5. LiveIsAwaited'
    <3> SUFFICES ASSUME NEW q \in Requests, Live(q)
                 PROVE  pc'[q] = "committing" /\ \A i \in ids'[q] : stored'[fileOf'[i]].uploaded
      BY <1>1 DEF LiveIsAwaited
    <3>1. pc[q] = "committing" /\ \A i \in ids[q] : stored[fileOf[i]].uploaded
      BY <1>1, <2>4 DEF LiveIsAwaited
    <3>2. \A i \in ids[q] : fileOf'[i] = fileOf[i] /\ fileOf[i] \in Files
      BY <2>1 DEF SentIdsDrawn
    <3> QED
      BY <1>1, <2>1, <3>1, <3>2
  <2> QED
    BY <1>2, <2>3, <2>5
<1>4. CASE Waits(t)
  <2>1. UNCHANGED <<fileOf, stored>>
    BY <1>4 DEF Waits, Retry, Unanswered, ServerError, Rejected, Drop, GiveUp,
       Reload, NoResult
  <2>2. todo'[t] = todo[t] /\ page[t] # "idle"
    BY <1>4 DEF Waits, Retry, Unanswered, ServerError, Rejected, Drop, GiveUp,
       Reload, NoResult, PagesWait
  <2>3. TodoNotUploaded'
    BY <1>1, <2>1, <2>2 DEF TodoNotUploaded
  <2>4. page[t] = "waiting" => ~Live(call[t]) \/ pc[call[t]] = "committing"
    BY <1>4 DEF Waits, Retry, Unanswered, ServerError, Rejected, Drop, GiveUp,
       Reload, PagesWait, AnswersInOrder, AnswersPending, Committing, CallsCarryBatches
  <2>5. page[t] = "waiting" => ~Live(call[t])
    BY <1>4, <2>4 DEF Waits, Retry, Unanswered, ServerError, Rejected, Drop,
       GiveUp, Reload, PagesWait, AnswersInOrder, Committing, CallsCarryBatches
  <2>6. LiveIsAwaited'
    BY <1>1, <2>1, <2>5 DEF LiveIsAwaited
  <2> QED
    BY <1>2, <2>3, <2>6
<1>5. CASE Uploaded(t)
  <2> DEFINE entries == [f \in Files |-> IF f \in Marked(t)
                           THEN [cache[t][f] EXCEPT !.uploaded = TRUE]
                           ELSE cache[t][f]]
  <2>1. /\ page[t] = "waiting" /\ answer[call[t]] = "ok" /\ fileOf' = fileOf
        /\ todo' = [todo EXCEPT ![t] = @ \ batch[t]]
        /\ stored' = entries /\ cache[t] = stored
    BY <1>5 DEF Uploaded, SaveCache, PagesWait, OnePage, PageFollowsCache
  <2>2. ASSUME NEW f \in Files
        PROVE  stored'[f].uploaded <=> stored[f].uploaded \/ f \in batch[t]
    <3>1. cache[t][f] \in Entry
      OBVIOUS
    <3> QED
      BY <2>1, <3>1 DEF Marked, Entry
  <2> HIDE DEF entries
  <2>3. TodoNotUploaded'
    <3> SUFFICES ASSUME NEW f \in todo[t] \ batch[t] PROVE ~stored'[f].uploaded
      BY <1>1, <2>1 DEF TodoNotUploaded
    <3> QED
      BY <2>1, <2>2 DEF TodoNotUploaded
  <2>4. ASSUME NEW q \in Requests, Live(q)
        PROVE  pc[q] = "committing" /\ \A i \in ids[q] : stored'[fileOf[i]].uploaded
    <3>1. CASE call[t] = q
      <4>1. pc[q] = "committing" /\ ids[q] = BatchIds(t, batch[t])
        BY <2>1, <2>4, <3>1 DEF AnswersInOrder, AnswersPending, Committing, CallsCarryBatches
      <4>2. ASSUME NEW f \in batch[t]
            PROVE  f \in Files /\ fileOf[cache[t][f].id] = f
        BY <2>1 DEF FilesHaveIds, CachedIdsDrawn
      <4> QED
        BY <2>2, <4>1, <4>2 DEF BatchIds
    <3>2. CASE call[t] # q
      <4>1. pc[q] = "committing" /\ \A i \in ids[q] : stored[fileOf[i]].uploaded
        BY <1>1, <2>4, <3>2 DEF LiveIsAwaited
      <4>2. \A i \in ids[q] : fileOf[i] \in Files
        BY DEF SentIdsDrawn
      <4> QED
        BY <2>2, <4>1, <4>2
    <3> QED
      BY <3>1, <3>2
  <2>5. LiveIsAwaited'
    BY <1>1, <2>1, <2>4 DEF LiveIsAwaited
  <2> QED
    BY <1>2, <2>3, <2>5
<1> QED
  BY <1>3, <1>4, <1>5

LEMMA PostAwaitedStep ==
  ASSUME AwaitedInv, OnePage, NEW t \in Tabs, NEW q \in Requests, Post(t, q)
  PROVE  AnswersInOrder' /\ CallsCarryBatches' /\ LiveIsAwaited' /\ TodoNotUploaded'
<1> USE DEF AwaitedInv, IdsInv, TypeInv, TypeOK, MenuTypeOK, ServerTypeOK
<1>1. PICK b \in SUBSET todo[t] :
        batch' = [batch EXCEPT ![t] = b] /\ Arrive(q, BatchIds(t, b))
  BY DEF Post
<1>2. /\ pc[q] = "idle" /\ pc' = [pc EXCEPT ![q] = "arrived"]
      /\ ids' = [ids EXCEPT ![q] = BatchIds(t, b)]
      /\ answer' = [answer EXCEPT ![q] = "none"]
  BY <1>1 DEF Arrive, Goto, Answer
<1>3. /\ page[t] = "uploading" /\ \A u \in Tabs : u = t
      /\ call' = [call EXCEPT ![t] = q] /\ page' = [page EXCEPT ![t] = "waiting"]
      /\ UNCHANGED <<fileOf, stored, cache, todo>>
  BY DEF Post, Show, OnePage
<1>4. AnswersInOrder'
  BY <1>2 DEF AnswersInOrder, AnswersPending, Committing, Live, LivePcs
<1>5. CallsCarryBatches'
  <2>1. BatchIds(t, batch[t])' = BatchIds(t, b)
    BY <1>1, <1>3 DEF BatchIds
  <2> QED
    BY <1>2, <1>3, <2>1 DEF CallsCarryBatches
<1>6. LiveIsAwaited'
  <2> SUFFICES ASSUME NEW p \in Requests, p # q, Live(p)'
               PROVE  pc'[p] = "committing" /\ \A i \in ids'[p] : stored[fileOf[i]].uploaded
    BY <1>3 DEF LiveIsAwaited
  <2>1. pc'[p] = pc[p] /\ ids'[p] = ids[p] /\ Live(p)
    BY <1>2 DEF Live
  <2> QED
    BY <1>3, <2>1 DEF LiveIsAwaited
<1>7. TodoNotUploaded'
  BY <1>3 DEF TodoNotUploaded
<1> QED
  BY <1>4, <1>5, <1>6, <1>7

LEMMA AwaitedInvStep ==
  ASSUME AwaitedInv, PagesWait, [Next]_vars
  PROVE  AwaitedInv'
<1> DEFINE Goal == AnswersInOrder' /\ CallsCarryBatches' /\ LiveIsAwaited'
                    /\ TodoNotUploaded'
<1>1. ASSUME UNCHANGED vars PROVE Goal
  <2>1. UNCHANGED menuVars /\ UNCHANGED serverVars
    BY <1>1 DEF vars
  <2>2. AnswersInOrder' /\ \A q \in Requests : Live(q)' = Live(q)
    BY <2>1 DEF AwaitedInv, AnswersInOrder, AnswersPending, Committing, serverVars, Live
  <2> QED
    BY <2>1, <2>2, AwaitedKept DEF serverVars
<1> HIDE DEF Goal
<1>2. Goal
  BY <1>1, StepCases, ServerAwaitedStep, PageAwaitedStep, PostAwaitedStep
     DEF Goal, PagesWait
<1> QED
  BY <1>2, IdsInvStep DEF AwaitedInv, PagesWait, Goal

\* No step of the server touches a blob that is stored or about to be.
LEMMA StoresInvStep ==
  ASSUME ReadableInv, PagesWait, [Next]_vars
  PROVE  StoresInv'
<1> USE DEF ReadableInv, StoresInv, WritesInOrder, NewIdsOnly, WholeBlobs
<1>1. ASSUME UNCHANGED serverVars PROVE StoresInv'
  BY <1>1 DEF serverVars, Unlinked
<1> USE DEF AwaitedInv, IdsInv, TypeInv, TypeOK, ServerTypeOK, Live, LivePcs,
        Unlinked, stores, Goto, End
<1>2. ASSUME NEW t \in Tabs, NEW q \in Requests, Post(t, q) PROVE StoresInv'
  <2>1. PICK b \in SUBSET todo[t] : Arrive(q, BatchIds(t, b))
    BY <1>2 DEF Post
  <2> QED
    BY <2>1 DEF Arrive
<1>3. ASSUME NEW q \in Requests, CheckSource(q) PROVE StoresInv'
  BY <1>3 DEF CheckSource
<1>4. ASSUME NEW q \in Requests, CheckLinks(q) PROVE StoresInv'
  BY <1>4 DEF CheckLinks
<1>5. ASSUME NEW q \in Requests, SelectError(q) PROVE StoresInv'
  BY <1>5 DEF SelectError
<1>6. ASSUME NEW q \in Requests, OpenBlob(q) PROVE StoresInv'
  <2>1. \A p \in Requests : p # q /\ Live(p) =>
            pc[p] = "committing" /\ ids[p] \cap ids[q] = {}
    BY <1>6, OneAtWork DEF OpenBlob, PagesWait
  <2> QED
    BY <1>6, <2>1 DEF OpenBlob
<1>7. ASSUME NEW q \in Requests, WriteBlob(q) PROVE StoresInv'
  <2>1. \A p \in Requests : p # q /\ Live(p) =>
            pc[p] = "committing" /\ ids[p] \cap ids[q] = {}
    BY <1>7, OneAtWork DEF WriteBlob, PagesWait
  <2>2. PICK i \in opened[q] \ staged[q] :
            disk' = IF disk[i] = "none" THEN disk ELSE [disk EXCEPT ![i] = "whole"]
    <3>1. \A i \in Ids : ~AlsoWriting(q, i)
      BY <2>1 DEF AlsoWriting
    <3> QED
      BY <1>7, <3>1 DEF WriteBlob
  <2>3. /\ disk' = [disk EXCEPT ![i] = "whole"]
        /\ opened[q] \subseteq staged[q] \cup {i}
    BY <1>7, <2>2 DEF WriteBlob
  <2> QED
    BY <1>7, <2>1, <2>3 DEF WriteBlob
<1>8. ASSUME NEW q \in Requests, WriteError(q) PROVE StoresInv'
  BY <1>8 DEF WriteError
<1>9. ASSUME NEW q \in Requests, FlushError(q) PROVE StoresInv'
  BY <1>9 DEF FlushError, ReadyToFlush
<1>10. ASSUME NEW q \in Requests, RemoveBlob(q) \/ CleanUp(q) PROVE StoresInv'
  <2>1. CASE RemoveBlob(q)
    <3>1. \A p \in Requests : p # q /\ Live(p) =>
              pc[p] = "committing" /\ ids[p] \cap ids[q] = {}
      BY <2>1, OneAtWork DEF RemoveBlob, PagesWait
    <3>2. PICK i \in staged[q] :
            /\ opened' = [opened EXCEPT ![q] = @ \ {i}]
            /\ staged' = [staged EXCEPT ![q] = @ \ {i}]
            /\ disk' = [disk EXCEPT ![i] = "none"] \/ UNCHANGED disk
      BY <2>1 DEF RemoveBlob, Removed
    <3>3. i \in Unlinked(q) /\ \A j \in Ids : disk'[j] # disk[j] => j = i
      BY <2>1, <3>2 DEF RemoveBlob
    <3> QED
      BY <2>1, <3>1, <3>2, <3>3 DEF RemoveBlob
  <2>2. CASE CleanUp(q)
    BY <2>2 DEF CleanUp
  <2> QED
    BY <1>10, <2>1, <2>2
<1>11. ASSUME NEW q \in Requests, Flush(q) PROVE StoresInv'
  BY <1>11 DEF Flush, ReadyToFlush
<1>12. ASSUME NEW q \in Requests, Commit(q) PROVE StoresInv'
  <2>1. \A p \in Requests : p # q /\ Live(p) /\ pc[p] # "committing" =>
            ids[p] \cap ids[q] = {}
    BY <1>12, OneAtWork DEF Commit, PagesWait
  <2> QED
    BY <1>12, <2>1 DEF Commit
<1>13. ASSUME NEW q \in Requests, CommitLost(q) PROVE StoresInv'
  BY <1>13 DEF CommitLost
<1>14. ASSUME Delete PROVE StoresInv'
  BY <1>14 DEF Delete, DeleteFlush, DeleteCommit, DeleteLost
<1>15. ASSUME Crash PROVE StoresInv'
  BY <1>15 DEF Crash
<1> QED
  BY <1>1, <1>2, <1>3, <1>4, <1>5, <1>6, <1>7, <1>8, <1>9, <1>10, <1>11, <1>12,
     <1>13, <1>14, <1>15, StepCases DEF Prepares, vars

\* A file of the source can be read, whatever fails and is tried again, as long
\* as its page waits for the answer: crashes and lost commits included.
THEOREM StoredFilesStayReadable ==
  ASSUME PagesWait
  PROVE  Spec => []StoredFilesReadable
<1>1. ReadableInv /\ [Next]_vars => ReadableInv'
  BY AwaitedInvStep, StoresInvStep DEF ReadableInv
<1>2. ReadableInv => StoredFilesReadable
  BY DEF ReadableInv, StoresInv, WholeBlobs, StoredFilesReadable
<1> QED
  BY InitReadableInv, <1>1, <1>2, PTL DEF Spec

=============================================================================
