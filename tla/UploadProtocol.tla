--------------------------- MODULE UploadProtocol ---------------------------
(***************************************************************************)
(* The pages of UploadMenu and the server of SourceUpload together, what   *)
(* they guarantee, and what they do not.                                   *)
(***************************************************************************)
EXTENDS UploadMenu

vars == <<serverVars, menuVars>>

Init == ServerInit /\ MenuInit

User(t) == Select(t) \/ Retry(t)
PageFault(t) == Drop(t) \/ GiveUp(t) \/ Reload(t)

\* Every upload and every request has come to an end.
Finished ==
    /\ \A t \in Tabs : page[t] \in {"idle", "failed"}
    /\ \A q \in Requests : ~Live(q)
    /\ source # "deleting"

Terminated == Finished /\ UNCHANGED vars

Next ==
    \/ \E t \in Tabs :
          (User(t) \/ PageStep(t) \/ PageFault(t)) /\ UNCHANGED serverVars
    \/ \E t \in Tabs, q \in Requests : Post(t, q)
    \/ \E q \in Requests : (UploadStep(q) \/ UploadFault(q)) /\ UNCHANGED menuVars
    \/ (Delete \/ Crash) /\ UNCHANGED menuVars
    \/ Terminated

Spec == Init /\ [][Next]_vars

\* The event loops of the browser and of the server run what is runnable, a
\* row lock is granted in turn; nobody has to select files or press Retry.
Fairness ==
    /\ \A t \in Tabs :
          /\ WF_vars(PageStep(t) /\ UNCHANGED serverVars)
          /\ WF_vars(\E q \in Requests : Post(t, q))
    /\ \A q \in Requests : WF_vars(UploadStep(q) /\ UNCHANGED menuVars)
    /\ WF_vars((DeleteCommit \/ DeleteLost) /\ UNCHANGED menuVars)

FairSpec == Spec /\ Fairness

-----------------------------------------------------------------------------
(* Safety *)

TypeOK == ServerTypeOK /\ MenuTypeOK

\* Why: a page that is at work has attempts left, and ids for its files.
AttemptsLeft ==
    \A t \in Tabs : page[t] \in {"uploading", "waiting"} => attempt[t] < MaxAttempts

FilesHaveIds ==
    \A t \in Tabs : page[t] # "idle" =>
        /\ \A f \in todo[t] : cache[t][f].id # NoId
        /\ batch[t] \subseteq todo[t]

TypeInv == TypeOK /\ AttemptsLeft /\ FilesHaveIds

\* However often an upload is tried again, whether by the page, by the user or
\* after a reload, a file is stored under one id only: the id is in the cache
\* before the first request that carries it.
StoredOnce == \A i, j \in rows : fileOf[i] = fileOf[j] => i = j

\* The ids that are stored, or will be by a commit that is on its way.
Committing == {q \in Requests : pc[q] = "committing"}
Promised == links \cup UNION {ids[q] : q \in Committing}

\* Why: an id that has been drawn for a file stays in the cache, one page works
\* on the cache as it is stored, and every id that reaches the server is drawn.
CacheKeepsIds ==
    \A i \in Ids : fileOf[i] # NoId => stored[fileOf[i]].id = i

CachedIdsDrawn ==
    \A f \in Files : stored[f].id # NoId => fileOf[stored[f].id] = f

PageFollowsCache ==
    \A t \in Tabs : page[t] # "idle" => cache[t] = stored

SentIdsDrawn ==
    /\ \A i \in rows : fileOf[i] # NoId
    /\ \A q \in Requests : \A i \in ids[q] : fileOf[i] # NoId

IdsInv ==
    /\ TypeInv
    /\ CacheKeepsIds
    /\ CachedIdsDrawn
    /\ PageFollowsCache
    /\ SentIdsDrawn

\* A file that a page reports as uploaded is stored, although the response is
\* sent before the commit.
ReportedIsStored ==
    \A f \in Files : stored[f].uploaded =>
        source = "deleted" \/ stored[f].id \in Promised

\* Why: files rows stay, what a request has found stored is stored, and a page
\* that has been answered ok has sent ids that are stored or about to be.
Held == rows \cup UNION {ids[q] : q \in Committing}

LinksAreRows == links \subseteq rows /\ (source # "deleted" => links = rows)

KnownAreRows == \A q \in Requests : known[q] \subseteq rows

AnswersPending ==
    \A q \in Requests : Live(q) /\ pc[q] # "committing" => answer[q] = "none"

CallsMatchBatches ==
    \A t \in Tabs : page[t] = "waiting" =>
        /\ call[t] \in Requests
        /\ Live(call[t]) => ids[call[t]] = BatchIds(t, batch[t])
        /\ answer[call[t]] = "ok" => BatchIds(t, batch[t]) \subseteq Held

UploadedAreHeld ==
    /\ \A f \in Files : stored[f].uploaded => stored[f].id \in Held
    /\ \A t \in Tabs : \A f \in Files : cache[t][f].uploaded => cache[t][f].id \in Held

HeldInv ==
    /\ TypeInv
    /\ LinksAreRows
    /\ KnownAreRows
    /\ AnswersPending
    /\ CallsMatchBatches
    /\ UploadedAreHeld

\* The blob of every file of the source is whole.
StoredFilesReadable == \A i \in links : disk[i] = "whole"

\* Why, of the page: the request it waits for is the only one at work, except
\* for commits of files that it has marked as uploaded, and will not send again.
CallsCarryBatches ==
    \A t \in Tabs : page[t] = "waiting" =>
        /\ call[t] \in Requests
        /\ Live(call[t]) => ids[call[t]] = BatchIds(t, batch[t])

AnswersInOrder ==
    /\ AnswersPending
    /\ \A q \in Committing : answer[q] = "ok"

LiveIsAwaited ==
    \A q \in Requests : Live(q) =>
        \/ \E t \in Tabs : page[t] = "waiting" /\ call[t] = q
        \/ pc[q] = "committing" /\ \A i \in ids[q] : stored[fileOf[i]].uploaded

TodoNotUploaded ==
    \A t \in Tabs : page[t] # "idle" => \A f \in todo[t] : ~stored[f].uploaded

AwaitedInv ==
    /\ IdsInv
    /\ AnswersInOrder
    /\ CallsCarryBatches
    /\ LiveIsAwaited
    /\ TodoNotUploaded

\* Why, of the server: a request writes one blob at a time, of ids that are not
\* stored, and flushes when all are whole.
WritesInOrder ==
    \A q \in Requests :
        /\ pc[q] \in {"idle", "arrived", "checking"} => opened[q] = {}
        /\ staged[q] \subseteq opened[q] /\ opened[q] \subseteq Unlinked(q)
        /\ pc[q] = "writing" =>
              \A i, j \in opened[q] \ staged[q] : i = j /\ disk[i] = "partial"

NewIdsOnly ==
    \A q \in Requests :
        pc[q] \in {"checking", "writing", "cleaning"} => Unlinked(q) \cap rows = {}

WholeBlobs ==
    /\ \A i \in rows : disk[i] = "whole"
    /\ \A q \in Requests :
          /\ pc[q] = "writing" => \A i \in staged[q] : disk[i] = "whole"
          /\ pc[q] = "committing" => \A i \in Unlinked(q) : disk[i] = "whole"

StoresInv == links \subseteq rows /\ WritesInOrder /\ NewIdsOnly /\ WholeBlobs

ReadableInv == AwaitedInv /\ StoresInv

\* A blob belongs to a files row or to a request that is still at work: an
\* upload that fails leaves nothing behind.
NoOrphanBlob ==
    \A i \in Ids : disk[i] # "none" =>
        i \in rows \/ \E q \in Requests : Live(q) /\ i \in opened[q]

\* Why: a request opens only blobs it will store, and cleans up all it opened.
BlobsAreOpened ==
    \A q \in Requests :
        /\ pc[q] \in {"idle", "arrived", "checking"} => opened[q] = {}
        /\ pc[q] \in {"cleaning", "committing"} => opened[q] = staged[q]
        /\ staged[q] \subseteq opened[q]
        /\ opened[q] \subseteq Unlinked(q)

BlobInv == TypeInv /\ BlobsAreOpened /\ NoOrphanBlob

(* Liveness *)

\* The status line does not say "Uploading" for ever.
UploadEnds ==
    \A t \in Tabs :
        page[t] \in {"uploading", "waiting"} ~> page[t] \in {"idle", "failed"}

(* Abstract specification *)

Ledger == INSTANCE UploadLedger WITH
    ids <- Held,
    content <- fileOf,
    reported <- {f \in Files : stored[f].uploaded}

\* Browser and server together store each file once and report what is stored.
LedgerRefined == Ledger!Spec

(* A claim of the repository that a run refutes *)

\* A file that was uploaded can be downloaded
\* (tests/e2e/test_source_upload.py:69-78).
UploadedIsDownloadable ==
    \A f \in Files :
        /\ stored[f].uploaded
        /\ source = "present"
        /\ \A q \in Requests : ~Live(q)
        => stored[f].id \in links /\ disk[stored[f].id] = "whole"

=============================================================================
