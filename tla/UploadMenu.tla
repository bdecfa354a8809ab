----------------------------- MODULE UploadMenu -----------------------------
(***************************************************************************)
(* The browser side: pages of one browser that upload files to the source, *)
(* and the cache of file ids they share in localStorage                    *)
(* (frontend/components/pages/sources/UploadMenu.js).                      *)
(*                                                                         *)
(* What one event handler does between two awaits is one step.  How the    *)
(* selected files are cut into batches is left open: a batch is any set of *)
(* at most MaxFiles of the files left.                                     *)
(***************************************************************************)
EXTENDS SourceUpload, Naturals

CONSTANTS
    Tabs,         \* the pages
    Files,        \* the user's files, told apart by their fingerprints
    MaxFiles,     \* data-max-files
    MaxAttempts,  \* MAX_ATTEMPTS
    NoId,         \* no cache entry
    NoRequest     \* no request outstanding

ASSUME MenuAssumption ==
    /\ MaxFiles \in Nat \ {0}
    /\ MaxAttempts \in Nat \ {0}
    /\ NoId \notin Ids \cup Files
    /\ NoRequest \notin Requests

VARIABLES
    fileOf,   \* the file each drawn id was drawn for
    stored,   \* the cache in localStorage
    cache,    \* the copy of it that each page works on
    page,     \* what each page is doing
    todo,     \* the selected files that are still to be uploaded
    batch,    \* the batch being uploaded
    attempt,  \* how often it has been tried without success
    call      \* the request a page waits for

menuVars == <<fileOf, stored, cache, page, todo, batch, attempt, call>>

PagePcs == {"idle", "uploading", "waiting", "failed"}
Entry == [id : Ids \cup {NoId}, uploaded : BOOLEAN]
NoEntry == [id |-> NoId, uploaded |-> FALSE]

\* Type correctness of the cache and the pages.
MenuTypeOK ==
    /\ fileOf \in [Ids -> Files \cup {NoId}]
    /\ stored \in [Files -> Entry]
    /\ cache \in [Tabs -> [Files -> Entry]]
    /\ page \in [Tabs -> PagePcs]
    /\ todo \in [Tabs -> SUBSET Files]
    /\ batch \in [Tabs -> SUBSET Files]
    /\ attempt \in [Tabs -> 0 .. MaxAttempts]
    /\ call \in [Tabs -> Requests \cup {NoRequest}]

MenuInit ==
    /\ fileOf = [i \in Ids |-> NoId]
    /\ stored = [f \in Files |-> NoEntry]
    /\ cache = [t \in Tabs |-> [f \in Files |-> NoEntry]]
    /\ page = [t \in Tabs |-> "idle"]
    /\ todo = [t \in Tabs |-> {}]
    /\ batch = [t \in Tabs |-> {}]
    /\ attempt = [t \in Tabs |-> 0]
    /\ call = [t \in Tabs |-> NoRequest]

Show(t, label) == page' = [page EXCEPT ![t] = label]

\* saveCache: a storage that does not store is ignored.
SaveCache(entries) ==
    \/ stored' = entries
    \/ "storage" \in Faults /\ stored' = stored

-----------------------------------------------------------------------------
(* Selecting files *)

\* Mutant: the ids are kept in the page until the upload has succeeded.
SaveIdsLater(entries) == stored' = stored

\* prepareFiles is followed by saveCache: the ids are stored before any upload.
SaveIds(entries) == SaveCache(entries)

\* The change handler: files marked as uploaded are skipped, files without an
\* entry draw a fresh id.
Select(t) ==
    /\ page[t] \in {"idle", "failed"}
    /\ \E selected \in SUBSET Files :
        LET ready == {f \in selected : ~stored[f].uploaded}
            fresh == {f \in ready : stored[f].id = NoId}
        IN  /\ selected # {}
            /\ \E drawn \in [fresh -> {i \in Ids : fileOf[i] = NoId}] :
                LET entries == [f \in Files |->
                        IF f \in fresh THEN [id |-> drawn[f], uploaded |-> FALSE]
                                       ELSE stored[f]]
                IN  /\ \A f, g \in fresh : drawn[f] = drawn[g] => f = g
                    /\ fileOf' = [i \in Ids |->
                           IF \E f \in fresh : drawn[f] = i
                           THEN CHOOSE f \in fresh : drawn[f] = i ELSE fileOf[i]]
                    /\ cache' = [cache EXCEPT ![t] = entries]
                    /\ SaveIds(entries)
            /\ todo' = [todo EXCEPT ![t] = ready]
            /\ Show(t, IF ready = {} THEN "idle" ELSE "uploading")
    /\ batch' = [batch EXCEPT ![t] = {}]
    /\ attempt' = [attempt EXCEPT ![t] = 0]
    /\ UNCHANGED call

\* The Retry button: run resumes with the batch that failed.
Retry(t) ==
    /\ page[t] = "failed"
    /\ Show(t, "uploading")
    /\ attempt' = [attempt EXCEPT ![t] = 0]
    /\ UNCHANGED <<fileOf, stored, cache, todo, batch, call>>

-----------------------------------------------------------------------------
(* uploadBatch and the loop of run *)

BatchIds(t, b) == {cache[t][f].id : f \in b}

\* The first batch is cut off, or the same one is tried again.
Post(t, q) ==
    /\ page[t] = "uploading"
    /\ \A u \in Tabs : call[u] # q
    /\ \E b \in SUBSET todo[t] :
          /\ b # {} /\ Cardinality(b) <= MaxFiles
          /\ batch[t] \in {{}, b}
          /\ batch' = [batch EXCEPT ![t] = b]
          /\ Arrive(q, BatchIds(t, b))
    /\ call' = [call EXCEPT ![t] = q]
    /\ Show(t, "waiting")
    /\ UNCHANGED <<fileOf, stored, cache, todo, attempt>>

\* Mutant: one attempt too many.
AttemptFailedOnceMore(t) ==
    /\ attempt' = [attempt EXCEPT ![t] = @ + 1]
    /\ Show(t, IF attempt[t] < MaxAttempts THEN "uploading" ELSE "failed")

\* Mutant: attempts are not counted.
AttemptFailedUncounted(t) ==
    /\ UNCHANGED attempt
    /\ Show(t, IF attempt[t] + 1 < MaxAttempts THEN "uploading" ELSE "failed")

\* fetch rejects, or the answer is a 5xx: after a delay the batch is posted
\* again, at most MaxAttempts times.
AttemptFailed(t) ==
    /\ attempt' = [attempt EXCEPT ![t] = @ + 1]
    /\ Show(t, IF attempt[t] + 1 < MaxAttempts THEN "uploading" ELSE "failed")

\* The request never gets to the server.
Drop(t) ==
    /\ "drop" \in Faults
    /\ page[t] = "uploading"
    /\ AttemptFailed(t)
    /\ UNCHANGED <<fileOf, stored, cache, todo, batch, call>>

\* The attempt is over without a result.
NoResult(t) ==
    /\ AttemptFailed(t)
    /\ call' = [call EXCEPT ![t] = NoRequest]
    /\ UNCHANGED <<fileOf, stored, cache, todo, batch>>

\* The server died with the request.
Unanswered(t) ==
    /\ page[t] = "waiting"
    /\ ~Live(call[t]) /\ answer[call[t]] = "none"
    /\ NoResult(t)

\* The answer is lost, or the browser or a proxy does not wait for it.
GiveUp(t) ==
    /\ page[t] = "waiting"
    /\ IF Live(call[t]) THEN "timeout" \in Faults ELSE "lost_answer" \in Faults
    /\ NoResult(t)

ServerError(t) ==
    /\ page[t] = "waiting"
    /\ answer[call[t]] = "error"
    /\ NoResult(t)

\* A 4xx is not tried again; the user may press Retry.
Rejected(t) ==
    /\ page[t] = "waiting"
    /\ answer[call[t]] = "rejected"
    /\ Show(t, "failed")
    /\ call' = [call EXCEPT ![t] = NoRequest]
    /\ UNCHANGED <<fileOf, stored, cache, todo, batch, attempt>>

\* Mutant: the whole selection is marked as uploaded.
MarkedAll(t) == todo[t]

\* The files that an answer marks as uploaded.
Marked(t) == batch[t]

\* The files of the batch are marked as uploaded and the next one is next.
Uploaded(t) ==
    /\ page[t] = "waiting"
    /\ answer[call[t]] = "ok"
    /\ LET entries == [f \in Files |-> IF f \in Marked(t)
                           THEN [cache[t][f] EXCEPT !.uploaded = TRUE]
                           ELSE cache[t][f]]
       IN  cache' = [cache EXCEPT ![t] = entries] /\ SaveCache(entries)
    /\ todo' = [todo EXCEPT ![t] = @ \ batch[t]]
    /\ batch' = [batch EXCEPT ![t] = {}]
    /\ attempt' = [attempt EXCEPT ![t] = 0]
    /\ call' = [call EXCEPT ![t] = NoRequest]
    /\ Show(t, IF todo[t] = batch[t] THEN "idle" ELSE "uploading")
    /\ UNCHANGED fileOf

\* The page is reloaded, or closed and opened again.
Reload(t) ==
    /\ "reload" \in Faults
    /\ page[t] # "idle"
    /\ Show(t, "idle")
    /\ todo' = [todo EXCEPT ![t] = {}]
    /\ batch' = [batch EXCEPT ![t] = {}]
    /\ attempt' = [attempt EXCEPT ![t] = 0]
    /\ call' = [call EXCEPT ![t] = NoRequest]
    /\ UNCHANGED <<fileOf, stored, cache>>

\* What a page does once its user has selected files.
PageStep(t) == Unanswered(t) \/ ServerError(t) \/ Rejected(t) \/ Uploaded(t)

=============================================================================
