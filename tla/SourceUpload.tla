---------------------------- MODULE SourceUpload ----------------------------
(***************************************************************************)
(* The server side of uploading files to one source, with the requests     *)
(* that delete the source (sources/service.py, sources/repository.py).     *)
(*                                                                         *)
(* The browser chooses the ids of the files, so that a repeated request    *)
(* can be recognised; the location of a blob is its id.  The session of    *)
(* the route is request-scoped: it commits after the response is sent.     *)
(***************************************************************************)
EXTENDS FiniteSets

CONSTANTS
    Requests,   \* bound: the upload requests that can be under way at a time
    Ids,        \* bound: the file ids browsers can draw
    Faults      \* the faults the environment may inject, see FaultKinds

(***************************************************************************)
(* select        a SELECT fails                                            *)
(* io            writing a blob raises OSError, or a file's name is refused *)
(* unlink        removing a staged blob fails                              *)
(* flush         a flush raises SQLAlchemyError                            *)
(* commit        a transaction does not commit                             *)
(* crash         the server process dies                                   *)
(* drop          a request does not reach the server                       *)
(* lost_answer   an answer is lost after the server is done                *)
(* timeout       the browser, or a proxy, gives up while the server works  *)
(* reload        the page is reloaded, which aborts its request            *)
(* storage       localStorage does not store                               *)
(* delete        no fault: the user deletes the source                     *)
(***************************************************************************)
FaultKinds == {"select", "io", "unlink", "flush", "commit", "crash", "drop",
               "lost_answer", "timeout", "reload", "storage",
               "delete"}

ASSUME FaultsAssumption == Faults \subseteq FaultKinds

VARIABLES
    source,   \* the source: "present", "deleting" (flushed) or "deleted"
    rows,     \* the ids of the committed files rows
    links,    \* the ids linked to the source by committed source_files rows
    disk,     \* the blob at each id's location
    pc,       \* where each request has got to, "idle" when there is none
    ids,      \* the file_ids of the request
    known,    \* the ids a request has found stored
    opened,   \* the blobs it has begun to write, and not removed since
    staged,   \* the blobs it has written, and not removed since
    answer    \* the response

stores == <<source, rows, links, disk>>
serverVars == <<source, rows, links, disk, pc, ids, known, opened, staged, answer>>

LivePcs == {"arrived", "checking", "writing", "cleaning", "committing"}
Live(q) == pc[q] \in LivePcs

\* ok: 204; rejected: a 4xx; error: a 5xx, which the browser retries.
Answers == {"none", "ok", "rejected", "error"}
Blobs == {"none", "partial", "whole"}

\* Type correctness of the source's rows, its blobs and the requests.
ServerTypeOK ==
    /\ source \in {"present", "deleting", "deleted"}
    /\ rows \subseteq Ids
    /\ links \subseteq Ids
    /\ disk \in [Ids -> Blobs]
    /\ pc \in [Requests -> LivePcs \cup {"idle"}]
    /\ ids \in [Requests -> SUBSET Ids]
    /\ known \in [Requests -> SUBSET Ids]
    /\ opened \in [Requests -> SUBSET Ids]
    /\ staged \in [Requests -> SUBSET Ids]
    /\ answer \in [Requests -> Answers]

\* An empty source of the user's own.
ServerInit ==
    /\ source = "present"
    /\ rows = {}
    /\ links = {}
    /\ disk = [i \in Ids |-> "none"]
    /\ pc = [q \in Requests |-> "idle"]
    /\ ids = [q \in Requests |-> {}]
    /\ known = [q \in Requests |-> {}]
    /\ opened = [q \in Requests |-> {}]
    /\ staged = [q \in Requests |-> {}]
    /\ answer = [q \in Requests |-> "none"]

Goto(q, label) == pc' = [pc EXCEPT ![q] = label]
Answer(q, response) == answer' = [answer EXCEPT ![q] = response]

\* The request is over, and its locals are gone.
End(q) ==
    /\ Goto(q, "idle")
    /\ ids' = [ids EXCEPT ![q] = {}]
    /\ known' = [known EXCEPT ![q] = {}]
    /\ opened' = [opened EXCEPT ![q] = {}]
    /\ staged' = [staged EXCEPT ![q] = {}]

\* Mutant: files that are stored already are stored again.
UnlinkedAll(q) == ids[q]

\* The files of the request that are not linked yet.
Unlinked(q) == ids[q] \ known[q]

-----------------------------------------------------------------------------
(* upload_files_to_source *)

\* A request begins: its form holds the files with their ids.
Arrive(q, fileIds) ==
    /\ pc[q] = "idle"
    /\ ids' = [ids EXCEPT ![q] = fileIds]
    /\ Goto(q, "arrived")
    /\ Answer(q, "none")
    /\ UNCHANGED <<stores, known, opened, staged>>

\* The source is read, and the files rows with the ids of the request.
CheckSource(q) ==
    /\ pc[q] = "arrived"
    /\ \/ /\ source = "deleted"
          /\ Answer(q, "rejected")
          /\ End(q)
       \/ /\ source # "deleted"
          /\ known' = [known EXCEPT ![q] = rows \cap ids[q]]
          /\ Goto(q, "checking")
          /\ UNCHANGED <<ids, opened, staged, answer>>
    /\ UNCHANGED stores

\* A second statement reads which of them are linked to the source; an id that
\* is stored but not linked is taken for a file of another source.
CheckLinks(q) ==
    /\ pc[q] = "checking"
    /\ \/ /\ known[q] = links \cap ids[q]
          /\ Goto(q, "writing")
          /\ UNCHANGED <<ids, known, opened, staged, answer>>
       \/ /\ known[q] # links \cap ids[q]
          /\ Answer(q, "rejected")
          /\ End(q)
    /\ UNCHANGED stores

\* Reading the source fails outside the try block, which makes a 500; reading
\* the ids fails inside it, which makes a 400.
SelectError(q) ==
    /\ "select" \in Faults
    /\ \/ pc[q] = "arrived" /\ Answer(q, "error")
       \/ pc[q] \in {"arrived", "checking"} /\ Answer(q, "rejected")
    /\ End(q)
    /\ UNCHANGED stores

\* A file is opened for writing, which truncates whatever is there.
OpenBlob(q) ==
    /\ pc[q] = "writing"
    /\ opened[q] = staged[q]
    /\ \E i \in Unlinked(q) \ opened[q] :
          /\ opened' = [opened EXCEPT ![q] = @ \cup {i}]
          /\ disk' = [disk EXCEPT ![i] = "partial"]
    /\ UNCHANGED <<source, rows, links, pc, ids, known, staged, answer>>

\* Another request has the same blob open.
AlsoWriting(q, i) ==
    \E p \in Requests \ {q} : pc[p] = "writing" /\ i \in opened[p] \ staged[p]

\* Its last chunk is written, unless another request has unlinked it.  If one
\* truncated it meanwhile, the blob may or may not be whole now.
WriteBlob(q) ==
    /\ pc[q] = "writing"
    /\ staged' = [staged EXCEPT ![q] = opened[q]]
    /\ \E i \in opened[q] \ staged[q] :
          \E blob \in {"partial", "whole"} :
             /\ blob = "partial" => AlsoWriting(q, i)
             /\ disk' = IF disk[i] = "none" THEN disk ELSE [disk EXCEPT ![i] = blob]
    /\ UNCHANGED <<source, rows, links, pc, ids, known, opened, answer>>

\* The name of the next file is refused, or opening or writing its blob fails:
\* that blob is not among the staged ones.
WriteError(q) ==
    /\ "io" \in Faults
    /\ pc[q] = "writing"
    /\ staged[q] # Unlinked(q)
    /\ Goto(q, "cleaning")
    /\ UNCHANGED <<stores, ids, known, opened, staged, answer>>

\* Everything is staged, and no transaction in progress holds a row with one
\* of the ids, or the source.
ReadyToFlush(q) ==
    /\ pc[q] = "writing"
    /\ staged[q] = Unlinked(q)
    /\ \/ Unlinked(q) = {}
       \/ /\ source # "deleting"
          /\ \A p \in Requests :
                pc[p] = "committing" => Unlinked(p) \cap Unlinked(q) = {}

Storable(q) ==
    Unlinked(q) # {} => source = "present" /\ Unlinked(q) \cap rows = {}

\* The rows are flushed and the response is sent.
Flush(q) ==
    /\ ReadyToFlush(q)
    /\ Storable(q)
    /\ Goto(q, "committing")
    /\ Answer(q, "ok")
    /\ UNCHANGED <<stores, ids, known, opened, staged>>

\* The primary key of a file, or the foreign key of the source, is violated,
\* or the flush fails otherwise.
FlushError(q) ==
    /\ ReadyToFlush(q)
    /\ ~Storable(q) \/ ("flush" \in Faults /\ Unlinked(q) # {})
    /\ Goto(q, "cleaning")
    /\ UNCHANGED <<stores, ids, known, opened, staged, answer>>

\* Mutant: the blobs of a failed upload stay.
RemovedNothing(q) == {}

\* The locations a failed upload removes.
Removed(q) == staged[q]

\* A staged blob is removed, or that fails and it stays.
RemoveBlob(q) ==
    /\ pc[q] = "cleaning"
    /\ \E i \in Removed(q) :
          /\ opened' = [opened EXCEPT ![q] = @ \ {i}]
          /\ staged' = [staged EXCEPT ![q] = @ \ {i}]
          /\ \/ disk' = [disk EXCEPT ![i] = "none"]
             \/ "unlink" \in Faults /\ UNCHANGED disk
    /\ UNCHANGED <<source, rows, links, pc, ids, known, answer>>

\* Mutant: the exception ends with the cleanup.
CleanUpSilent(q) ==
    /\ pc[q] = "cleaning"
    /\ Removed(q) = {}
    /\ End(q)
    /\ Answer(q, "ok")
    /\ UNCHANGED stores

\* When all have had their turn, the answer is 400.
CleanUp(q) ==
    /\ pc[q] = "cleaning"
    /\ Removed(q) = {}
    /\ End(q)
    /\ Answer(q, "rejected")
    /\ UNCHANGED stores

\* The session commits, with the response on its way.
Commit(q) ==
    /\ pc[q] = "committing"
    /\ rows' = rows \cup Unlinked(q)
    /\ links' = links \cup Unlinked(q)
    /\ End(q)
    /\ UNCHANGED <<source, disk, answer>>

CommitLost(q) ==
    /\ "commit" \in Faults
    /\ pc[q] = "committing"
    /\ End(q)
    /\ UNCHANGED <<stores, answer>>

-----------------------------------------------------------------------------
(* delete_source: the rows and the blobs of its files stay. *)

\* The delete waits for uploads that have linked files to the source.
DeleteFlush ==
    /\ "delete" \in Faults
    /\ source = "present"
    /\ \A q \in Requests : pc[q] = "committing" => Unlinked(q) = {}
    /\ source' = "deleting"
    /\ UNCHANGED <<rows, links, disk, pc, ids, known, opened, staged, answer>>

DeleteCommit ==
    /\ source = "deleting"
    /\ source' = "deleted"
    /\ links' = {}
    /\ UNCHANGED <<rows, disk, pc, ids, known, opened, staged, answer>>

DeleteLost ==
    /\ "commit" \in Faults
    /\ source = "deleting"
    /\ source' = "present"
    /\ UNCHANGED <<rows, links, disk, pc, ids, known, opened, staged, answer>>

-----------------------------------------------------------------------------
\* The server process dies with its requests and transactions.
Crash ==
    /\ "crash" \in Faults
    /\ \E q \in Requests : Live(q)
    /\ pc' = [q \in Requests |-> "idle"]
    /\ ids' = [q \in Requests |-> {}]
    /\ known' = [q \in Requests |-> {}]
    /\ opened' = [q \in Requests |-> {}]
    /\ staged' = [q \in Requests |-> {}]
    /\ source' = IF source = "deleting" THEN "present" ELSE source
    /\ UNCHANGED <<rows, links, disk, answer>>

\* What a request does when nothing fails.
UploadStep(q) ==
    \/ CheckSource(q) \/ CheckLinks(q) \/ OpenBlob(q) \/ WriteBlob(q)
    \/ Flush(q) \/ (FlushError(q) /\ ~Storable(q))
    \/ RemoveBlob(q) \/ CleanUp(q) \/ Commit(q)

UploadFault(q) ==
    SelectError(q) \/ WriteError(q) \/ FlushError(q) \/ CommitLost(q)

Delete == DeleteFlush \/ DeleteCommit \/ DeleteLost

=============================================================================
