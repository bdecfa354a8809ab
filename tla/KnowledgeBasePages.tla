------------------------- MODULE KnowledgeBasePages -------------------------
(***************************************************************************)
(* The pages of one knowledge base (backend/knowledge_bases/views.py and    *)
(* its templates) while operations are started from several tabs and run in *)
(* the background.  A status fragment polls as long as it shows a running   *)
(* operation; htmx puts an answer where the element stood that its request  *)
(* was sent for, and drops it when that element has been replaced.          *)
(***************************************************************************)
EXTENDS Naturals

CONSTANTS
    Tabs,           \* browser tabs that show the detail page
    Viewings,       \* browser tabs that show the page of a file
    MaxTasks        \* bound: operations that are ever started

ASSUME PagesAssumption == MaxTasks \in Nat

Stages == {"conversion", "indexing"}
Tasks == 1..MaxTasks
NoTask == 0
Active == {"WAITING", "IN_PROGRESS"}

VARIABLES
    base,           \* the committed knowledge_bases row
    progress,       \* the status of each task; "staged" while its job commits
    stageOf,        \* the operation of each task
    builtFrom,      \* the conversion that an index was built from
    stored,         \* the tasks whose files are on disk
    fragment,       \* the status fragments of the detail page in each tab
    indexButton,    \* the tabs whose page has the Index button enabled
    filePage        \* the file page that each tab loads, and what it shows

serverVars == <<base, progress, stageOf, builtFrom, stored>>
pagesVars == <<serverVars, fragment, indexButton, filePage>>

Shown == [task : 0..MaxTasks, status : Active \cup {"SUCCESS", "FAILED", "none"}]
NoStatus == [task |-> NoTask, status |-> "none"]

\* A fragment, its poll, and the start request of the button beside it, whose
\* target is the fragment that was there when it was clicked.
Closed == [shown |-> NoStatus, poll |-> "none", polled |-> NoStatus,
           start |-> "none", started |-> NoStatus, attached |-> FALSE]

NoFilePage == [at |-> "none", converted |-> FALSE, files |-> NoTask,
               wanted |-> NoTask, index |-> NoTask]

PagesTypeOK ==
    /\ base \in [exists : BOOLEAN, files : 0..MaxTasks, index : 0..MaxTasks,
                 task : [Stages -> 0..MaxTasks]]
    /\ progress \in [Tasks -> {"none", "staged"} \cup Active \cup {"SUCCESS", "FAILED"}]
    /\ stageOf \in [Tasks -> Stages] /\ builtFrom \in [Tasks -> 0..MaxTasks]
    /\ stored \subseteq Tasks
    /\ fragment \in [Tabs -> [Stages ->
          [shown : Shown, poll : {"none", "timer", "sent", "answered"}, polled : Shown,
           start : {"none", "sent", "answered"}, started : Shown, attached : BOOLEAN]]]
    /\ indexButton \subseteq Tabs
    /\ filePage \in [Viewings ->
          [at : {"none", "row", "files", "index", "blobs", "open"},
           converted : BOOLEAN, files : 0..MaxTasks, wanted : 0..MaxTasks, index : 0..MaxTasks]]

PagesInit ==
    /\ base = [exists |-> TRUE, files |-> NoTask, index |-> NoTask,
               task |-> [s \in Stages |-> NoTask]]
    /\ progress = [k \in Tasks |-> "none"]
    /\ stageOf = [k \in Tasks |-> "conversion"]
    /\ builtFrom = [k \in Tasks |-> NoTask]
    /\ stored = {}
    /\ fragment = [b \in Tabs |-> [s \in Stages |-> Closed]]
    /\ indexButton = {}
    /\ filePage = [b \in Viewings |-> NoFilePage]

-----------------------------------------------------------------------------
(* Jobs *)

\* A job that is about to commit is still IN_PROGRESS for everybody else.
StatusOf(k) == IF progress[k] = "staged" THEN "IN_PROGRESS" ELSE progress[k]

TaskView(s) ==
    IF base.task[s] = NoTask THEN NoStatus
    ELSE [task |-> base.task[s], status |-> StatusOf(base.task[s])]

Idle == \A s \in Stages : TaskView(s).status \notin Active

BeginTask(k) ==
    /\ progress[k] = "WAITING"
    /\ progress' = [progress EXCEPT ![k] = "IN_PROGRESS"]
    /\ UNCHANGED <<base, stageOf, builtFrom, stored, fragment, indexButton, filePage>>

\* The files that the row will name are written and the ones it named are
\* removed, a conversion's with the index of theirs, before the job commits.
StageTask(k) ==
    /\ progress[k] = "IN_PROGRESS" /\ base.exists
    /\ progress' = [progress EXCEPT ![k] = "staged"]
    /\ builtFrom' = [builtFrom EXCEPT ![k] = base.files]
    /\ stored' = {k} \cup (stored \ (IF stageOf[k] = "conversion"
                                     THEN {base.files, base.index} ELSE {base.index}))
    /\ UNCHANGED <<base, stageOf, fragment, indexButton, filePage>>

CommitTask(k) ==
    /\ progress[k] = "staged"
    /\ progress' = [progress EXCEPT ![k] = "SUCCESS"]
    /\ base' = IF stageOf[k] = "conversion"
               THEN [base EXCEPT !.files = k, !.index = NoTask, !.task["indexing"] = NoTask]
               ELSE [base EXCEPT !.index = k]
    /\ UNCHANGED <<stageOf, builtFrom, stored, fragment, indexButton, filePage>>

FailTask(k) ==
    /\ progress[k] = "IN_PROGRESS"
    /\ progress' = [progress EXCEPT ![k] = "FAILED"]
    /\ UNCHANGED <<base, stageOf, builtFrom, stored, fragment, indexButton, filePage>>

\* Through the API; no page has a button for it.  (A delete while a job is
\* about to commit is left to KnowledgeBaseService.)
DeleteBase ==
    /\ base.exists /\ \A k \in Tasks : progress[k] # "staged"
    /\ base' = [base EXCEPT !.exists = FALSE, !.files = NoTask, !.index = NoTask,
                            !.task = [s \in Stages |-> NoTask]]
    /\ stored' = {}
    /\ UNCHANGED <<progress, stageOf, builtFrom, fragment, indexButton, filePage>>

-----------------------------------------------------------------------------
(* The detail page *)

\* Mutant: a fragment polls only until the operation has begun.
RenderedOnce(f, view) ==
    [f EXCEPT !.shown = view, !.poll = IF view.status = "WAITING" THEN "timer" ELSE "none",
              !.polled = NoStatus, !.attached = FALSE]

\* OperationStatus: the fragment asks for itself after a second while it shows
\* a running operation.
Rendered(f, view) ==
    [f EXCEPT !.shown = view, !.poll = IF view.status \in Active THEN "timer" ELSE "none",
              !.polled = NoStatus, !.attached = FALSE]

\* Loading the page again leaves its requests without an element.
OpenDetail(b) ==
    /\ base.exists
    /\ fragment' = [fragment EXCEPT ![b] = [s \in Stages |-> Rendered(@[s], TaskView(s))]]
    /\ indexButton' = IF base.files # NoTask THEN indexButton \cup {b} ELSE indexButton \ {b}
    /\ UNCHANGED <<serverVars, filePage>>

Click(b, s) ==
    /\ fragment[b][s].start = "none"
    /\ s = "indexing" => b \in indexButton
    /\ fragment' = [fragment EXCEPT ![b][s].start = "sent", ![b][s].attached = TRUE]
    /\ UNCHANGED <<serverVars, indexButton, filePage>>

Startable(s) == base.exists /\ Idle /\ (s = "indexing" => base.files # NoTask)

\* start_knowledge_base_operation, and the commit before the answer is built.
StartTask(k, s) ==
    /\ progress[k] = "none" /\ \A j \in 1..(k - 1) : progress[j] # "none"
    /\ progress' = [progress EXCEPT ![k] = "WAITING"]
    /\ stageOf' = [stageOf EXCEPT ![k] = s]
    /\ base' = [base EXCEPT !.task[s] = k]

\* _start_operation.  A refusal is an error, which htmx does not show.
HandleStart(b, s) ==
    /\ fragment[b][s].start = "sent"
    /\ IF Startable(s)
       THEN \E k \in Tasks :
              /\ StartTask(k, s)
              /\ fragment' = [fragment EXCEPT ![b][s].start = "answered",
                                 ![b][s].started = [task |-> k, status |-> "WAITING"]]
       ELSE /\ fragment' = [fragment EXCEPT ![b][s].start = "none", ![b][s].attached = FALSE]
            /\ UNCHANGED <<base, progress, stageOf>>
    /\ UNCHANGED <<builtFrom, stored, indexButton, filePage>>

\* Another tab, or a client of the API, starts an operation.
StartElsewhere(s) ==
    /\ Startable(s) /\ \E k \in Tasks : StartTask(k, s)
    /\ UNCHANGED <<builtFrom, stored, fragment, indexButton, filePage>>

\* Mutant: the answer to a click replaces whatever fragment is there.
ShowStartAnywhere(b, s) ==
    /\ fragment[b][s].start = "answered"
    /\ fragment' = [fragment EXCEPT ![b][s] =
                       Rendered([@ EXCEPT !.start = "none", !.started = NoStatus], @.started)]
    /\ UNCHANGED <<serverVars, indexButton, filePage>>

ShowStart(b, s) ==
    /\ fragment[b][s].start = "answered"
    /\ LET f == [fragment[b][s] EXCEPT !.start = "none", !.started = NoStatus] IN
       fragment' = [fragment EXCEPT ![b][s] =
                       IF f.attached THEN Rendered(f, fragment[b][s].started) ELSE f]
    /\ UNCHANGED <<serverVars, indexButton, filePage>>

SendPoll(b, s) ==
    /\ fragment[b][s].poll = "timer"
    /\ fragment' = [fragment EXCEPT ![b][s].poll = "sent"]
    /\ UNCHANGED <<serverVars, indexButton, filePage>>

\* poll_knowledge_base_operation_view.  Without a task, or a knowledge base, the
\* answer is an error: the fragment stays as it is, and polls no more.
HandlePoll(b, s) ==
    /\ fragment[b][s].poll = "sent"
    /\ fragment' = [fragment EXCEPT ![b][s] =
          IF base.task[s] = NoTask THEN [@ EXCEPT !.poll = "none"]
          ELSE [@ EXCEPT !.poll = "answered", !.polled = TaskView(s)]]
    /\ UNCHANGED <<serverVars, indexButton, filePage>>

ShowPoll(b, s) ==
    /\ fragment[b][s].poll = "answered"
    /\ fragment' = [fragment EXCEPT ![b][s] = Rendered(@, @.polled)]
    /\ UNCHANGED <<serverVars, indexButton, filePage>>

-----------------------------------------------------------------------------
(* The file page: one session, which loads the row, the converted files and   *)
(* the index file by one statement after another, and then reads their blobs; *)
(* what it has loaded once it does not load again.                            *)

\* The row: whether there is a converted source, and the index it names.
OpenFilePage(b) ==
    /\ filePage' = [filePage EXCEPT ![b] =
          IF base.exists
          THEN [NoFilePage EXCEPT !.at = "row", !.converted = base.files # NoTask,
                                  !.wanted = base.index]
          ELSE NoFilePage]
    /\ UNCHANGED <<serverVars, fragment, indexButton>>

LoadFiles(b) ==
    /\ filePage[b].at = "row"
    /\ filePage' = [filePage EXCEPT ![b].at = "files",
          ![b].files = IF filePage[b].converted THEN base.files ELSE NoTask]
    /\ UNCHANGED <<serverVars, fragment, indexButton>>

\* An index that has been replaced since is not found, and counts as none.
LoadIndex(b) ==
    /\ filePage[b].at = "files"
    /\ filePage' = [filePage EXCEPT ![b].at = "index",
          ![b].index = IF base.index = filePage[b].wanted THEN base.index ELSE NoTask]
    /\ UNCHANGED <<serverVars, fragment, indexButton>>

ReadIfStored(b, k, next) ==
    filePage' = [filePage EXCEPT ![b] =
        IF k \in stored \cup {NoTask} THEN [@ EXCEPT !.at = next] ELSE NoFilePage]

ReadDocuments(b) ==
    /\ filePage[b].at = "index"
    /\ ReadIfStored(b, filePage[b].files, "blobs")
    /\ UNCHANGED <<serverVars, fragment, indexButton>>

\* Mutant: the index is looked up again when it is read.
ReadChunksOfToday(b) ==
    /\ filePage[b].at = "blobs"
    /\ filePage' = [filePage EXCEPT ![b].at = "open", ![b].index = base.index]
    /\ UNCHANGED <<serverVars, fragment, indexButton>>

\* get_knowledge_base_file_chunks, only for a file with converted documents and
\* a row that named an index.
ReadChunks(b) ==
    /\ filePage[b].at = "blobs"
    /\ LET page == filePage[b] IN
       IF page.files = NoTask \/ page.wanted = NoTask
       THEN filePage' = [filePage EXCEPT ![b].at = "open", ![b].index = NoTask]
       ELSE IF base.exists THEN ReadIfStored(b, page.index, "open")
       ELSE filePage' = [filePage EXCEPT ![b] = NoFilePage]
    /\ UNCHANGED <<serverVars, fragment, indexButton>>

PagesNext ==
    \/ \E k \in Tasks : BeginTask(k) \/ StageTask(k) \/ CommitTask(k) \/ FailTask(k)
    \/ DeleteBase \/ \E s \in Stages : StartElsewhere(s)
    \/ \E b \in Tabs :
          \/ OpenDetail(b)
          \/ \E s \in Stages :
                \/ Click(b, s) \/ HandleStart(b, s) \/ ShowStart(b, s)
                \/ SendPoll(b, s) \/ HandlePoll(b, s) \/ ShowPoll(b, s)
    \/ \E b \in Viewings :
          OpenFilePage(b) \/ LoadFiles(b) \/ LoadIndex(b) \/ ReadDocuments(b) \/ ReadChunks(b)

PagesSpec == PagesInit /\ [][PagesNext]_pagesVars

-----------------------------------------------------------------------------
(* Properties *)

\* A fragment that shows a running operation asks on, so that it will show how
\* the operation ended, unless the row no longer names the operation (a
\* conversion that follows an indexing forgets it).
RunningIsWatched ==
    \A b \in Tabs, s \in Stages :
        fragment[b][s].shown.status \in Active =>
            \/ fragment[b][s].poll # "none"
            \/ base.task[s] = NoTask \/ base.task[s] # fragment[b][s].shown.task

\* Answers that overtake each other never turn a fragment back: it goes from an
\* operation to a later one, and from a status to a later one of the same
\* operation.
Rank(view) == CASE view.status = "WAITING" -> 1 [] view.status = "IN_PROGRESS" -> 2
                [] view.status \in {"SUCCESS", "FAILED"} -> 3 [] OTHER -> 0

FragmentsGoForward ==
    [][\A b \in Tabs, s \in Stages :
          LET old == fragment[b][s].shown
              new == fragment'[b][s].shown IN
          \/ new.task > old.task
          \/ new.task = old.task /\ Rank(new) >= Rank(old)
          \/ new = NoStatus]_pagesVars

\* The chunks that a file page marks in the documents are chunks of those
\* documents, whatever committed between the statements that loaded the page.
ChunksMatchDocuments ==
    \A b \in Viewings :
        filePage[b].at = "open" /\ filePage[b].index # NoTask =>
            builtFrom[filePage[b].index] = filePage[b].files

-----------------------------------------------------------------------------
(* Why *)

\* Operations are started in the order of their numbers, and the row names
\* operations that were started.
Known(k) == k = NoTask \/ progress[k] # "none"

StartedInOrder ==
    \A j, k \in Tasks : j < k /\ progress[k] # "none" => progress[j] # "none"

NotAfter(old, new) ==
    \/ old.task < new.task
    \/ old.task = new.task /\ Rank(old) <= Rank(new)

NotAfterRow(view, s) == base.task[s] # NoTask => NotAfter(view, TaskView(s))

\* What a fragment shows, and what the answers under way will make it show, has
\* been so, and is not later than what the row says.
FragmentFollows(f, s) ==
    /\ Known(f.shown.task) /\ NotAfterRow(f.shown, s)
    /\ f.poll = "answered" =>
          /\ f.polled.task # NoTask /\ Known(f.polled.task)
          /\ NotAfter(f.shown, f.polled) /\ NotAfterRow(f.polled, s)
    /\ f.start = "answered" =>
          /\ Known(f.started.task) /\ NotAfterRow(f.started, s)
          /\ f.attached => f.shown.task < f.started.task
    /\ f.shown.status \in Active /\ f.poll = "none" =>
          base.task[s] = NoTask \/ base.task[s] # f.shown.task

FragmentsFollow == \A b \in Tabs, s \in Stages : FragmentFollows(fragment[b][s], s)

\* One operation at a time, as long as the knowledge base exists; the row names it.
Unfinished(k) == progress[k] \in Active \cup {"staged"}

OneUnfinished ==
    /\ \A s \in Stages : Known(base.task[s])
    /\ base.exists => \A k \in Tasks : Unfinished(k) => base.task[stageOf[k]] = k
    /\ base.exists => \A j, k \in Tasks : Unfinished(j) /\ Unfinished(k) => j = k
    /\ ~base.exists => \A k \in Tasks : progress[k] # "staged"

\* The index of the row, and the one about to be, is of the files of the row.
IndexFits ==
    /\ \A k \in Tasks : progress[k] = "staged" => builtFrom[k] = base.files
    /\ base.index # NoTask =>
          progress[base.index] = "SUCCESS" /\ builtFrom[base.index] = base.files

\* An index that the row has dropped never comes back, so that one that is still
\* there has been there since the page was begun.
PageFits(v) ==
    /\ v.at \in {"row", "files"} /\ v.wanted # NoTask => progress[v.wanted] = "SUCCESS"
    /\ v.at = "row" /\ v.wanted # NoTask => (v.converted <=> builtFrom[v.wanted] # NoTask)
    /\ v.at = "files" /\ v.wanted # NoTask /\ base.index = v.wanted =>
          v.files = builtFrom[v.wanted]
    /\ v.at \in {"index", "blobs", "open"} /\ v.index # NoTask =>
          progress[v.index] = "SUCCESS" /\ v.files = builtFrom[v.index]

FilePagesFit == \A b \in Viewings : PageFits(filePage[b])

PagesInvariant ==
    StartedInOrder /\ OneUnfinished /\ FragmentsFollow /\ IndexFits /\ FilePagesFit

=============================================================================
