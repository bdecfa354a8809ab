------------------------- MODULE HarnessEnvironment -------------------------
(***************************************************************************)
(* The test environment of a worktree (harness/test): `up` replaces         *)
(* config.test.yaml and starts containers, `teardown` stops them and puts   *)
(* the file back, `run` does both around a command.  Commands fail, are     *)
(* killed, and leave files behind for the next command to find.             *)
(***************************************************************************)
CONSTANTS
    Commands,       \* processes of the command line in this worktree
    Faults          \* what may go wrong: see the actions that fail, and Killed

Modes == {"local", "docker"}
NoState == [mode |-> "none", status |-> "none"]

VARIABLES
    config,         \* config.test.yaml: "original", "active", or "torn" by a copy
    backup,         \* its copy in the state directory, or "none"
    state,          \* state.yaml, or NoState
    containers,     \* the compose project has containers
    cmd             \* [name, mode, at] of each process

harnessVars == <<config, backup, state, containers, cmd>>
files == <<config, backup, state, containers>>

Contents == {"original", "active", "torn"}

\* The statements of up (1), teardown (2), and of run around them, in order.
Places ==
    {"idle", "check",
     "read", "allocate", "prepare", "save", "replace", "write", "compose", "undo_down",
     "undo_restore", "undo_clear", "ready", "command",
     "find", "down", "restore", "clear"}

Resting == [name |-> "up", mode |-> "local", at |-> "idle"]

HarnessTypeOK ==
    /\ config \in Contents
    /\ backup \in Contents \cup {"none"}
    /\ state \in [mode : Modes, status : {"starting", "ready"}] \cup {NoState}
    /\ containers \in BOOLEAN
    /\ cmd \in [Commands -> [name : {"up", "teardown", "run"}, mode : Modes, at : Places]]

HarnessInit ==
    /\ config = "original" /\ backup = "none"
    /\ state = NoState /\ containers = FALSE
    /\ cmd = [p \in Commands |-> Resting]

Goes(p, from, to) ==
    /\ cmd[p].at = from
    /\ cmd' = [cmd EXCEPT ![p].at = to]

Ends(p) == cmd' = [cmd EXCEPT ![p] = Resting]

\* `run` tears down whatever happened; `up` ends with an error.
FailsAt(p, from) ==
    /\ cmd[p].at = from
    /\ IF cmd[p].name = "run" THEN cmd' = [cmd EXCEPT ![p].at = "find"] ELSE Ends(p)

-----------------------------------------------------------------------------
(* environment.up *)

Start(p, name, mode) ==
    /\ cmd[p].at = "idle"
    /\ cmd' = [cmd EXCEPT ![p] = [name |-> name, mode |-> mode, at |->
                  CASE name = "up" -> "read" [] name = "teardown" -> "find"
                    [] name = "run" -> "check"]]
    /\ UNCHANGED files

\* `run` refuses a worktree that has an environment.
CheckNone(p) ==
    /\ IF state = NoState THEN Goes(p, "check", "read")
       ELSE cmd[p].at = "check" /\ Ends(p)
    /\ UNCHANGED files

\* An environment of the same mode is returned as it is, whatever its status.
ReadState(p) ==
    /\ IF state = NoState THEN Goes(p, "read", "allocate")
       ELSE IF state.mode # cmd[p].mode THEN FailsAt(p, "read")
       ELSE IF cmd[p].name = "run" THEN Goes(p, "read", "command")
       ELSE cmd[p].at = "read" /\ Ends(p)
    /\ UNCHANGED files

\* A port that was asked for is taken, or there is none in the range.
Allocate(p) ==
    /\ \/ Goes(p, "allocate", "prepare")
       \/ "load" \in Faults /\ FailsAt(p, "allocate")
    /\ UNCHANGED files

\* validate, a second look at the state, and the two active files.  A file that
\* is torn may still be a valid one.
Prepare(p) ==
    /\ \/ state = NoState /\ Goes(p, "prepare", "save")
       \/ (state # NoState \/ config = "torn") /\ FailsAt(p, "prepare")
    /\ UNCHANGED files

PrepareFails(p) == "load" \in Faults /\ FailsAt(p, "prepare") /\ UNCHANGED files

SaveOriginal(p) ==
    /\ Goes(p, "save", "replace")
    /\ backup' = config
    /\ UNCHANGED <<config, state, containers>>

SaveFails(p) ==
    /\ "copy" \in Faults /\ FailsAt(p, "save")
    /\ backup' = "torn"
    /\ UNCHANGED <<config, state, containers>>

Replace(p) ==
    /\ Goes(p, "replace", "write")
    /\ config' = "active"
    /\ UNCHANGED <<backup, state, containers>>

\* Mutant: a copy that fails is left as it is.
ReplaceFailsTorn(p) ==
    /\ "copy" \in Faults /\ FailsAt(p, "replace")
    /\ config' = "torn"
    /\ UNCHANGED <<backup, state, containers>>

\* A copy that fails half way is copied back.
ReplaceFails(p) ==
    /\ "copy" \in Faults /\ FailsAt(p, "replace")
    /\ config' = backup
    /\ UNCHANGED <<backup, state, containers>>

\* Copying it back fails in its turn.
ReplaceUndoFails(p) ==
    /\ "undo_preparing" \in Faults /\ FailsAt(p, "replace")
    /\ config' = "torn"
    /\ UNCHANGED <<backup, state, containers>>

WriteState(p) ==
    /\ Goes(p, "write", "compose")
    /\ state' = [mode |-> cmd[p].mode, status |-> "starting"]
    /\ UNCHANGED <<config, backup, containers>>

\* Nothing catches this one: the configuration stays replaced.
WriteStateFails(p) ==
    /\ "record_preparing" \in Faults /\ FailsAt(p, "write")
    /\ UNCHANGED files

ComposeUp(p) ==
    /\ Goes(p, "compose", "ready")
    /\ containers' = TRUE
    /\ UNCHANGED <<config, backup, state>>

\* The database, the migrations or the health checks fail; or there is no docker
\* to ask, which is another error, and undoes nothing.
ComposeFails(p) ==
    /\ "compose" \in Faults
    /\ Goes(p, "compose", "undo_down") \/ FailsAt(p, "compose")
    /\ containers' \in {containers, TRUE}
    /\ UNCHANGED <<config, backup, state>>

\* A failing `docker compose down` is ignored here.
UndoDown(p) ==
    /\ Goes(p, "undo_down", "undo_restore")
    /\ \/ containers' = FALSE
       \/ "down" \in Faults /\ UNCHANGED containers
    /\ UNCHANGED <<config, backup, state>>

CopyBack == config' = IF backup = "none" THEN config ELSE backup

UndoRestore(p) ==
    /\ Goes(p, "undo_restore", "undo_clear")
    /\ CopyBack
    /\ UNCHANGED <<backup, state, containers>>

\* A copy that tears the file, if there is one to copy.
CopyBackFails ==
    /\ "restore" \in Faults /\ backup # "none"
    /\ config' = "torn"
    /\ UNCHANGED <<backup, state, containers>>

UndoRestoreFails(p) == FailsAt(p, "undo_restore") /\ CopyBackFails

Clear == state' = NoState /\ backup' = "none"

UndoClear(p) ==
    /\ FailsAt(p, "undo_clear")
    /\ Clear
    /\ UNCHANGED <<config, containers>>

\* rmtree takes the files in any order, and may not take them all.
ClearFails ==
    /\ "clear" \in Faults
    /\ state' \in {state, NoState}
    /\ backup' \in {backup, "none"}
    /\ UNCHANGED <<config, containers>>

UndoClearFails(p) == FailsAt(p, "undo_clear") /\ ClearFails

MarkReady(p) ==
    /\ cmd[p].at = "ready"
    /\ state' = [mode |-> cmd[p].mode, status |-> "ready"]
    /\ IF cmd[p].name = "run" THEN Goes(p, "ready", "command") ELSE Ends(p)
    /\ UNCHANGED <<config, backup, containers>>

MarkReadyFails(p) ==
    /\ "record" \in Faults /\ FailsAt(p, "ready")
    /\ UNCHANGED files

\* The command of `run` has ended, well or not.
CommandEnds(p) == Goes(p, "command", "find") /\ UNCHANGED files

-----------------------------------------------------------------------------
(* environment.teardown *)

Find(p) ==
    /\ IF state = NoState THEN cmd[p].at = "find" /\ Ends(p)
       ELSE Goes(p, "find", "down")
    /\ UNCHANGED files

Down(p) ==
    /\ Goes(p, "down", "restore")
    /\ containers' = FALSE
    /\ UNCHANGED <<config, backup, state>>

DownFails(p) ==
    /\ "down" \in Faults
    /\ cmd[p].at = "down" /\ Ends(p)
    /\ UNCHANGED files

Restore(p) ==
    /\ Goes(p, "restore", "clear")
    /\ CopyBack
    /\ UNCHANGED <<backup, state, containers>>

RestoreFails(p) ==
    /\ cmd[p].at = "restore" /\ Ends(p)
    /\ CopyBackFails

ClearState(p) ==
    /\ cmd[p].at = "clear" /\ Ends(p)
    /\ Clear
    /\ UNCHANGED <<config, containers>>

ClearStateFails(p) ==
    /\ cmd[p].at = "clear" /\ Ends(p)
    /\ ClearFails

-----------------------------------------------------------------------------
(* A process is killed *)

\* Half way through a copy, or through removing the state directory, whose
\* files go in any order.
Killed(p) ==
    /\ cmd[p].at # "idle"
    /\ IF cmd[p].at \in {"save", "replace", "write"}
       THEN "kill_preparing" \in Faults ELSE "kill" \in Faults
    /\ Ends(p)
    /\ config' \in {config} \cup
          (IF cmd[p].at \in {"replace", "restore", "undo_restore"} /\ backup # "none"
           THEN {"torn"} ELSE {})
    /\ backup' \in {backup} \cup
          (CASE cmd[p].at = "save" -> {"torn"}
             [] cmd[p].at \in {"clear", "undo_clear"} -> {"none"} [] OTHER -> {})
    /\ state' \in {state} \cup
          (IF cmd[p].at \in {"clear", "undo_clear"} THEN {NoState} ELSE {})
    /\ containers' \in {containers} \cup
          (CASE cmd[p].at = "compose" -> {TRUE}
             [] cmd[p].at \in {"down", "undo_down"} -> {FALSE} [] OTHER -> {})

CommandStep(p) ==
    \/ CheckNone(p) \/ ReadState(p)
    \/ Allocate(p) \/ Prepare(p) \/ PrepareFails(p) \/ SaveOriginal(p) \/ SaveFails(p)
    \/ Replace(p) \/ ReplaceFails(p) \/ ReplaceUndoFails(p)
    \/ WriteState(p) \/ WriteStateFails(p)
    \/ ComposeUp(p) \/ ComposeFails(p)
    \/ UndoDown(p) \/ UndoRestore(p) \/ UndoRestoreFails(p)
    \/ UndoClear(p) \/ UndoClearFails(p)
    \/ MarkReady(p) \/ MarkReadyFails(p) \/ CommandEnds(p)
    \/ Find(p) \/ Down(p) \/ DownFails(p) \/ Restore(p) \/ RestoreFails(p)
    \/ ClearState(p) \/ ClearStateFails(p)

HarnessNext ==
    \/ \E p \in Commands, name \in {"up", "teardown", "run"}, mode \in Modes :
          Start(p, name, mode)
    \/ \E p \in Commands : CommandStep(p) \/ Killed(p)

HarnessSpec == HarnessInit /\ [][HarnessNext]_harnessVars

-----------------------------------------------------------------------------
(* Properties *)

Working == {p \in Commands : cmd[p].at # "idle"}

\* The three faults that leave the configuration replaced, or torn, with nothing
\* on record: prepare cannot copy back, `up` cannot write its state, or is killed
\* before it has.
OrderlyPreparation ==
    Faults \cap {"undo_preparing", "record_preparing", "kill_preparing"} = {}

\* The developer's configuration is never lost: when no command is at work, it
\* is in place, or an environment is on record that has it as its backup, so
\* that a teardown puts it back.
OriginalIsKept ==
    Working = {} => config = "original" \/ (state # NoState /\ backup = "original")

(* Why, for one command at a time: what each statement of it relies on *)

ReliedOn(at) ==
    /\ at # "write" => config = "original" \/ (state # NoState /\ backup = "original")
    /\ state # NoState => backup \in {"original", "none"}
    /\ at \in {"allocate", "prepare", "save", "replace", "write"} => state = NoState
    /\ at \in {"compose", "ready", "undo_down", "undo_restore", "down", "restore"} =>
          state # NoState
    /\ at \in {"replace", "write"} => backup = "original"
    /\ at \in {"clear", "undo_clear"} => config = "original"

HarnessInvariant == \A p \in Commands : ReliedOn(cmd[p].at)

=============================================================================
