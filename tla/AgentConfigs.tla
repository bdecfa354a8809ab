----------------------------- MODULE AgentConfigs -----------------------------
(***************************************************************************)
(* The installer of the harness' MCP server (harness/install.py): one       *)
(* command reads, changes and rewrites the JSON files of several coding     *)
(* agents, which keep settings and servers of their own in them.            *)
(***************************************************************************)
CONSTANTS
    Agents,
    Settings,       \* what the agents and their users keep in a file,
    Servers         \* and in its object of servers, beside the harness

ASSUME AgentsAssumption == {"idle", "next"} \cap Agents = {}

VARIABLES
    file,           \* the configuration file of each agent
    kept,           \* what the agents and their users have put there
    job             \* the command under way

agentVars == <<file, kept, job>>

\* A file is missing, is not JSON, is JSON but no object, or is an object; its
\* key for servers is absent, or no object, or an object.
Empty == [form |-> "object", key |-> "absent", ours |-> "none", servers |-> {}, settings |-> {}]

Configs ==
    {[Empty EXCEPT !.form = f] : f \in {"missing", "broken", "array"}} \cup
    {c \in [form : {"object"}, key : {"absent", "odd", "servers"},
            ours : {"none", "old", "current"},
            servers : SUBSET Servers, settings : SUBSET Settings] :
        c.key # "servers" => c.ours = "none" /\ c.servers = {}}

Theirs(c) == [servers |-> c.servers, settings |-> c.settings]

NoJob == [action |-> "install", at |-> "idle", left |-> {}, done |-> {}]

AgentsTypeOK ==
    /\ file \in [Agents -> Configs]
    /\ kept \in [Agents -> [servers : SUBSET Servers, settings : SUBSET Settings]]
    /\ job \in [action : {"install", "uninstall"}, at : {"idle", "next"} \cup Agents,
               left : SUBSET Agents, done : SUBSET Agents]

AgentsInit ==
    /\ file \in [Agents -> Configs]
    /\ kept = [t \in Agents |-> Theirs(file[t])]
    /\ job = NoJob

\* Targets are named, picked from the ones that are detected, or all: any of
\* them, in any order.
RunCommand(action, targets) ==
    /\ job.at = "idle" /\ targets # {}
    /\ job' = [action |-> action, at |-> "next", left |-> targets, done |-> {}]
    /\ UNCHANGED <<file, kept>>

ReadJson(c) == IF c.form \in {"missing", "broken"} THEN Empty ELSE c

Installed(data) ==
    IF data.key = "odd" \/ data.ours = "current" THEN data
    ELSE [data EXCEPT !.key = "servers", !.ours = "current"]

\* Mutant: without other servers there is nothing to keep.
UninstalledWhole(data) ==
    IF data.ours = "none" THEN data
    ELSE IF data.servers # {} THEN [data EXCEPT !.ours = "none"]
    ELSE Empty

\* The last server goes with its key.  (unlink() is for an object without any
\* key, which data that had servers never is.)
Uninstalled(data) ==
    IF data.ours = "none" THEN data
    ELSE IF data.servers # {} THEN [data EXCEPT !.ours = "none"]
    ELSE [data EXCEPT !.ours = "none", !.key = "absent"]

Change(data) == IF job.action = "install" THEN Installed(data) ELSE Uninstalled(data)

Done(t) == [job EXCEPT !.at = "next", !.left = @ \ {t}, !.done = @ \cup {t}]

\* An array has no setdefault or get: the command ends there.
HandleTarget(t) ==
    /\ job.at = "next" /\ t \in job.left
    /\ LET data == ReadJson(file[t]) IN
       job' = IF file[t].form = "array" THEN NoJob
              ELSE IF (job.action = "uninstall" /\ file[t].form = "missing")
                          \/ Change(data) = data
              THEN Done(t)
              ELSE [job EXCEPT !.at = t]
    /\ UNCHANGED <<file, kept>>

\* Nothing else writes the file between its reading and its writing.
WriteJson(t) ==
    /\ job.at = t
    /\ file' = [file EXCEPT ![t] = Change(ReadJson(file[t]))]
    /\ job' = Done(t)
    /\ UNCHANGED kept

EndCommand ==
    /\ job.at = "next" /\ job.left = {}
    /\ job' = NoJob
    /\ UNCHANGED <<file, kept>>

\* A file that may not be read or written, or a kill; write_text has emptied
\* the file before it writes it, and what was in it is lost.
EndEarly ==
    /\ job.at # "idle"
    /\ job' = NoJob
    /\ \/ UNCHANGED <<file, kept>>
       \/ /\ job.at \in Agents
          /\ file' = [file EXCEPT ![job.at] = [Empty EXCEPT !.form = "broken"]]
          /\ kept' = [kept EXCEPT ![job.at] = Theirs(Empty)]

\* An agent, or its user, writes the file, which then need not be JSON.
EditFile(t, c) ==
    /\ job.at # t
    /\ file' = [file EXCEPT ![t] = c]
    /\ kept' = [kept EXCEPT ![t] = Theirs(c)]
    /\ job' = [job EXCEPT !.done = @ \ {t}]

AgentsNext ==
    \/ \E action \in {"install", "uninstall"}, targets \in SUBSET Agents :
          RunCommand(action, targets)
    \/ \E t \in Agents : HandleTarget(t) \/ WriteJson(t)
    \/ EndCommand \/ EndEarly
    \/ \E t \in Agents, c \in Configs : EditFile(t, c)

AgentsSpec == AgentsInit /\ [][AgentsNext]_agentVars

-----------------------------------------------------------------------------
(* Properties *)

\* However often the harness is installed and removed, by commands that end
\* early or not, what others keep in a file stays in it.
TheirsIsKept == \A t \in Agents : Theirs(file[t]) = kept[t]

\* Whatever was in the files, a target that a command has reported is as the
\* command promises, unless it said that the user has to do it, and as long as
\* nobody edits the file: also when the command fails for a later one.
ReportedTargetsAgree ==
    \A t \in job.done :
        IF job.action = "install"
        THEN file[t].ours = "current" \/ file[t].key = "odd"
        ELSE file[t].ours = "none"

\* Neither side loses what is its own, and the report is true.
AgentFilesAgree == TheirsIsKept /\ ReportedTargetsAgree

(* Why: an array is never rewritten *)

AgentsInvariant ==
    AgentFilesAgree /\ \A t \in Agents : job.at = t => file[t].form # "array"

=============================================================================
