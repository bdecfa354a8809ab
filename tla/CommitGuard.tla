----------------------------- MODULE CommitGuard -----------------------------
(***************************************************************************)
(* The hook that forbids commit() outside the session dependencies           *)
(* (pre_commits/session_commit_guard): grep picks the files with a candidate, *)
(* files with a function that may commit are parsed in any case, and every    *)
(* file is parsed when grep fails.                                            *)
(***************************************************************************)
EXTENDS Naturals

CONSTANTS
    Positions,      \* positions in the list of staged files
    PythonFiles     \* the files that may be staged

\* A def spans lines; a call stands on one, or is split over it and the next.
\* "name" is x.commit() or a.x.commit(), "computed" is f().commit(), and "text"
\* a comment or a string that looks like a call.
Defs == [name : {"get_db_session", "other"}, first : Nat, last : Nat]
CommitCalls == [line : Nat, receiver : {"name", "computed", "text"}, split : BOOLEAN]

ASSUME CommitGuardAssumption ==
    \A f \in PythonFiles :
        /\ f.defs \subseteq Defs /\ f.calls \subseteq CommitCalls
        /\ f.python \in BOOLEAN /\ f.excluded \in BOOLEAN
        /\ f.allowed \subseteq {"get_db_session", "other"}
        /\ f.readable \in BOOLEAN /\ f.parses \in BOOLEAN

\* Python's grammar: a def begins a line of its own, and of two defs one is in
\* the other or ends before the other begins.
ASSUME DefsAssumption ==
    \A f \in PythonFiles : \A d, e \in f.defs :
        /\ d.first = e.first => d = e
        /\ d.first < e.first => e.last <= d.last \/ d.last < e.first

VARIABLES
    staged,         \* the file at each position
    grepWorks,
    queue,          \* the positions to parse
    parsed,         \* the positions parsed
    violations,     \* what was found: positions and calls
    exit            \* "choosing", "running", or the exit code: 0, 1 or 2

guardVars == <<staged, grepWorks, queue, parsed, violations, exit>>

GuardTypeOK ==
    /\ staged \in [Positions -> PythonFiles] /\ grepWorks \in BOOLEAN
    /\ queue \subseteq Positions
    /\ parsed \subseteq Positions
    /\ \A v \in violations : v[1] \in Positions /\ v[2] \in staged[v[1]].calls
    /\ exit \in {"choosing", "running", "ok", "error", "usage"}

GuardInit ==
    /\ staged \in [Positions -> PythonFiles] /\ grepWorks \in BOOLEAN
    /\ queue = {} /\ parsed = {} /\ violations = {} /\ exit = "choosing"

InScope(p) == staged[p].python /\ ~staged[p].excluded

\* The regular expression of Python runs over line ends, grep's does not.
LooksLikeCommit(call) == call.receiver # "computed"
GrepFinds(f) == \E call \in f.calls : LooksLikeCommit(call) /\ ~call.split

\* Mutant: a grep that fails has found nothing.
ChooseFilesByGrep ==
    /\ exit = "choosing" /\ exit' = "running"
    /\ queue' = {p \in Positions :
                    InScope(p) /\ (staged[p].allowed # {} \/ (grepWorks /\ GrepFinds(staged[p])))}
    /\ UNCHANGED <<staged, grepWorks, parsed, violations>>

ChooseFiles ==
    /\ exit = "choosing" /\ exit' = "running"
    /\ queue' = {p \in Positions :
                    InScope(p) /\ (staged[p].allowed # {} \/ ~grepWorks \/ GrepFinds(staged[p]))}
    /\ UNCHANGED <<staged, grepWorks, parsed, violations>>

\* The last of the defs around the line, which is the innermost.
FunctionForCall(f, call) ==
    LET around == {d \in f.defs : d.first <= call.line /\ call.line <= d.last} IN
    IF around = {} THEN "<module>"
    ELSE (CHOOSE d \in around : \A e \in around : e.first <= d.first).name

ForbiddenCalls(f) ==
    {call \in f.calls : call.receiver = "name" /\ FunctionForCall(f, call) \notin f.allowed}

\* A file that cannot be read, or has a candidate and does not parse, ends the
\* hook.
ScanFile(p) ==
    /\ exit = "running" /\ p \in queue \ parsed
    /\ \A q \in queue \ parsed : p <= q
    /\ parsed' = parsed \cup {p}
    /\ IF ~staged[p].readable
       THEN exit' = "usage" /\ UNCHANGED violations
       ELSE IF ~ \E call \in staged[p].calls : LooksLikeCommit(call)
       THEN UNCHANGED <<violations, exit>>
       ELSE IF ~staged[p].parses
       THEN exit' = "usage" /\ UNCHANGED violations
       ELSE /\ violations' = violations \cup ({p} \X ForbiddenCalls(staged[p]))
            /\ UNCHANGED exit
    /\ UNCHANGED <<staged, grepWorks, queue>>

EndGuard ==
    /\ exit = "running" /\ queue \subseteq parsed
    /\ exit' = IF violations = {} THEN "ok" ELSE "error"
    /\ UNCHANGED <<staged, grepWorks, queue, parsed, violations>>

GuardNext == ChooseFiles \/ (\E p \in Positions : ScanFile(p)) \/ EndGuard

GuardSpec == GuardInit /\ [][GuardNext]_guardVars

-----------------------------------------------------------------------------
(* Properties *)

\* A def that a line is in, and that has no other def in it that the line is in.
Encloses(f, d, call) ==
    /\ d.first <= call.line /\ call.line <= d.last
    /\ ~ \E e \in f.defs \ {d} :
          e.first <= call.line /\ call.line <= e.last /\ d.first <= e.first /\ e.last <= d.last

MayCommit(f, call) == \E d \in f.defs : Encloses(f, d, call) /\ d.name \in f.allowed

\* A commit goes through only without forbidden calls: whether the file was
\* found by grep, by the list of allowed functions or because grep failed, and
\* with functions defined in each other.  (A call split over lines escapes grep.)
NothingSlipsThrough ==
    exit = "ok" =>
        \A p \in Positions, call \in UNION {staged[q].calls : q \in Positions} :
            InScope(p) /\ call \in staged[p].calls /\ call.receiver = "name"
                /\ (~call.split \/ ~grepWorks \/ staged[p].allowed # {}) =>
            MayCommit(staged[p], call)

\* What is reported is a call outside the functions that may commit.
OnlyCommitsReported ==
    \A v \in violations :
        v[2].receiver = "name" /\ ~MayCommit(staged[v[1]], v[2]) /\ InScope(v[1])

\* The guard lets through what it should, and reports what it should.
VerdictIsRight == NothingSlipsThrough /\ OnlyCommitsReported

=============================================================================
