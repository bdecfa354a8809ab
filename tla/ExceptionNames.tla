--------------------------- MODULE ExceptionNames ---------------------------
(***************************************************************************)
(* The hook that asks exception classes to be named ...Exception or ...Error *)
(* (pre_commits/exception_name_guard).  Which classes of a file are          *)
(* exceptions is found by passes over them, in whatever order they are       *)
(* defined, until a pass adds nothing.                                       *)
(***************************************************************************)
EXTENDS Naturals

CONSTANTS
    FileCount,      \* how many files are staged
    ClassCount,     \* classes in a file
    ClassNames,     \* names of classes and of their bases
    WellNamed,      \* the names that end in Exception or Error
    RootNames       \* BaseException and Exception

ASSUME ExceptionNamesAssumption ==
    /\ FileCount \in Nat /\ ClassCount \in Nat
    /\ RootNames \subseteq WellNamed /\ WellNamed \subseteq ClassNames

Classes == 1..ClassCount

VARIABLES
    unchecked,      \* how many files are left
    className,      \* of each class of the file being checked
    classBases,
    found,          \* the classes found to be exceptions
    exceptionNames, \* the names of exceptions so far
    at,             \* the class this pass looks at next, or 0 between files
    grown,          \* this pass has found one
    complaint       \* some file had an error

namesVars ==
    <<unchecked, className, classBases, found, exceptionNames, at, grown, complaint>>
file == <<unchecked, className, classBases>>

NamesTypeOK ==
    /\ unchecked \in 0..FileCount
    /\ className \in [Classes -> ClassNames]
    /\ classBases \in [Classes -> SUBSET ClassNames]
    /\ found \subseteq Classes /\ exceptionNames \subseteq ClassNames
    /\ at \in 0..(ClassCount + 1)
    /\ grown \in BOOLEAN /\ complaint \in BOOLEAN

NamesInit ==
    /\ unchecked = FileCount
    /\ className = [c \in Classes |-> CHOOSE n \in ClassNames : TRUE]
    /\ classBases = [c \in Classes |-> {}]
    /\ found = {} /\ exceptionNames = RootNames
    /\ at = 0 /\ grown = FALSE /\ complaint = FALSE

\* The next file parses; it starts with a first pass.
OpenFile ==
    /\ at = 0 /\ unchecked > 0
    /\ unchecked' = unchecked - 1
    /\ className' \in [Classes -> ClassNames]
    /\ classBases' \in [Classes -> SUBSET ClassNames]
    /\ found' = {} /\ exceptionNames' = RootNames
    /\ at' = 1 /\ grown' = FALSE
    /\ UNCHANGED complaint

\* It is missing, may not be read, is not UTF-8, or does not parse.
SkipFile ==
    /\ at = 0 /\ unchecked > 0
    /\ unchecked' = unchecked - 1
    /\ complaint' = TRUE
    /\ UNCHANGED <<className, classBases, found, exceptionNames, at, grown>>

IsExceptionBase(b) == b \in exceptionNames \cup WellNamed

\* Mutant: one pass is enough.
LookAtClassOnce ==
    /\ at \in Classes
    /\ at' = at + 1
    /\ IF at \notin found /\ \E b \in classBases[at] : IsExceptionBase(b)
       THEN /\ found' = found \cup {at}
            /\ exceptionNames' = exceptionNames \cup {className[at]}
       ELSE UNCHANGED <<found, exceptionNames>>
    /\ UNCHANGED <<file, grown, complaint>>

LookAtClass ==
    /\ at \in Classes
    /\ at' = at + 1
    /\ IF at \notin found /\ \E b \in classBases[at] : IsExceptionBase(b)
       THEN /\ found' = found \cup {at}
            /\ exceptionNames' = exceptionNames \cup {className[at]}
            /\ grown' = TRUE
       ELSE UNCHANGED <<found, exceptionNames, grown>>
    /\ UNCHANGED <<file, complaint>>

PassAgain ==
    /\ at = ClassCount + 1 /\ grown
    /\ at' = 1 /\ grown' = FALSE
    /\ UNCHANGED <<file, found, exceptionNames, complaint>>

CloseFile ==
    /\ at = ClassCount + 1 /\ ~grown
    /\ at' = 0
    /\ complaint' = (complaint \/ \E c \in found : className[c] \notin WellNamed)
    /\ UNCHANGED <<file, found, exceptionNames, grown>>

NamesNext == OpenFile \/ SkipFile \/ LookAtClass \/ PassAgain \/ CloseFile

NamesSpec == NamesInit /\ [][NamesNext]_namesVars

-----------------------------------------------------------------------------
(* Properties *)

\* A set of classes with which every class derived from one of them, or from a
\* name that is an exception's by itself, is in it.
ClosedUnderBases(S) ==
    \A c \in Classes :
        (\E b \in classBases[c] :
            b \in WellNamed \/ \E d \in S : className[d] = b) => c \in S

\* When the passes end, what was found is exactly what descends from an
\* exception by name: through any number of classes, and in any order of
\* definition.  Nothing else is ever found.
FindsTheDescendants ==
    /\ \A S \in SUBSET Classes : ClosedUnderBases(S) => found \subseteq S
    /\ at = ClassCount + 1 /\ ~grown => ClosedUnderBases(found)

(* Why: a pass that has added nothing has left nothing behind it *)

NamesInvariant ==
    /\ found \subseteq Classes /\ at \in 0..(ClassCount + 1) /\ grown \in BOOLEAN
    /\ exceptionNames = RootNames \cup {className[c] : c \in found}
    /\ \A S \in SUBSET Classes : ClosedUnderBases(S) => found \subseteq S
    /\ ~grown => \A c \in Classes :
                    c < at /\ (\E b \in classBases[c] : IsExceptionBase(b)) => c \in found

=============================================================================
