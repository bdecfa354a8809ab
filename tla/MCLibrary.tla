------------------------------ MODULE MCLibrary ------------------------------
(***************************************************************************)
(* SourceLibrary, FileScroll, KnowledgeBasePages and the models of the      *)
(* pre-commit hooks for TLC.  They share no state, and are checked side by  *)
(* side: `part` says which of them a behaviour is of.                       *)
(***************************************************************************)
EXTENDS SourceLibrary, FileScroll, KnowledgeBasePages,
        CssDirectives, ExceptionNames, CommitGuard, ModelRegistry, TemplateNames, TLC

CONSTANTS r1, r2, s1, s2, b1, u1, u2, f1, f2, f3, f4, t1, t2, m1, m2, m3

VARIABLE part

-----------------------------------------------------------------------------
(* Data for the hooks *)

\* References without repetitions: a second one changes nothing.
ReferenceLists ==
    {s \in UNION {[1..n -> 1..3] : n \in 0..2} : \A i, j \in DOMAIN s : i < j => s[i] < s[j]}

PlainText == [own |-> <<>>, behind |-> <<>>, lineStart |-> TRUE, tidy |-> TRUE]

\* One component at most has a directive, or no plain line to insert one.
StyledTexts ==
    LET Odd == {[PlainText EXCEPT !.own = <<3>>, !.tidy = b] : b \in BOOLEAN}
               \cup {[PlainText EXCEPT !.tidy = FALSE]}
               \cup {[PlainText EXCEPT !.behind = b, !.lineStart = FALSE] : b \in {<<>>, <<3>>}}
    IN {[c \in 1..3 |-> IF c = odd THEN t ELSE PlainText] : odd \in 1..3, t \in Odd \cup {PlainText}}

Def(name, first, last) == [name |-> name, first |-> first, last |-> last]

CommitCallsAtTwo ==
    [line : {2}, receiver : {"name", "computed", "text"}, split : BOOLEAN]

\* Files with one call or none: in a module, a function, or a function in
\* another; and files that the hook passes over.
CommitFiles ==
    [defs : {{}, {Def("other", 1, 2)}, {Def("other", 1, 2), Def("get_db_session", 2, 2)}},
     calls : {{}} \cup {{c} : c \in CommitCallsAtTwo},
     python : {TRUE}, excluded : {FALSE}, allowed : {{}, {"get_db_session"}},
     readable : {TRUE}, parses : BOOLEAN]
    \cup
    [defs : {{}}, calls : {{c} : c \in CommitCallsAtTwo},
     python : BOOLEAN, excluded : BOOLEAN, allowed : {{}},
     readable : BOOLEAN, parses : {TRUE}]

Tokens ==
    {<<"use", "a">>, <<"use", "b">>, <<"use", "loop">>,
     <<"set", "b">>, <<"for", "b">>, <<"with", "b">>, <<"if", "">>, <<"else", "">>,
     <<"end", "">>, <<"include", "part">>, <<"bare", "part">>}

\* An else stands in an if or a for that has none yet.
WellFormed(s) ==
    /\ Parses(s)
    /\ \A n \in 1..Len(s) : s[n][1] = "else" =>
          \E i \in 1..n : /\ s[i][1] \in {"if", "for"}
                          /\ \A j \in (i + 1)..(n - 1) :
                                s[j][1] \notin BlockKinds \cup {"end", "else"}

PageTexts == {s \in UNION {[1..n -> Tokens] : n \in 0..4} : WellFormed(s)}

PartTexts ==
    {<<>>, <<<<"use", "b">>>>, <<<<"default", "b">>, <<"use", "b">>>>, <<<<"set", "b">>>>,
     <<<<"include", "page">>>>, <<<<"if", "">>, <<"bare", "page">>, <<"end", "">>>>,
     <<<<"use", "a">>>>}

TemplateTexts == PageTexts \cup PartTexts

ProvidedNames == {{}, {"a"}}

-----------------------------------------------------------------------------
(* One part at a time: the others rest in some state of theirs *)

\* What the hooks rest on is among what they may be given.
ASSUME RestAssumption ==
    /\ <<>> \in References /\ "E" \in ClassNames /\ \E f \in PythonFiles : f.calls = {}
    /\ StartingTexts # {} /\ <<>> \in Texts /\ {} \in Contexts

CssRests ==
    /\ refs = [c \in Components |-> <<>>]
    /\ written = (CHOOSE t \in StartingTexts : TRUE) /\ css = written
    /\ cache = <<>> /\ stack = <<>> /\ todo = InOrder(Components) /\ runs = 0 /\ changed = {}

NamesRest ==
    /\ unchecked = 0 /\ className = [c \in Classes |-> "E"]
    /\ classBases = [c \in Classes |-> {}] /\ found = {} /\ exceptionNames = RootNames
    /\ at = 0 /\ grown = FALSE /\ complaint = FALSE

GuardRests ==
    /\ staged = [p \in Positions |-> CHOOSE f \in PythonFiles : f.calls = {}]
    /\ grepWorks = TRUE /\ queue = {} /\ parsed = {} /\ violations = {} /\ exit = "choosing"

RegistryRests ==
    /\ models = {} /\ readable = TRUE /\ registry = [header |-> "doc", imports |-> {}]
    /\ verdict = "none" /\ firstVerdict = "none"

TemplatesRest ==
    /\ text = [t \in Templates |-> <<>>] /\ context = {} /\ mode = "done"
    /\ frames = <<>> /\ reported = {} /\ cyclic = FALSE /\ visited = {} /\ missing = {}

Init ==
    /\ part \in {"library", "scroll", "detail page", "file page",
                "css", "names", "guard", "registry", "templates"}
    /\ LibraryInit /\ ScrollInit /\ PagesInit
    /\ IF part = "css" THEN CssInit ELSE CssRests
    /\ IF part = "names" THEN NamesInit ELSE NamesRest
    /\ IF part = "guard" THEN GuardInit ELSE GuardRests
    /\ IF part = "registry" THEN RegistryInit ELSE RegistryRests
    /\ IF part = "templates"
       THEN text \in [page : PageTexts, part : PartTexts] /\ TemplatesInit
       ELSE TemplatesRest

\* The detail page and the file page of a knowledge base only share the server.
server == <<libraryVars, scrollVars, pagesVars>>
hooks == <<cssVars, namesVars, guardVars, registryVars, templateVars>>

Next ==
    /\ \/ part = "library" /\ LibraryNext /\ UNCHANGED <<scrollVars, pagesVars, hooks>>
       \/ part = "scroll" /\ ScrollNext /\ UNCHANGED <<libraryVars, pagesVars, hooks>>
       \/ /\ \/ part = "detail page" /\ UNCHANGED filePage
             \/ part = "file page" /\ UNCHANGED <<fragment, indexButton>>
          /\ PagesNext /\ UNCHANGED <<libraryVars, scrollVars, hooks>>
       \/ /\ part = "css" /\ CssNext
          /\ UNCHANGED <<server, namesVars, guardVars, registryVars, templateVars>>
       \/ /\ part = "names" /\ NamesNext
          /\ UNCHANGED <<server, cssVars, guardVars, registryVars, templateVars>>
       \/ /\ part = "guard" /\ GuardNext
          /\ UNCHANGED <<server, cssVars, namesVars, registryVars, templateVars>>
       \/ /\ part = "registry" /\ RegistryNext
          /\ UNCHANGED <<server, cssVars, namesVars, guardVars, templateVars>>
       \/ /\ part = "templates" /\ TemplatesNext
          /\ UNCHANGED <<server, cssVars, namesVars, guardVars, registryVars>>
    /\ UNCHANGED part

Spec == Init /\ [][Next]_<<server, hooks, part>>

\* Every variable of every part has its type.
TypeOK ==
    /\ LibraryTypeOK /\ ScrollTypeOK /\ PagesTypeOK
    /\ CssTypeOK /\ NamesTypeOK /\ GuardTypeOK /\ RegistryTypeOK /\ TemplatesTypeOK

\* Request slots and source ids are interchangeable.
Symmetry == Permutations(Edits) \cup Permutations(SourceIds)

=============================================================================
