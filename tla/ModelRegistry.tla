---------------------------- MODULE ModelRegistry ----------------------------
(***************************************************************************)
(* The hook that keeps db/registry.py importing every model                 *)
(* (pre_commits/model_registry), between the edits of a developer and the   *)
(* commits that it lets through.                                            *)
(***************************************************************************)
CONSTANTS
    Models,         \* classes derived from Base, with their modules
    Hidden,         \* the ones in db/ or in private modules of a package
    Headers         \* what may stand before the imports, see below

\* "doc" is a docstring and comments; in "prose" a line of the docstring starts
\* with the word from; "cut" is what is left of it before that line, which is
\* not Python, and "none" is nothing at all.
ASSUME RegistryAssumption ==
    Hidden \subseteq Models /\ Headers \subseteq {"doc", "prose", "cut", "none"}

VARIABLES
    models,         \* the classes that the code defines now
    readable,       \* every models.py parses
    registry,       \* db/registry.py: its header, and the models it imports
    verdict,        \* of the last run of the hook, or "none" after an edit
    firstVerdict    \* of the run before it, when nothing was edited in between

registryVars == <<models, readable, registry, verdict, firstVerdict>>

RegistryTypeOK ==
    /\ models \subseteq Models /\ readable \in BOOLEAN
    /\ registry \in [header : {"doc", "prose", "cut", "none"}, imports : SUBSET Models]
    /\ {verdict, firstVerdict} \subseteq {"none", "in sync", "rewritten", "out of sync", "failed"}

RegistryInit ==
    /\ models \in SUBSET Models /\ readable = TRUE
    /\ registry \in [header : Headers, imports : SUBSET Models]
    /\ verdict = "none" /\ firstVerdict = "none"

\* A developer adds or removes a model, breaks or mends a file, or edits the
\* registry.
EditModels ==
    /\ models' \in SUBSET Models /\ readable' \in BOOLEAN
    /\ verdict' = "none" /\ firstVerdict' = "none"
    /\ UNCHANGED registry

EditRegistry ==
    /\ registry' \in [header : Headers, imports : SUBSET Models]
    /\ verdict' = "none" /\ firstVerdict' = "none"
    /\ UNCHANGED <<models, readable>>

DiscoverModels == models \ Hidden

\* Mutant: the header is taken for a part of the imports.
SplitHeaderDropped(header) == IF header = "none" THEN "doc" ELSE "none"

\* _split_header: all that stands before the first line that looks like an
\* import; a registry without a header gets a docstring.
SplitHeader(header) ==
    CASE header = "none" -> "doc" [] header = "prose" -> "cut" [] OTHER -> header

GenerateRegistry == [header |-> SplitHeader(registry.header), imports |-> DiscoverModels]

RunCheck(check) ==
    /\ firstVerdict' = verdict
    /\ IF ~readable THEN verdict' = "failed" /\ UNCHANGED registry
       ELSE IF DiscoverModels = {}
       THEN verdict' = (IF check THEN "out of sync" ELSE "rewritten") /\ UNCHANGED registry
       ELSE IF registry = GenerateRegistry
       THEN verdict' = "in sync" /\ UNCHANGED registry
       ELSE IF check THEN verdict' = "out of sync" /\ UNCHANGED registry
       ELSE verdict' = "rewritten" /\ registry' = GenerateRegistry
    /\ UNCHANGED <<models, readable>>

RegistryNext == EditModels \/ EditRegistry \/ \E check \in BOOLEAN : RunCheck(check)

RegistrySpec == RegistryInit /\ [][RegistryNext]_registryVars

-----------------------------------------------------------------------------
(* Properties *)

\* What Python imports when it loads the registry: nothing once the docstring has
\* lost its end.
Imported(r) == IF r.header = "cut" THEN {} ELSE r.imports

\* A commit that goes through has a registry that imports every model that can
\* be found and no other, so that migrations see all the tables: unless a run has
\* cut the docstring before a line of prose.  The hook finds such a registry in
\* sync, although it imports nothing.
CommittedIsComplete ==
    verdict = "in sync" /\ registry.header # "cut" => Imported(registry) = DiscoverModels

\* The run after one that rewrote the registry lets the commit through, and the
\* check of the CI agrees with it: unless there is no model at all.
RewritingSettles ==
    firstVerdict = "rewritten" /\ DiscoverModels # {} => verdict = "in sync"

\* Both together: the hook comes to rest, on a registry that is complete if its
\* docstring is whole.
RegistrySettles == CommittedIsComplete /\ RewritingSettles

(* Why: what a run has written is what the next one would write *)

RegistryInvariant ==
    /\ RegistrySettles
    /\ verdict = "rewritten" /\ DiscoverModels # {} => readable /\ registry = GenerateRegistry

=============================================================================
