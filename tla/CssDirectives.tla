---------------------------- MODULE CssDirectives ----------------------------
(***************************************************************************)
(* The hook that keeps the {#css ...#} directives of the components in step *)
(* with the components they reference (pre_commits/jinjax_css_dependencies):*)
(* a depth-first walk with a cache, and files rewritten one after another.  *)
(***************************************************************************)
EXTENDS Naturals, Sequences, FiniteSets, SequencesExt

CONSTANTS
    ComponentCount, \* components are numbered in the order of their paths
    Styled,         \* the components that have a style sheet, named after them
    References,     \* the lists of references that a component may have
    StartingTexts   \* what may be written in the components to begin with

Components == 1..ComponentCount

\* What matters of a text.  The hook finds a directive that begins a line, and
\* inserts one after the definition, and the white space after that, if it finds
\* none: where the line has begun already, it will not find what it inserts.
ComponentTexts ==
    [own : Seq(Components),     \* the assets in the directive that is found
     behind : Seq(Components),  \* in one on the line of the definition
     lineStart : BOOLEAN,       \* an inserted directive begins a line
     tidy : BOOLEAN]            \* the directive is written as the hook writes it,
                                \* and has no white space around it to swallow

ASSUME CssAssumption ==
    /\ ComponentCount \in Nat /\ Styled \subseteq Components
    /\ References \subseteq Seq(Components)
    /\ StartingTexts \subseteq [Components -> ComponentTexts]
    /\ \A t \in StartingTexts : \A c \in Components : t[c].behind # <<>> => ~t[c].lineStart

VARIABLES
    refs,           \* the references of each component, in the order of its text
    written,        \* the texts as the authors have written them
    css,            \* the texts now
    cache,          \* dependencies by component, for the components resolved
    stack,          \* the calls of dependencies() under way, the innermost first
    todo,           \* the components that run_check has still to look at
    runs,           \* how many runs have ended
    changed         \* the components that this run has rewritten

cssVars == <<refs, written, css, cache, stack, todo, runs, changed>>

Frames == [component : Components, left : Seq(Components), found : SUBSET Components]

CssTypeOK ==
    /\ refs \in [Components -> References]
    /\ written \in StartingTexts /\ css \in [Components -> ComponentTexts]
    /\ DOMAIN cache \subseteq Components
    /\ \A c \in DOMAIN cache : cache[c] \subseteq Components
    /\ stack \in Seq(Frames) /\ todo \in Seq(Components)
    /\ runs \in 0..2 /\ changed \subseteq Components

\* The components of a set in the order of their paths.
InOrder(S) ==
    CHOOSE s \in [1..Cardinality(S) -> S] : \A i, j \in DOMAIN s : i < j => s[i] < s[j]

CssInit ==
    /\ refs \in [Components -> References]
    /\ written \in StartingTexts /\ css = written
    /\ cache = <<>>
    /\ stack = <<>>
    /\ todo = InOrder(Components)
    /\ runs = 0 /\ changed = {}

tree == <<refs, written, css>>

Frame(c) == [component |-> c, left |-> refs[c], found |-> {}]

Resolving == {stack[i].component : i \in DOMAIN stack}

\* run_check asks for the dependencies of the next component.
ResolveComponent ==
    /\ todo # <<>> /\ stack = <<>> /\ Head(todo) \notin DOMAIN cache
    /\ stack' = <<Frame(Head(todo))>>
    /\ UNCHANGED <<tree, cache, todo, runs, changed>>

\* Mutant: what the cache has of a child is not added.
VisitUncached ==
    /\ stack # <<>> /\ Head(stack).left # <<>>
    /\ LET top == Head(stack)
           child == Head(top.left)
           next == [top EXCEPT !.left = Tail(@), !.found = @ \cup ({child} \cap Styled)] IN
       stack' = (IF child \in DOMAIN cache \cup Resolving
                 THEN <<>> ELSE <<Frame(child)>>) \o <<next>> \o Tail(stack)
    /\ UNCHANGED <<tree, cache, todo, runs, changed>>

\* The loop over the references: the style sheet of the child, and what the
\* child depends on.  A child that is being resolved adds nothing.
Visit ==
    /\ stack # <<>> /\ Head(stack).left # <<>>
    /\ LET top == Head(stack)
           child == Head(top.left)
           known == IF child \in DOMAIN cache THEN cache[child] ELSE {}
           next == [top EXCEPT !.left = Tail(@),
                               !.found = @ \cup ({child} \cap Styled) \cup known] IN
       stack' = (IF child \in DOMAIN cache \cup Resolving
                 THEN <<>> ELSE <<Frame(child)>>) \o <<next>> \o Tail(stack)
    /\ UNCHANGED <<tree, cache, todo, runs, changed>>

\* The call returns its set, which stays in the cache.
Return ==
    /\ stack # <<>> /\ Head(stack).left = <<>>
    /\ LET top == Head(stack)
           calls == Tail(stack) IN
       /\ cache' = [c \in DOMAIN cache \cup {top.component} |->
                       IF c = top.component THEN top.found ELSE cache[c]]
       /\ stack' = IF calls = <<>> THEN <<>>
                   ELSE <<[Head(calls) EXCEPT !.found = @ \cup top.found]>> \o Tail(calls)
    /\ UNCHANGED <<tree, todo, runs, changed>>

\* The assets that the directive had, and then the missing ones, sorted.  What
\* replaces a directive takes the white space around it along; what is inserted
\* on the line of the definition pushes the rest of the line to a line of its own.
WithDependencies(text, dependencies) ==
    LET assets == text.own \o InOrder(dependencies \ ToSet(text.own)) IN
    IF assets = <<>> THEN text
    ELSE IF text.own # <<>> THEN [text EXCEPT !.own = assets, !.tidy = TRUE]
    ELSE IF text.lineStart THEN [text EXCEPT !.own = assets]
    ELSE [text EXCEPT !.own = text.behind, !.behind = assets,
                      !.tidy = text.tidy \/ text.behind = <<>>]

WriteComponent ==
    /\ todo # <<>> /\ stack = <<>> /\ Head(todo) \in DOMAIN cache
    /\ LET c == Head(todo)
           updated == WithDependencies(css[c], cache[c]) IN
       /\ css' = [css EXCEPT ![c] = updated]
       /\ changed' = changed \cup (IF updated = css[c] THEN {} ELSE {c})
    /\ todo' = Tail(todo)
    /\ UNCHANGED <<refs, written, cache, stack, runs>>

\* A developer stages the rewritten files, and the hook runs once more.
RunAgain ==
    /\ todo = <<>> /\ runs < 2
    /\ runs' = runs + 1 /\ changed' = {}
    /\ todo' = InOrder(Components)
    /\ cache' = <<>>
    /\ UNCHANGED <<tree, stack>>

CssNext == ResolveComponent \/ Visit \/ Return \/ WriteComponent \/ RunAgain

CssSpec == CssInit /\ [][CssNext]_cssVars

-----------------------------------------------------------------------------
(* Properties *)

\* The components that a component renders, directly or through others: those in
\* every set that has its references and the references of its members.
Below(c) ==
    {d \in Components : \A S \in SUBSET Components :
        ToSet(refs[c]) \subseteq S /\ (\A e \in S : ToSet(refs[e]) \subseteq S) => d \in S}

Acyclic == \A c \in Components : c \notin Below(c)

\* The style sheets that a page loads, by any of its directives.
SheetsOf(text) == ToSet(text.own) \cup ToSet(text.behind)

\* A synchronized page loads the style sheet of everything it renders, and the
\* cache never cuts the walk short: for components that do not include
\* themselves.
AllStylesListed ==
    todo = <<>> /\ Acyclic =>
        \A c \in Components : Below(c) \cap Styled \subseteq SheetsOf(css[c])

\* The assets of an author stay, in their order, and nothing else is listed that
\* the page does not render.
OnlyStylesAdded ==
    \A c \in Components :
        /\ c \in DOMAIN cache => cache[c] \subseteq Below(c) \cap Styled
        /\ IsPrefix(written[c].own, css[c].own)
        /\ SheetsOf(written[c]) \subseteq SheetsOf(css[c])
        /\ SheetsOf(css[c]) \ SheetsOf(written[c]) \subseteq Below(c) \cap Styled

\* A text without a directive, where the place for one is not a plain line.
Untidy(text) == text.own = <<>> /\ (~text.lineStart \/ ~text.tidy)

\* The run after a run finds nothing to do, but for the directives that had to be
\* inserted into an untidy text; the one after that finds nothing at all, with
\* cycles or without: the commit goes through at the third attempt.
RunsSettle ==
    /\ runs = 1 => changed \subseteq {c \in Components : Untidy(written[c])}
    /\ runs = 2 => changed = {}

\* The directives that the hook leaves are what the pages need, and nothing else,
\* and it comes to rest.
StylesSynchronized == AllStylesListed /\ OnlyStylesAdded /\ RunsSettle

=============================================================================
