---------------------------- MODULE TemplateNames ----------------------------
(***************************************************************************)
(* The names of a template: how the hook that checks templates follows them  *)
(* through blocks and includes (pre_commits/template_types/walker.py), and   *)
(* how Jinja does when it renders the template.  The same machine takes both *)
(* ways, first the hook's, which goes into every branch, and then any        *)
(* rendering.  What the names are bound to is left out.                      *)
(***************************************************************************)
EXTENDS Integers, Sequences, FiniteSets

CONSTANTS
    Templates,      \* the names of the templates; "page" is the one rendered
    Texts,          \* what templates may consist of: sequences of tokens
    Contexts,       \* the sets of names that a route may provide
    BuiltinNames    \* the names of Jinja itself and of the environment's globals

\* A token is a pair of its kind and a name: {{ x }}, {{ x | default(...) }},
\* {% set x %}, {% for x in ... %}, {% with x = ... %}, {% include x %} with or
\* without context, and {% if %}, {% else %} and the end of a block.
BlockKinds == {"if", "for", "with"}
TokenKinds == BlockKinds \cup {"else", "end", "use", "default", "set", "include", "bare"}

\* How many blocks are open before the token i of a text.
Level(s, i) ==
    Cardinality({k \in 1..(i - 1) : s[k][1] \in BlockKinds})
        - Cardinality({k \in 1..(i - 1) : s[k][1] = "end"})

\* Jinja's parser: blocks end, and an else is in one.
Parses(s) ==
    /\ \A i \in 1..(Len(s) + 1) : Level(s, i) >= 0
    /\ Level(s, Len(s) + 1) = 0
    /\ \A i \in 1..Len(s) : s[i][1] = "else" => Level(s, i) > 0

ASSUME TemplatesAssumption ==
    /\ "page" \in Templates
    /\ Contexts \subseteq SUBSET STRING /\ BuiltinNames \subseteq STRING
    /\ Texts \subseteq Seq(TokenKinds \X STRING)
    /\ \A s \in Texts :
          /\ Parses(s)
          /\ \A i \in 1..Len(s) : s[i][1] \in {"include", "bare"} => s[i][2] \in Templates

VARIABLES
    text,           \* of each template
    context,        \* the names that the route provides
    mode,           \* "check", "render" or "done"
    frames,         \* the blocks and includes under way, the innermost first
    reported,       \* E110: places that use a name out of scope
    cyclic,         \* E901 was reported
    visited,        \* the templates that the check has walked
    missing         \* places where the rendering found no value

templateVars == <<text, context, mode, frames, reported, cyclic, visited, missing>>
input == <<text, context>>

\* `at` is the token that a frame is at; its blocks and includes are above it.
FrameFor(kind, t, at, scope) == [kind |-> kind, template |-> t, at |-> at, scope |-> scope]

TemplatesTypeOK ==
    /\ text \in [Templates -> Texts] /\ context \in Contexts
    /\ mode \in {"check", "render", "done"}
    /\ frames \in Seq([kind : BlockKinds \cup {"template"}, template : Templates,
                       at : Nat, scope : SUBSET STRING])
    /\ cyclic \in BOOLEAN /\ visited \subseteq Templates
    /\ \A place \in reported \cup missing : place[2] \in DOMAIN text[place[1]]

TemplatesInit ==
    /\ text \in [Templates -> Texts] /\ context \in Contexts
    /\ mode = "check" /\ frames = <<FrameFor("template", "page", 1, context)>>
    /\ reported = {} /\ cyclic = FALSE /\ visited = {"page"} /\ missing = {}

Top == frames[1]
Finished == Top.at > Len(text[Top.template])
Token == text[Top.template][Top.at]
AtToken(kind) == frames # <<>> /\ ~Finished /\ Token[1] = kind

\* optional_names: the ones that the template gives a default to somewhere.
Optional(t) == {text[t][i][2] : i \in {j \in DOMAIN text[t] : text[t][j][1] = "default"}}

\* A use of these is never reported.
Excused(t) == Optional(t) \cup BuiltinNames

\* The top frame goes to another token.
GoTo(fs, at, scope) == [fs EXCEPT ![1] = [@ EXCEPT !.at = at, !.scope = scope]]

Advance(scope) == frames' = GoTo(frames, Top.at + 1, scope)

\* The first token of its kind in the block which i opens, and not in a block
\* within it.
Matching(s, i, kinds) ==
    LET Own(j) == s[j][1] \in kinds /\ Level(s, j) = Level(s, i) + 1 IN
    CHOOSE j \in DOMAIN s : j > i /\ Own(j) /\ \A k \in (i + 1)..(j - 1) : ~Own(k)

-----------------------------------------------------------------------------
(* Steps that the hook and Jinja take alike *)

\* A built-in name may have a value that no scope shows (a loop around the place,
\* the request in the context, a global), and may have none.
UseName ==
    /\ AtToken("use")
    /\ LET place == <<Top.template, Top.at>>
           unbound == Token[2] \notin Top.scope IN
       /\ reported' = IF mode = "check" /\ unbound /\ Token[2] \notin Excused(Top.template)
                      THEN reported \cup {place} ELSE reported
       /\ \/ mode = "render" /\ unbound /\ missing' = missing \cup {place}
          \/ /\ mode = "render" /\ unbound => Token[2] \in BuiltinNames
             /\ UNCHANGED missing
    /\ Advance(Top.scope)
    /\ UNCHANGED <<input, mode, cyclic, visited>>

UseDefault ==
    /\ AtToken("default")
    /\ Advance(Top.scope)
    /\ UNCHANGED <<input, mode, reported, cyclic, visited, missing>>

SetName ==
    /\ AtToken("set")
    /\ Advance(Top.scope \cup {Token[2]})
    /\ UNCHANGED <<input, mode, reported, cyclic, visited, missing>>

\* A block starts with a copy of the scope, and its own name in it.
EnterBlock ==
    /\ \E kind \in BlockKinds : AtToken(kind)
    /\ frames' = <<FrameFor(Token[1], Top.template, Top.at + 1,
                            Top.scope \cup (IF Token[1] = "if" THEN {} ELSE {Token[2]}))>>
                     \o frames
    /\ UNCHANGED <<input, mode, reported, cyclic, visited, missing>>

\* An include shares the scope, or starts with nothing.  The hook walks no
\* template within itself.
Path == {frames[i].template : i \in DOMAIN frames}

Include ==
    /\ AtToken("include") \/ AtToken("bare")
    /\ LET t == Token[2] IN
       IF mode = "check" /\ t \in Path
       THEN cyclic' = TRUE /\ Advance(Top.scope) /\ UNCHANGED visited
       ELSE /\ frames' = <<FrameFor("template", t, 1,
                             IF Token[1] = "include" THEN Top.scope ELSE {})>> \o frames
            /\ visited' = IF mode = "check" THEN visited \cup {t} ELSE visited
            /\ UNCHANGED cyclic
    /\ UNCHANGED <<input, mode, reported, missing>>

\* The frame below goes on after what was entered, with its own scope.
Leave(at, scope) == frames' = GoTo(Tail(frames), at, scope)

EndTemplate ==
    /\ frames # <<>> /\ Finished
    /\ IF Len(frames) = 1 THEN frames' = <<>> ELSE Leave(frames[2].at + 1, frames[2].scope)
    /\ UNCHANGED <<input, mode, reported, cyclic, visited, missing>>

-----------------------------------------------------------------------------
(* Where they differ *)

\* Mutant: what is set in a block stays set after it.
EndBlockOpen ==
    /\ AtToken("end")
    /\ \/ Leave(Top.at + 1, IF mode = "check" \/ Top.kind = "if"
                            THEN Top.scope ELSE frames[2].scope)
       \/ /\ mode = "render" /\ Top.kind = "for"
          /\ frames' = GoTo(frames, frames[2].at + 1,
                            frames[2].scope \cup {text[Top.template][frames[2].at][2]})
    /\ UNCHANGED <<input, mode, reported, cyclic, visited, missing>>

\* The hook forgets what is set in a block; Jinja keeps what an if sets, and may
\* run the body of a loop again.
EndBlock ==
    /\ AtToken("end")
    /\ \/ Leave(Top.at + 1, IF mode = "render" /\ Top.kind = "if"
                            THEN Top.scope ELSE frames[2].scope)
       \/ /\ mode = "render" /\ Top.kind = "for"
          /\ frames' = GoTo(frames, frames[2].at + 1,
                            frames[2].scope \cup {text[Top.template][frames[2].at][2]})
    /\ UNCHANGED <<input, mode, reported, cyclic, visited, missing>>

\* The hook walks the else of an if or a for with the scope from before the block;
\* a rendering is past it.
Else ==
    /\ AtToken("else")
    /\ IF mode = "check" THEN Advance(frames[2].scope)
       ELSE frames' = GoTo(frames, Matching(text[Top.template], frames[2].at, {"end"}), Top.scope)
    /\ UNCHANGED <<input, mode, reported, cyclic, visited, missing>>

JumpTo(at) == frames' = GoTo(frames, at, Top.scope)

\* A rendering may take the else branch of an if, or of a for over nothing, and
\* then what is set there is forgotten as in any loop.
SkipBlock ==
    /\ mode = "render"
    /\ AtToken("if") \/ AtToken("for")
    /\ LET j == Matching(text[Top.template], Top.at, {"else", "end"})
           kind == IF Token[1] = "if" THEN "if" ELSE "with" IN
       IF text[Top.template][j][1] = "end" THEN JumpTo(j + 1)
       ELSE frames' = <<FrameFor(kind, Top.template, j + 1, Top.scope)>> \o frames
    /\ UNCHANGED <<input, mode, reported, cyclic, visited, missing>>

\* The check has ended.  A template in a cycle is not committed.
StartRendering ==
    /\ mode = "check" /\ frames = <<>>
    /\ IF cyclic THEN mode' = "done" /\ UNCHANGED frames
       ELSE mode' = "render" /\ frames' = <<FrameFor("template", "page", 1, context)>>
    /\ UNCHANGED <<input, reported, cyclic, visited, missing>>

TemplatesNext ==
    \/ UseName \/ UseDefault \/ SetName \/ EnterBlock \/ Include \/ EndTemplate
    \/ EndBlock \/ Else \/ SkipBlock \/ StartRendering

TemplatesSpec == TemplatesInit /\ [][TemplatesNext]_templateVars

-----------------------------------------------------------------------------
(* Properties *)

\* Whatever a rendering finds no value for, the hook has found out of scope, unless
\* the template itself gives the name a default, or the name is a built-in one:
\* through includes, with or without context, and whatever branches are taken.  (A
\* comment in the template may then silence the report; the one of a cycle it
\* cannot.)
MissingIsReported ==
    \A place \in missing :
        place \in reported \/ text[place[1]][place[2]][2] \in Excused(place[1])

\* A rendering comes to no template that the hook has not walked, and without a
\* reported cycle it never includes a template within itself.
RenderedIsVisited == frames # <<>> => Path \subseteq visited

NoHiddenRecursion ==
    mode = "render" =>
        \A i, j \in DOMAIN frames :
            frames[i].kind = "template" /\ frames[j].kind = "template"
                /\ frames[i].template = frames[j].template => i = j

\* What the hook has not reported does not go wrong when the page is rendered: no
\* inclusion recurses, and no name lacks a value, except for the built-in ones and
\* those that the template gives a default to.
ReportIsComplete == MissingIsReported /\ RenderedIsVisited /\ NoHiddenRecursion

(* Why: where the frames stand, and what is in scope there *)

\* The token i is in the block that the token b opens, or ends it.
InBlock(s, b, i) ==
    /\ b \in 1..Len(s) /\ s[b][1] \in BlockKinds
    /\ b < i /\ Level(s, i) = Level(s, b) + 1
    /\ \A j \in (b + 1)..i : Level(s, j) > Level(s, b)

\* A frame stands in the block that the frame below it is at, or at the top of
\* the template that the frame below it includes.
Stands(f) ==
    /\ f.at \in 1..(Len(text[f.template]) + 1)
    /\ f.kind = "template" => Level(text[f.template], f.at) = 0

Over(f, below) ==
    LET s == text[below.template] IN
    IF f.kind = "template"
    THEN /\ below.at \in 1..Len(s)
         /\ s[below.at][1] \in {"include", "bare"} /\ s[below.at][2] = f.template
    ELSE f.template = below.template /\ InBlock(s, below.at, f.at)

Nested ==
    \A n \in 1..Len(frames) :
        /\ Stands(frames[n])
        /\ n < Len(frames) => Over(frames[n], frames[n + 1])
        /\ n = Len(frames) => frames[n].kind = "template"

\* What the token k sets or binds is in scope at the token i: no block around
\* it has ended in between, nor the branch of an if.
InScopeAt(s, k, i) ==
    /\ s[k][1] \in {"set", "for", "with"}
    /\ \A j \in (k + 1)..i : Level(s, j) >= Level(s, k + 1)
    /\ \A j \in (k + 1)..(i - 1) : s[j][1] = "else" => Level(s, j) # Level(s, k + 1)

NamesAt(s, i) == {s[k][2] : k \in {k \in 1..(i - 1) : InScopeAt(s, k, i)}}

=============================================================================
