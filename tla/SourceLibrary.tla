---------------------------- MODULE SourceLibrary ----------------------------
(***************************************************************************)
(* Sources, with whom they are shared, and the knowledge bases made of them *)
(* (backend/sources, backend/knowledge_bases) under concurrent requests.    *)
(* Every request is one READ COMMITTED transaction: it loads the source,    *)
(* loads the users it is to be shared with, flushes, and commits.           *)
(***************************************************************************)
EXTENDS Integers, FiniteSets

CONSTANTS
    Edits,          \* request slots
    Persons,        \* users, by id
    Admins,         \* the ones whose role is ADMIN
    ShareLists,     \* the lists of users that requests share a source with
    SourceIds,
    BaseIds,        \* of knowledge bases
    None            \* no source, no knowledge base, nobody

ASSUME LibraryAssumption ==
    /\ Admins \subseteq Persons /\ ShareLists \subseteq SUBSET Persons
    /\ None \notin SourceIds \cup BaseIds \cup Persons

EditOps == {"create", "update", "delete", "base", "drop", "leave"}
Origins == {"USER", "SYSTEM"}
Sources == [id : SourceIds, owner : Persons, origin : Origins]
Shares == [source : SourceIds, user : Persons]
Bases == [id : BaseIds, source : SourceIds, owner : Persons, converted : SourceIds \cup {None}]

VARIABLES
    people,         \* committed users rows
    sources,        \* committed sources rows
    shares,         \* committed source_shared_users rows
    bases,          \* committed knowledge_bases rows
    edit            \* the requests: what is asked, what they loaded, what they flushed

libraryVars == <<people, sources, shares, bases, edit>>
tables == <<people, sources, shares, bases>>

Nothing ==
    [people |-> {}, sources |-> {}, add |-> {}, drop |-> {}, gone |-> {},
     bases |-> {}, dropped |-> {}]

FreeEdit ==
    [op |-> "create", by |-> None, source |-> None, base |-> None, names |-> {},
     at |-> "free", loaded |-> {}, flushed |-> Nothing]

Writes ==
    [people : SUBSET Persons, sources : SUBSET Sources,
     add : SUBSET Shares, drop : SUBSET Shares, gone : SUBSET SourceIds,
     bases : SUBSET Bases, dropped : SUBSET BaseIds]

EditRecords ==
    [op : EditOps, by : Persons \cup {None},
     source : SourceIds \cup {None}, base : BaseIds \cup {None},
     names : ShareLists \cup {{}},
     at : {"free", "get", "flush", "commit"},
     loaded : SUBSET Shares, flushed : Writes]

LibraryTypeOK ==
    /\ people \subseteq Persons /\ sources \subseteq Sources
    /\ shares \subseteq Shares /\ bases \subseteq Bases
    /\ edit \in [Edits -> EditRecords]

LibraryInit ==
    /\ people = Persons
    /\ sources = {} /\ shares = {} /\ bases = {}
    /\ edit = [e \in Edits |-> FreeEdit]

SourceOf(id) == {s \in sources : s.id = id}

Quit(e) == edit' = [edit EXCEPT ![e] = FreeEdit] /\ UNCHANGED tables

-----------------------------------------------------------------------------
(* Loading *)

Visible(s, u) ==
    u \in Admins \/ s.owner = u \/ [source |-> s.id, user |-> u] \in shares

\* Mutant: converted sources may be changed like others.
MutableAlways(s) == TRUE

\* _ensure_mutable, and for a knowledge base the check of the origin.
Mutable(s) == s.origin = "USER"

MayEdit(s, u) == u \in Admins \/ s.owner = u

\* Create and update take a list of users, delete_user ("leave") takes a user,
\* delete_knowledge_base ("drop") a knowledge base, and the others a source.
Ask(e, op, by, source, base, names) ==
    /\ edit[e].at = "free"
    /\ by \in people
    /\ IF op \in {"create", "drop", "leave"} THEN source = None ELSE SourceOf(source) # {}
    /\ IF op = "drop" THEN \E b \in bases : b.id = base ELSE base = None
    /\ IF op \in {"create", "update"} THEN names \in ShareLists ELSE names = {}
    \* bounds: one source to be shared at a time, one knowledge base of each
    /\ op = "create" => \A s \in sources : ~Mutable(s)
    /\ op = "base" => \A b \in bases : b.source # source
    /\ edit' = [edit EXCEPT ![e] =
                   [op |-> op, by |-> by, source |-> source, base |-> base, names |-> names,
                    at |-> IF op \in {"create", "leave"} THEN "flush" ELSE "get",
                    loaded |-> {}, flushed |-> Nothing]]
    /\ UNCHANGED tables

\* Mutant: whoever may see a source may change it.
GetVisible(e) ==
    /\ edit[e].at = "get" /\ edit[e].op # "drop"
    /\ \E withShared \in BOOLEAN :
       LET q == edit[e]
           row == {s \in SourceOf(q.source) : Visible(s, q.by) /\ Mutable(s)} IN
       IF row = {} THEN Quit(e)
       ELSE /\ edit' = [edit EXCEPT
                  ![e].at = "flush",
                  ![e].loaded = IF q.op = "update" /\ withShared
                                THEN {p \in shares : p.source = q.source} ELSE {}]
            /\ UNCHANGED tables

\* get_source and the checks that follow it.  The collection shared_with is
\* loaded only for include_shared_with, and is empty (noload) otherwise.
Get(e) ==
    /\ edit[e].at = "get" /\ edit[e].op # "drop"
    /\ \E withShared \in BOOLEAN :
       LET q == edit[e]
           row == {s \in SourceOf(q.source) :
                      Visible(s, q.by) /\ Mutable(s) /\ MayEdit(s, q.by)} IN
       IF row = {} THEN Quit(e)
       ELSE /\ edit' = [edit EXCEPT
                  ![e].at = "flush",
                  ![e].loaded = IF q.op = "update" /\ withShared
                                THEN {p \in shares : p.source = q.source} ELSE {}]
            /\ UNCHANGED tables

\* delete_knowledge_base loads the row, without locking it, and the converted
\* source that the row has at that moment.
GetBase(e) ==
    /\ edit[e].at = "get" /\ edit[e].op = "drop"
    /\ LET q == edit[e]
           rows == {b \in bases : b.id = q.base /\ (q.by \in Admins \/ b.owner = q.by)} IN
       IF rows = {} THEN Quit(e)
       ELSE \E b \in rows :
              /\ edit' = [edit EXCEPT ![e].at = "flush", ![e].source = b.converted]
              /\ UNCHANGED tables

-----------------------------------------------------------------------------
(* Flushing *)

\* Identifiers are not drawn again, neither while a request has them in hand.
FreeSourceIds ==
    SourceIds \ ({s.id : s \in sources} \cup
        UNION {{s.id : s \in edit[e].flushed.sources} \cup {edit[e].source} : e \in Edits})

FreeBaseIds ==
    BaseIds \ ({b.id : b \in bases} \cup
        UNION {{b.id : b \in edit[e].flushed.bases} \cup {edit[e].base} : e \in Edits})

Drawn(op) ==
    CASE op = "create" -> FreeSourceIds [] op = "base" -> FreeBaseIds [] OTHER -> {None}

\* What the session writes: a new list of users is compared with the loaded one,
\* and a knowledge base goes with the converted source that was loaded.
Written(q, id) ==
    LET meant == IF q.op = "create" THEN id ELSE q.source
        named == {[source |-> meant, user |-> u] : u \in q.names} IN
    CASE q.op = "create" ->
           [Nothing EXCEPT !.sources = {[id |-> id, owner |-> q.by, origin |-> "USER"]},
                           !.add = named]
      [] q.op = "update" -> [Nothing EXCEPT !.add = named \ q.loaded, !.drop = q.loaded \ named]
      [] q.op = "delete" -> [Nothing EXCEPT !.gone = {q.source}]
      [] q.op = "base" ->
           [Nothing EXCEPT !.bases = {[id |-> id, source |-> q.source, owner |-> q.by,
                                       converted |-> None]}]
      [] q.op = "drop" -> [Nothing EXCEPT !.dropped = {q.base}, !.gone = {q.source} \ {None}]
      [] q.op = "leave" -> [Nothing EXCEPT !.people = {q.by}]

UsedSources(w) == {p.source : p \in w.add \cup w.drop} \cup {b.source : b \in w.bases}

UsedPeople(w) ==
    {p.user : p \in w.add \cup w.drop} \cup {b.owner : b \in w.bases}
        \cup {s.owner : s \in w.sources}

\* v waits for the transaction that has flushed w: one writes a row that the
\* other writes, or deletes a row that the other references, or that a row
\* references which the other deletes.
Waits(v, w) ==
    \/ (v.add \cup v.drop) \cap (w.add \cup w.drop) # {}
    \/ v.gone \cap (w.gone \cup UsedSources(w)) # {} \/ w.gone \cap UsedSources(v) # {}
    \/ v.people \cap (w.people \cup UsedPeople(w)) # {} \/ w.people \cap UsedPeople(v) # {}
    \/ v.dropped \cap w.dropped # {}
    \/ \E b \in bases : b.id \in w.dropped /\ (b.source \in v.gone \/ b.owner \in v.people)
    \/ \E s \in sources : s.id \in w.gone /\ s.owner \in v.people

\* IntegrityError: a share that is there already, a row that is referenced or
\* is missing.  StaleDataError: a share to be deleted that is gone.
Fails(w) ==
    \/ w.add \cap shares # {} \/ ~ w.drop \subseteq shares
    \/ ~ UsedSources(w) \subseteq {s.id : s \in sources \cup w.sources}
    \/ ~ UsedPeople(w) \subseteq people
    \/ \E b \in bases :
          /\ b.id \notin w.dropped
          /\ {b.source, b.converted} \cap w.gone # {} \/ b.owner \in w.people
    \/ \E s \in sources : s.owner \in w.people

\* _get_users refuses names that do not exist just as the flush would.
FlushEdit(e) ==
    /\ edit[e].at = "flush"
    /\ \E id \in Drawn(edit[e].op) :
          LET w == Written(edit[e], id) IN
          /\ \A f \in Edits \ {e} : ~Waits(w, edit[f].flushed)
          /\ IF Fails(w) \/ ~ edit[e].names \subseteq people THEN Quit(e)
             ELSE /\ edit' = [edit EXCEPT ![e].flushed = w, ![e].at = "commit",
                                          ![e].loaded = {}]
                  /\ UNCHANGED tables

\* The answer is built before the session commits.  A changed name has its
\* updated_at set by the database, which is not loaded again: reading it raises.
RenameFails(e) ==
    /\ edit[e].at = "commit" /\ edit[e].op = "update"
    /\ Quit(e)

\* Deleting a source or a user deletes the shares with it (ON DELETE CASCADE).
CommitEdit(e) ==
    /\ edit[e].at = "commit"
    /\ LET w == edit[e].flushed IN
       /\ people' = people \ w.people
       /\ sources' = {s \in sources : s.id \notin w.gone} \cup w.sources
       /\ shares' = {p \in (shares \ w.drop) \cup w.add :
                        p.source \notin w.gone /\ p.user \notin w.people}
       /\ bases' = {b \in bases : b.id \notin w.dropped} \cup w.bases
    /\ edit' = [edit EXCEPT ![e] = FreeEdit]

\* The connection is lost.
AbortEdit(e) == edit[e].at # "free" /\ Quit(e)

\* Mutant: the converted source has no owner.
ConvertUnowned(b) ==
    /\ b.converted = None /\ \A e \in Edits : b.id \notin edit[e].flushed.dropped
    /\ \E id \in FreeSourceIds :
          /\ sources' = sources \cup {[id |-> id, owner |-> None, origin |-> "SYSTEM"]}
          /\ bases' = (bases \ {b}) \cup {[b EXCEPT !.converted = id]}
    /\ UNCHANGED <<people, shares, edit>>

\* The commit of a knowledge base's first conversion, which has made a SYSTEM
\* source of the owner.  It may come after a deletion has loaded the row, and
\* writes the row: it waits for a deletion that has flushed.
Convert(b) ==
    /\ b.converted = None /\ \A e \in Edits : b.id \notin edit[e].flushed.dropped
    /\ \E id \in FreeSourceIds :
          /\ sources' = sources \cup {[id |-> id, owner |-> b.owner, origin |-> "SYSTEM"]}
          /\ bases' = (bases \ {b}) \cup {[b EXCEPT !.converted = id]}
    /\ UNCHANGED <<people, shares, edit>>

LibraryNext ==
    \/ \E e \in Edits, op \in EditOps, by \in Persons,
          source \in SourceIds \cup {None}, base \in BaseIds \cup {None},
          names \in ShareLists \cup {{}} :
          Ask(e, op, by, source, base, names)
    \/ \E e \in Edits :
          \/ Get(e) \/ GetBase(e)
          \/ FlushEdit(e) \/ RenameFails(e) \/ CommitEdit(e) \/ AbortEdit(e)
    \/ \E b \in bases : Convert(b)

LibrarySpec == LibraryInit /\ [][LibraryNext]_libraryVars

-----------------------------------------------------------------------------
(* Properties *)

\* A converted source is shared with nobody, and no knowledge base is made of it.
\* The one that a knowledge base has is its owner's, is there as long as the
\* knowledge base, and is that of no other; and so is the source that the knowledge
\* base is made of, which is a user's.  (It may stay behind: a deletion does not
\* know of a source that a conversion commits after it has loaded the row.)
ConvertedStayPrivate ==
    /\ \A p \in shares : \A s \in sources : s.id = p.source => s.origin = "USER"
    /\ \A b \in bases :
          /\ \E s \in sources : s.id = b.source /\ s.origin = "USER"
          /\ b.converted # None =>
                \E s \in sources : s.id = b.converted /\ s.origin = "SYSTEM" /\ s.owner = b.owner
    /\ \A b, c \in bases : b.converted = c.converted /\ b.converted # None => b = c

\* Somebody starts to see a source only because its owner or an admin named
\* them in a request that was accepted: viewers do not pass it on.
SharingIsGranted ==
    [][\A p \in shares' \ shares :
          \E e \in Edits :
             /\ edit[e].at = "commit" /\ p.user \in edit[e].names
             /\ \A s \in sources' : s.id = p.source => MayEdit(s, edit[e].by)]_libraryVars

(* Why: what is checked of a source holds until the request commits *)

\* An identifier is that of one source, and what is shared exists.
TablesAgree ==
    /\ \A s, t \in sources : s.id = t.id => s = t
    /\ \A p \in shares : \E s \in sources : s.id = p.source
    /\ ConvertedStayPrivate

\* An identifier is not drawn again while a request has it in hand, so the source
\* that it has checked is the one that it writes to, if there still is one.
Checked(e) ==
    LET q == edit[e] IN
    /\ q.at # "free" => q.by \in Persons
    /\ \A p \in q.loaded : q.op = "update" /\ p.source = q.source
    /\ q.at # "free" /\ q.op \in {"update", "delete", "base"} => q.source \in SourceIds
    /\ q.at # "free" /\ q.op = "drop" => q.base \in BaseIds
    /\ q.at \in {"flush", "commit"} /\ q.op \in {"update", "delete", "base"} =>
          \A s \in sources : s.id = q.source => s.origin = "USER" /\ MayEdit(s, q.by)
    /\ q.at \in {"flush", "commit"} /\ q.op = "drop" /\ q.source # None =>
          /\ \A s \in sources : s.id = q.source => s.origin = "SYSTEM"
          /\ \A b \in bases : b.converted = q.source => b.id = q.base

\* What a request has flushed is what it was asked for.
FlushedAsAsked(e) ==
    LET q == edit[e]
        w == q.flushed IN
    /\ q.at # "commit" => w = Nothing
    /\ q.op = "create" \/ w.sources = {}
    /\ \A s \in w.sources : s.owner = q.by /\ s.origin = "USER"
    /\ \A s, t \in w.sources : s = t
    /\ \A p \in w.add : p.user \in q.names
    /\ \A id \in UsedSources(w) :
          IF q.op = "create" THEN \E s \in w.sources : s.id = id
                             ELSE q.op \in {"update", "base"} /\ id = q.source
    /\ \A b \in w.bases : b.converted = None
    /\ \A id \in w.gone :
          id = q.source /\ (q.op = "delete" \/ (q.op = "drop" /\ q.base \in w.dropped))

\* It can commit: no constraint can fail any more.
CanCommit(e) ==
    LET w == edit[e].flushed IN
    /\ \A s \in w.sources, t \in sources : s.id # t.id
    /\ \A id \in UsedSources(w) : \E s \in sources \cup w.sources : s.id = id
    /\ \A b \in bases : b.source \notin w.gone

\* No request means the source that another is about to create, or uses one that
\* another is about to delete.
Apart(e, f) ==
    /\ \A s \in edit[e].flushed.sources :
          edit[f].source # s.id /\ \A t \in edit[f].flushed.sources : t.id # s.id
    /\ edit[e].flushed.gone \cap UsedSources(edit[f].flushed) = {}

LibraryInvariant ==
    /\ TablesAgree
    /\ \A e \in Edits : Checked(e) /\ FlushedAsAsked(e) /\ CanCommit(e)
    /\ \A e, f \in Edits : e # f => Apart(e, f)

(* A claim of the repository that a run refutes *)

\* "Replacement list of user IDs allowed to view"
\* (src/backend/sources/schemas.py:47).
ReplacementReplaces ==
    [][\A e \in Edits :
          edit[e].op = "update" /\ edit[e].at = "commit" /\ edit'[e].at = "free"
              /\ shares' # shares =>
             {p.user : p \in {r \in shares' : r.source = edit[e].source}} = edit[e].names
      ]_libraryVars

=============================================================================
