---------------------------- MODULE LibraryProofs ----------------------------
(***************************************************************************)
(* Proofs about SourceLibrary, FileScroll and KnowledgeBasePages, for every *)
(* number of sources, files, tabs and operations.                           *)
(***************************************************************************)
EXTENDS SourceLibrary, FileScroll, KnowledgeBasePages, TLAPS

\* What the pages show and what a source has are files: the list stays a list
\* through uploads and replacements.
THEOREM ScrollTypeCorrect == ScrollSpec => []ScrollTypeOK
<1> USE DEF ScrollTypeOK
<1>1. ScrollInit => ScrollTypeOK
  <2> SUFFICES ASSUME ScrollInit PROVE ScrollTypeOK
    OBVIOUS
  <2>1. listing \in Seq(Rows)
    BY DEF ScrollInit
  <2>2. page \in Nat
    BY DEF ScrollInit
  <2>3. more \in BOOLEAN
    BY DEF ScrollInit
  <2> QED
    BY <2>1, <2>2, <2>3 DEF ScrollInit
<1>2. ASSUME ScrollTypeOK, [ScrollNext]_scrollVars
      PROVE  ScrollTypeOK'
  <2>1. \A p : PageRows(p) \subseteq Rows /\ HasMore(p) \in BOOLEAN
    BY <1>2 DEF PageRows, Result, HasMore
  <2>2. Listed \subseteq Rows
    BY <1>2 DEF Listed
  <2>3. CASE OpenSource
    BY <1>2, <2>1, <2>2, <2>3 DEF OpenSource
  <2>4. CASE NextPage
    BY <1>2, <2>1, <2>4 DEF NextPage
  <2>5. ASSUME NEW f \in Rows, ReplaceFiles(f)
        PROVE  ScrollTypeOK'
    BY <1>2, <2>5 DEF ReplaceFiles
  <2>6. ASSUME NEW f \in Rows, NEW i \in 1..(Len(listing) + 1), LinkFile(f, i)
        PROVE  ScrollTypeOK'
    <3>1. Len(listing) \in Nat /\ DOMAIN listing = 1..Len(listing)
      BY <1>2
    <3>2. \A j \in 1..(Len(listing) + 1) :
             (IF j < i THEN listing[j] ELSE IF j = i THEN f ELSE listing[j - 1]) \in Rows
      BY <1>2, <2>6, <3>1
    <3>3. listing' \in [1..(Len(listing) + 1) -> Rows]
      BY <2>6, <3>2 DEF LinkFile
    <3>4. listing' \in Seq(Rows)
      BY <3>1, <3>3
    <3> QED
      BY <1>2, <2>6, <3>4 DEF LinkFile
  <2>7. CASE UNCHANGED scrollVars
    BY <1>2, <2>7 DEF scrollVars
  <2> QED
    BY <1>2, <2>3, <2>4, <2>5, <2>6, <2>7 DEF ScrollNext
<1> QED
  BY <1>1, <1>2, PTL DEF ScrollSpec

-----------------------------------------------------------------------------
(* What is left to see stands after the pages that were read *)

\* The rows of a page are those of its positions, and there is more when the
\* list goes on after it.
LEMMA PageContent ==
  ASSUME ScrollTypeOK, NEW p \in Nat \ {0}, NEW i \in DOMAIN listing, i > Offset(p)
  PROVE  /\ i <= Offset(p) + PageSize => listing[i] \in PageRows(p)
         /\ i > Offset(p) + PageSize => HasMore(p)
<1>1. PageSize \in Nat \ {0}
  BY ScrollAssumption
<1>2. Offset(p) \in Nat
  BY <1>1 DEF Offset
<1>3. DOMAIN listing = 1..Len(listing) /\ Len(listing) \in Nat /\ i \in Nat
  BY DEF ScrollTypeOK
<1>4. ASSUME i <= Offset(p) + PageSize
      PROVE  listing[i] \in PageRows(p)
  <2>1. i \in Result(p)
    BY <1>1, <1>2, <1>3, <1>4 DEF Result
  <2> QED
    BY <1>4, <2>1 DEF PageRows
<1>5. ASSUME i > Offset(p) + PageSize
      PROVE  HasMore(p)
  <2>1. Offset(p) + PageSize + 1 \in Result(p)
    BY <1>1, <1>2, <1>3, <1>5 DEF Result
  <2> QED
    BY <1>1, <1>2, <2>1 DEF HasMore
<1> QED
  BY <1>4, <1>5

LEMMA Offsets ==
  ASSUME NEW p \in Nat
  PROVE  Offset(p + 1) = p * PageSize /\ (p + 1) * PageSize = p * PageSize + PageSize
BY ScrollAssumption DEF Offset

LEMMA ScrollInvariantStep ==
  ASSUME ScrollTypeOK, ScrollInvariant, [ScrollNext]_scrollVars
  PROVE  ScrollInvariant'
<1> USE DEF ScrollInvariant
<1>0. /\ DOMAIN listing = 1..Len(listing) /\ Len(listing) \in Nat /\ page \in Nat
      /\ PageSize \in Nat \ {0}
  BY ScrollAssumption DEF ScrollTypeOK
<1>1. CASE OpenSource
  <2>1. ASSUME NEW i \in Unseen'
        PROVE  HasMore(1) /\ i > 1 * PageSize
    <3>1. i \in DOMAIN listing /\ listing[i] \in Listed \ PageRows(1)
      BY <1>1, <2>1 DEF OpenSource, Unseen
    <3>2. Offset(1) = 0
      BY <1>0 DEF Offset
    <3>3. i > Offset(1)
      BY <1>0, <3>1, <3>2
    <3>4. i > Offset(1) + PageSize
      BY <1>0, <3>1, <3>2, <3>3, PageContent
    <3> QED
      BY <1>0, <3>1, <3>2, <3>3, <3>4, PageContent
  <2>2. \A i \in Unseen' : page' > 0 /\ more' /\ i > page' * PageSize
    BY <1>1, <2>1 DEF OpenSource
  <2> QED
    BY <1>1, <2>2 DEF OpenSource, Listed
<1>2. CASE NextPage
  <2>1. ASSUME NEW i \in Unseen'
        PROVE  HasMore(page + 1) /\ i > (page + 1) * PageSize
    <3>1. i \in Unseen /\ listing[i] \notin PageRows(page + 1)
      BY <1>2, <2>1 DEF NextPage, Unseen
    <3>2. i \in DOMAIN listing /\ i > Offset(page + 1)
      BY <1>0, <3>1, Offsets DEF Unseen
    <3>3. i > Offset(page + 1) + PageSize
      BY <1>0, <3>1, <3>2, PageContent, Offsets DEF Offset
    <3> QED
      BY <1>0, <3>2, <3>3, PageContent, Offsets
  <2>2. \A i \in Unseen' : page' > 0 /\ more' /\ i > page' * PageSize
    BY <1>0, <1>2, <2>1 DEF NextPage
  <2> QED
    BY <1>2, <2>2 DEF NextPage, Listed
<1>3. ASSUME NEW f \in Rows, ReplaceFiles(f)
      PROVE  ScrollInvariant'
  <2>1. DOMAIN listing' = {1} /\ listing'[1] = f
    BY <1>3 DEF ReplaceFiles
  <2>2. Unseen' = {}
    BY <1>3, <2>1 DEF ReplaceFiles, Unseen
  <2> QED
    BY <1>3, <2>1, <2>2 DEF ReplaceFiles, Listed
<1>4. ASSUME NEW f \in Rows, NEW i \in 1..(Len(listing) + 1), LinkFile(f, i)
      PROVE  ScrollInvariant'
  <2>1. /\ DOMAIN listing' = 1..(Len(listing) + 1)
        /\ \A j \in DOMAIN listing' :
              listing'[j] = IF j < i THEN listing[j] ELSE IF j = i THEN f ELSE listing[j - 1]
    BY <1>4 DEF LinkFile
  <2>2. \A j \in DOMAIN listing : listing[j] \in added /\ listing[j] # f
    BY <1>4 DEF LinkFile, Listed
  <2>3. ASSUME NEW j \in DOMAIN listing', j # i
        PROVE  \E k \in DOMAIN listing : listing'[j] = listing[k] /\ k <= j /\
                                         k = IF j < i THEN j ELSE j - 1
    BY <1>0, <1>4, <2>1, <2>3
  <2>4. \A j, k \in DOMAIN listing' : listing'[j] = listing'[k] => j = k
    BY <1>0, <1>4, <2>1, <2>2
  <2>5. Listed' \subseteq added'
    BY <1>4, <2>1, <2>2, <2>3 DEF LinkFile, Listed
  <2>6. ASSUME NEW j \in Unseen'
        PROVE  page' > 0 /\ more' /\ j > page' * PageSize
    <3>1. j \in DOMAIN listing' /\ listing'[j] \in opening \ shown
      BY <1>4, <2>6 DEF LinkFile, Unseen
    <3>2. j # i
      BY <1>4, <2>1, <3>1 DEF LinkFile
    <3>3. PICK k \in DOMAIN listing : listing'[j] = listing[k] /\ k <= j
      BY <2>3, <3>1, <3>2
    <3>4. k \in Unseen
      BY <3>1, <3>3 DEF Unseen
    <3>5. page * PageSize \in Nat
      BY <1>0
    <3> QED
      BY <1>0, <1>4, <2>1, <3>1, <3>3, <3>4, <3>5 DEF LinkFile
  <2> QED
    BY <1>4, <2>4, <2>5, <2>6 DEF LinkFile
<1>5. CASE UNCHANGED scrollVars
  BY <1>5 DEF scrollVars, Listed, Unseen
<1> QED
  BY <1>1, <1>2, <1>3, <1>4, <1>5 DEF ScrollNext

\* Whoever has scrolled to the end has seen every file that was there when they
\* opened the source and still is, for every page size.
THEOREM ScrollComplete == ScrollSpec => []ScrollMissesNothing
<1>1. ScrollInit => ScrollInvariant
  BY DEF ScrollInit, ScrollInvariant, Listed, Unseen
<1>2. ScrollInvariant => ScrollMissesNothing
  BY DEF ScrollInvariant, ScrollMissesNothing, Listed, Unseen
<1> QED
  BY <1>1, <1>2, ScrollTypeCorrect, ScrollInvariantStep, PTL DEF ScrollSpec

-----------------------------------------------------------------------------
(* Sources and their shares *)

LibraryInv == LibraryTypeOK /\ LibraryInvariant

LEMMA EmptyRecords ==
  /\ FreeEdit \in EditRecords /\ FreeEdit.flushed = Nothing /\ FreeEdit.at = "free"
  /\ FreeEdit.source = None /\ FreeEdit.op = "create" /\ FreeEdit.loaded = {}
  /\ Nothing.sources = {} /\ Nothing.add = {} /\ Nothing.drop = {} /\ Nothing.bases = {}
  /\ Nothing.gone = {} /\ Nothing.people = {} /\ Nothing.dropped = {} /\ UsedSources(Nothing) = {}
BY DEF FreeEdit, EditRecords, Writes, Nothing, EditOps, UsedSources

\* A request that has nothing flushed is apart from all others, unless it means
\* what another is about to create.
LEMMA OthersUntouched ==
  ASSUME LibraryInv, NEW e \in Edits, NEW q \in EditRecords,
         edit' = [edit EXCEPT ![e] = q], UNCHANGED tables,
         (Checked(e) /\ FlushedAsAsked(e) /\ CanCommit(e))',
         \A f \in Edits \ {e} : (Apart(e, f) /\ Apart(f, e))'
  PROVE  LibraryInv'
<1>1. /\ people' = people /\ sources' = sources /\ shares' = shares /\ bases' = bases
  BY DEF tables
<1>2. LibraryTypeOK'
  BY <1>1 DEF LibraryInv, LibraryTypeOK
<1>3. \A f \in Edits \ {e} : edit'[f] = edit[f]
  BY DEF LibraryInv, LibraryTypeOK
<1>4. TablesAgree'
  BY <1>1 DEF LibraryInv, LibraryInvariant, TablesAgree, ConvertedStayPrivate
<1>5. ASSUME NEW f \in Edits \ {e}
      PROVE  (Checked(f) /\ FlushedAsAsked(f) /\ CanCommit(f))'
  <2>1. Checked(f) /\ FlushedAsAsked(f) /\ CanCommit(f)
    BY DEF LibraryInv, LibraryInvariant
  <2> QED
    BY <1>1, <1>3, <2>1 DEF Checked, FlushedAsAsked, CanCommit
<1>6. ASSUME NEW f \in Edits, NEW g \in Edits, f # g
      PROVE  Apart(f, g)'
  <2>1. CASE f # e /\ g # e
    <3>1. Apart(f, g)
      BY <1>6 DEF LibraryInv, LibraryInvariant
    <3> QED
      BY <1>3, <2>1, <3>1 DEF Apart
  <2> QED
    BY <1>6, <2>1
<1> QED
  BY <1>2, <1>4, <1>5, <1>6 DEF LibraryInv, LibraryInvariant

LEMMA ApartFromOthers ==
  ASSUME LibraryInv, NEW e \in Edits, NEW q \in EditRecords,
         edit' = [edit EXCEPT ![e] = q], q.flushed = Nothing,
         \A f \in Edits \ {e} : \A s \in edit[f].flushed.sources : q.source # s.id
  PROVE  \A f \in Edits \ {e} : (Apart(e, f) /\ Apart(f, e))'
<1>1. edit'[e] = q /\ \A f \in Edits \ {e} : edit'[f] = edit[f]
  BY DEF LibraryInv, LibraryTypeOK
<1> QED
  BY <1>1, EmptyRecords DEF Apart

LEMMA QuitPreserves ==
  ASSUME LibraryInv, NEW e \in Edits, Quit(e)
  PROVE  LibraryInv'
<1>1. edit' = [edit EXCEPT ![e] = FreeEdit] /\ UNCHANGED tables /\ edit'[e] = FreeEdit
  BY DEF Quit, LibraryInv, LibraryTypeOK
<1>2. (Checked(e) /\ FlushedAsAsked(e) /\ CanCommit(e))'
  BY <1>1, EmptyRecords DEF Checked, FlushedAsAsked, CanCommit
<1>3. \A f \in Edits \ {e} : \A s \in edit[f].flushed.sources : None # s.id
  BY LibraryAssumption DEF LibraryInv, LibraryTypeOK, EditRecords, Writes, Sources
<1>4. \A f \in Edits \ {e} : (Apart(e, f) /\ Apart(f, e))'
  BY <1>1, <1>3, EmptyRecords, ApartFromOthers
<1> QED
  BY <1>1, <1>2, <1>4, EmptyRecords, OthersUntouched

LEMMA AskPreserves ==
  ASSUME LibraryInv, NEW e \in Edits, NEW op \in EditOps, NEW by \in Persons,
         NEW source \in SourceIds \cup {None}, NEW kb \in BaseIds \cup {None},
         NEW names \in ShareLists \cup {{}},
         Ask(e, op, by, source, kb, names)
  PROVE  LibraryInv'
<1> DEFINE q == [op |-> op, by |-> by, source |-> source, base |-> kb, names |-> names,
                 at |-> IF op \in {"create", "leave"} THEN "flush" ELSE "get",
                 loaded |-> {}, flushed |-> Nothing]
<1>1. /\ edit' = [edit EXCEPT ![e] = q] /\ UNCHANGED tables
      /\ IF op \in {"create", "drop", "leave"} THEN source = None ELSE SourceOf(source) # {}
      /\ op = "drop" => \E b \in bases : b.id = kb
  BY DEF Ask
<1>2. /\ q.op = op /\ q.by = by /\ q.source = source /\ q.base = kb /\ q.names = names
      /\ q.at = (IF op \in {"create", "leave"} THEN "flush" ELSE "get")
      /\ q.loaded = {} /\ q.flushed = Nothing
  OBVIOUS
<1>3. q \in EditRecords
  BY DEF EditRecords, Nothing, Writes
<1> HIDE DEF q
<1>4. edit'[e] = q
  BY <1>1 DEF LibraryInv, LibraryTypeOK
<1>5. source # None => \E s \in sources : s.id = source
  BY <1>1 DEF SourceOf, EditOps
<1>6. Checked(e)'
  <2>1. op = "drop" => kb \in BaseIds
    BY <1>1 DEF LibraryInv, LibraryTypeOK, Bases
  <2>2. op \in {"update", "delete", "base"} => source \in SourceIds
    BY <1>1 DEF SourceOf, LibraryInv, LibraryTypeOK, Sources
  <2> QED
    BY <1>1, <1>2, <1>4, <2>1, <2>2 DEF Checked, EditOps
<1>7. (FlushedAsAsked(e) /\ CanCommit(e))'
  BY <1>2, <1>4, EmptyRecords DEF FlushedAsAsked, CanCommit
<1>8. ASSUME NEW f \in Edits \ {e}, NEW s \in edit[f].flushed.sources
      PROVE  q.source # s.id
  <2>1. s.id \in SourceIds /\ \A t \in sources : s.id # t.id
    BY DEF LibraryInv, LibraryTypeOK, EditRecords, Writes, Sources, LibraryInvariant, CanCommit
  <2> QED
    BY <1>2, <1>5, <2>1, LibraryAssumption
<1>9. \A f \in Edits \ {e} : (Apart(e, f) /\ Apart(f, e))'
  BY <1>1, <1>2, <1>3, <1>8, ApartFromOthers
<1> QED
  BY <1>1, <1>3, <1>6, <1>7, <1>9, OthersUntouched

LEMMA GetPreserves ==
  ASSUME LibraryInv, NEW e \in Edits, Get(e)
  PROVE  LibraryInv'
<1>1. CASE Quit(e)
  BY <1>1, QuitPreserves
<1>2. CASE ~Quit(e)
  <2>1. PICK withShared \in BOOLEAN, s \in SourceOf(edit[e].source) :
          /\ Visible(s, edit[e].by) /\ Mutable(s) /\ MayEdit(s, edit[e].by)
          /\ edit' = [edit EXCEPT
                ![e].at = "flush",
                ![e].loaded = IF edit[e].op = "update" /\ withShared
                              THEN {p \in shares : p.source = edit[e].source} ELSE {}]
          /\ UNCHANGED tables
    BY <1>2 DEF Get
  <2> DEFINE loaded == IF edit[e].op = "update" /\ withShared
                       THEN {p \in shares : p.source = edit[e].source} ELSE {}
             q == [edit[e] EXCEPT !.at = "flush", !.loaded = loaded]
  <2>2. /\ edit[e] \in EditRecords /\ edit[e].at = "get" /\ loaded \subseteq Shares
        /\ \A p \in loaded : p.source = edit[e].source
    BY DEF Get, LibraryInv, LibraryTypeOK
  <2>3. edit' = [edit EXCEPT ![e] = q]
    BY <2>1 DEF LibraryInv, LibraryTypeOK
  <2> HIDE DEF loaded
  <2>4. Checked(e) /\ FlushedAsAsked(e) /\ edit[e].flushed = Nothing
    BY <2>2 DEF LibraryInv, LibraryInvariant, FlushedAsAsked
  <2>5. /\ q \in EditRecords /\ q.op = edit[e].op /\ q.by = edit[e].by
        /\ q.source = edit[e].source /\ q.at = "flush" /\ q.loaded = loaded
        /\ q.flushed = Nothing
    BY <2>2, <2>4 DEF EditRecords, Writes
  <2> HIDE DEF q
  <2>6. edit'[e] = q
    BY <2>3 DEF LibraryInv, LibraryTypeOK
  <2>7. \A t \in sources : t.id = q.source => t = s
    BY <2>1, <2>5 DEF SourceOf, LibraryInv, LibraryInvariant, TablesAgree
  <2>8. Checked(e)'
    <3>1. q.op # "drop" /\ q.at = "flush" /\ edit[e].at = "get"
      BY <2>2, <2>5 DEF Get
    <3>2. \A p \in loaded : q.op = "update" /\ p.source = q.source
      BY <2>5 DEF loaded
    <3> QED
      BY <2>1, <2>4, <2>5, <2>6, <2>7, <3>1, <3>2 DEF Checked, Mutable, MayEdit, tables
  <2>9. (FlushedAsAsked(e) /\ CanCommit(e))'
    BY <2>5, <2>6, EmptyRecords DEF FlushedAsAsked, CanCommit
  <2>10. \A f \in Edits \ {e} : \A t \in edit[f].flushed.sources : q.source # t.id
    BY <2>5 DEF LibraryInv, LibraryInvariant, Apart
  <2>11. \A f \in Edits \ {e} : (Apart(e, f) /\ Apart(f, e))'
    BY <2>3, <2>5, <2>10, ApartFromOthers
  <2> QED
    BY <2>1, <2>3, <2>5, <2>8, <2>9, <2>11, OthersUntouched
<1> QED
  BY <1>1, <1>2

LEMMA GetBasePreserves ==
  ASSUME LibraryInv, NEW e \in Edits, GetBase(e)
  PROVE  LibraryInv'
<1>1. CASE Quit(e)
  BY <1>1, QuitPreserves
<1>2. CASE ~Quit(e)
  <2>1. PICK b \in bases :
          /\ b.id = edit[e].base
          /\ edit' = [edit EXCEPT ![e].at = "flush", ![e].source = b.converted]
          /\ UNCHANGED tables
    BY <1>2 DEF GetBase
  <2> DEFINE q == [edit[e] EXCEPT !.at = "flush", !.source = b.converted]
  <2>2. /\ edit[e] \in EditRecords /\ edit[e].at = "get" /\ edit[e].op = "drop"
        /\ b \in Bases
    BY DEF GetBase, LibraryInv, LibraryTypeOK
  <2>3. edit' = [edit EXCEPT ![e] = q]
    BY <2>1 DEF LibraryInv, LibraryTypeOK
  <2>4. Checked(e) /\ FlushedAsAsked(e) /\ edit[e].flushed = Nothing
    BY <2>2 DEF LibraryInv, LibraryInvariant, FlushedAsAsked
  <2>5. /\ q \in EditRecords /\ q.op = "drop" /\ q.by = edit[e].by
        /\ q.source = b.converted /\ q.base = b.id /\ q.at = "flush"
        /\ q.loaded = edit[e].loaded /\ q.flushed = Nothing
    BY <2>1, <2>2, <2>4 DEF EditRecords, Writes, Bases
  <2> HIDE DEF q
  <2>6. edit'[e] = q
    BY <2>3 DEF LibraryInv, LibraryTypeOK
  <2>7. TablesAgree /\ \A s \in sources : s.id # None
    BY LibraryAssumption DEF LibraryInv, LibraryInvariant, LibraryTypeOK, Sources
  <2>8. Checked(e)'
    <3>1. /\ \A p \in q.loaded : q.op = "update" /\ p.source = q.source
          /\ q.by \in Persons /\ q.base \in BaseIds
      BY <2>2, <2>4, <2>5 DEF Checked, Bases
    <3>2. ASSUME q.source # None
          PROVE  /\ \A s \in sources : s.id = q.source => s.origin = "SYSTEM"
                 /\ \A c \in bases : c.converted = q.source => c.id = q.base
      BY <2>5, <2>7, <3>2 DEF TablesAgree, ConvertedStayPrivate
    <3> QED
      BY <2>1, <2>5, <2>6, <3>1, <3>2 DEF Checked, tables
  <2>9. (FlushedAsAsked(e) /\ CanCommit(e))'
    BY <2>5, <2>6, EmptyRecords DEF FlushedAsAsked, CanCommit
  <2>10. ASSUME NEW f \in Edits \ {e}, NEW t \in edit[f].flushed.sources
         PROVE  q.source # t.id
    <3>1. t.id # None /\ \A s \in sources : t.id # s.id
      BY LibraryAssumption
         DEF LibraryInv, LibraryTypeOK, EditRecords, Writes, Sources, LibraryInvariant, CanCommit
    <3>2. q.source # None => \E s \in sources : s.id = q.source
      BY <2>5, <2>7 DEF TablesAgree, ConvertedStayPrivate
    <3> QED
      BY <3>1, <3>2
  <2>11. \A f \in Edits \ {e} : (Apart(e, f) /\ Apart(f, e))'
    BY <2>3, <2>5, <2>10, ApartFromOthers
  <2> QED
    BY <2>1, <2>3, <2>5, <2>8, <2>9, <2>11, OthersUntouched
<1> QED
  BY <1>1, <1>2

\* What each kind of request writes, and of which sources.
LEMMA WrittenAsAsked ==
  ASSUME NEW q \in EditRecords, NEW id, q.by \in Persons,
         q.op = "create" => id \in SourceIds,
         q.op = "base" => id \in BaseIds,
         q.op \in {"update", "delete", "base"} => q.source \in SourceIds,
         q.op = "drop" => q.base \in BaseIds,
         \A p \in q.loaded : p.source = q.source
  PROVE  LET w == Written(q, id) IN
         /\ [q EXCEPT !.flushed = w, !.at = "commit", !.loaded = {}] \in EditRecords
         /\ w.sources = IF q.op = "create"
                        THEN {[id |-> id, owner |-> q.by, origin |-> "USER"]} ELSE {}
         /\ \A p \in w.add : p.user \in q.names
         /\ \A i \in UsedSources(w) :
               IF q.op = "create" THEN i = id ELSE q.op \in {"update", "base"} /\ i = q.source
         /\ \A b \in w.bases : b.converted = None
         /\ \A i \in w.gone :
               i = q.source /\ (q.op = "delete" \/ (q.op = "drop" /\ q.base \in w.dropped))
<1> DEFINE meant == IF q.op = "create" THEN id ELSE q.source
           named == {[source |-> meant, user |-> u] : u \in q.names}
           w == Written(q, id)
           r == [q EXCEPT !.flushed = w, !.at = "commit", !.loaded = {}]
<1>1. q.op \in EditOps /\ q.names \subseteq Persons /\ q.loaded \subseteq Shares
  BY LibraryAssumption DEF EditRecords, Writes
<1>2. /\ \A p \in named : p.source = meant /\ p.user \in q.names
      /\ meant \in SourceIds => named \subseteq Shares
  BY <1>1 DEF Shares
<1>3. ASSUME /\ w.people \subseteq Persons /\ w.sources \subseteq Sources
             /\ w.add \subseteq Shares /\ w.drop \subseteq Shares
             /\ w.bases \subseteq Bases /\ w.gone \subseteq SourceIds /\ w.dropped \subseteq BaseIds,
             w = [people |-> w.people, sources |-> w.sources, add |-> w.add,
                  drop |-> w.drop, bases |-> w.bases, gone |-> w.gone, dropped |-> w.dropped]
      PROVE  r \in EditRecords
  <2> HIDE DEF w
  <2>1. w \in [people : SUBSET Persons, sources : SUBSET Sources,
               add : SUBSET Shares, drop : SUBSET Shares,
               bases : SUBSET Bases, gone : SUBSET SourceIds, dropped : SUBSET BaseIds]
    BY <1>3
  <2> QED
    BY <2>1 DEF EditRecords, Writes
<1>4. CASE q.op = "create"
  <2> DEFINE s == [id |-> id, owner |-> q.by, origin |-> "USER"]
  <2>1. w = [Nothing EXCEPT !.sources = {s}, !.add = named]
    BY <1>4 DEF Written
  <2>2. s \in Sources
    BY <1>4 DEF Sources, Origins
  <2> HIDE DEF s, meant, named, w
  <2>3. /\ w.sources = {s} /\ w.add = named /\ w.drop = {} /\ w.bases = {}
        /\ w.gone = {} /\ w.people = {} /\ w.dropped = {}
        /\ w = [people |-> w.people, sources |-> w.sources, add |-> w.add,
                drop |-> w.drop, bases |-> w.bases, gone |-> w.gone, dropped |-> w.dropped]
    BY <2>1 DEF Nothing
  <2>4. r \in EditRecords
    BY <1>2, <1>3, <1>4, <2>2, <2>3 DEF meant
  <2>5. \A i \in UsedSources(w) : i = id
    BY <1>2, <1>4, <2>3 DEF UsedSources, meant
  <2> QED
    BY <1>2, <1>4, <2>3, <2>4, <2>5 DEF s, w
<1>5. CASE q.op = "update"
  <2>1. w = [Nothing EXCEPT !.add = named \ q.loaded, !.drop = q.loaded \ named]
    BY <1>5 DEF Written
  <2> HIDE DEF meant, named, w
  <2>2. /\ w.sources = {} /\ w.add = named \ q.loaded /\ w.drop = q.loaded \ named
        /\ w.bases = {} /\ w.gone = {} /\ w.people = {} /\ w.dropped = {}
        /\ w = [people |-> w.people, sources |-> w.sources, add |-> w.add,
                drop |-> w.drop, bases |-> w.bases, gone |-> w.gone, dropped |-> w.dropped]
    BY <2>1 DEF Nothing
  <2>3. r \in EditRecords
    BY <1>1, <1>2, <1>3, <1>5, <2>2 DEF meant
  <2>4. \A p \in w.add \cup w.drop : p.source = q.source
    BY <1>2, <1>5, <2>2 DEF meant
  <2>5. \A i \in UsedSources(w) : i = q.source
    BY <2>2, <2>4 DEF UsedSources
  <2> QED
    BY <1>2, <1>5, <2>2, <2>3, <2>5 DEF w
<1>6. CASE q.op = "delete"
  <2>1. w = [Nothing EXCEPT !.gone = {q.source}]
    BY <1>6 DEF Written
  <2> HIDE DEF w
  <2>2. /\ w.sources = {} /\ w.add = {} /\ w.drop = {} /\ w.bases = {}
        /\ w.gone = {q.source} /\ w.people = {} /\ w.dropped = {}
        /\ w = [people |-> w.people, sources |-> w.sources, add |-> w.add,
                drop |-> w.drop, bases |-> w.bases, gone |-> w.gone, dropped |-> w.dropped]
    BY <2>1 DEF Nothing
  <2>3. r \in EditRecords
    BY <1>3, <1>6, <2>2
  <2>4. UsedSources(w) = {}
    BY <2>2 DEF UsedSources
  <2> QED
    BY <1>6, <2>2, <2>3, <2>4 DEF w
<1>7. CASE q.op = "base"
  <2> DEFINE b == [id |-> id, source |-> q.source, owner |-> q.by, converted |-> None]
  <2>1. w = [Nothing EXCEPT !.bases = {b}]
    BY <1>7 DEF Written
  <2>2. b \in Bases /\ b.source = q.source /\ b.converted = None
    BY <1>7 DEF Bases
  <2> HIDE DEF b, w
  <2>3. /\ w.sources = {} /\ w.add = {} /\ w.drop = {} /\ w.bases = {b}
        /\ w.gone = {} /\ w.people = {} /\ w.dropped = {}
        /\ w = [people |-> w.people, sources |-> w.sources, add |-> w.add,
                drop |-> w.drop, bases |-> w.bases, gone |-> w.gone, dropped |-> w.dropped]
    BY <2>1 DEF Nothing
  <2>4. r \in EditRecords
    BY <1>3, <1>7, <2>2, <2>3
  <2>5. \A i \in UsedSources(w) : i = q.source
    BY <2>2, <2>3 DEF UsedSources
  <2> QED
    BY <1>7, <2>2, <2>3, <2>4, <2>5 DEF w
<1>8. CASE q.op = "leave"
  <2>1. w = [Nothing EXCEPT !.people = {q.by}]
    BY <1>8 DEF Written
  <2> HIDE DEF w
  <2>2. /\ w.sources = {} /\ w.add = {} /\ w.drop = {} /\ w.bases = {}
        /\ w.gone = {} /\ w.people = {q.by} /\ w.dropped = {}
        /\ w = [people |-> w.people, sources |-> w.sources, add |-> w.add,
                drop |-> w.drop, bases |-> w.bases, gone |-> w.gone, dropped |-> w.dropped]
    BY <2>1 DEF Nothing
  <2>3. r \in EditRecords
    BY <1>3, <2>2
  <2>4. UsedSources(w) = {}
    BY <2>2 DEF UsedSources
  <2> QED
    BY <1>8, <2>2, <2>3, <2>4 DEF w
<1>9. CASE q.op = "drop"
  <2>1. w = [Nothing EXCEPT !.dropped = {q.base}, !.gone = {q.source} \ {None}]
    BY <1>9 DEF Written
  <2>2. {q.source} \ {None} \subseteq SourceIds
    BY DEF EditRecords, Writes
  <2> HIDE DEF w
  <2>3. /\ w.sources = {} /\ w.add = {} /\ w.drop = {} /\ w.bases = {}
        /\ w.gone = {q.source} \ {None} /\ w.people = {} /\ w.dropped = {q.base}
        /\ w = [people |-> w.people, sources |-> w.sources, add |-> w.add,
                drop |-> w.drop, bases |-> w.bases, gone |-> w.gone, dropped |-> w.dropped]
    BY <2>1 DEF Nothing
  <2>4. r \in EditRecords
    BY <1>3, <1>9, <2>2, <2>3
  <2>5. UsedSources(w) = {}
    BY <2>3 DEF UsedSources
  <2> QED
    BY <1>9, <2>3, <2>4, <2>5 DEF w
<1> QED
  BY <1>1, <1>4, <1>5, <1>6, <1>7, <1>8, <1>9 DEF EditOps

LEMMA FlushEditPreserves ==
  ASSUME LibraryInv, NEW e \in Edits, FlushEdit(e)
  PROVE  LibraryInv'
<1>1. CASE Quit(e)
  BY <1>1, QuitPreserves
<1>2. CASE ~Quit(e)
  <2> DEFINE q == edit[e]
  <2>1. PICK id \in Drawn(q.op) :
          LET w == Written(q, id) IN
          /\ \A f \in Edits \ {e} : ~Waits(w, edit[f].flushed)
          /\ ~Fails(w)
          /\ edit' = [edit EXCEPT ![e].flushed = w, ![e].at = "commit", ![e].loaded = {}]
          /\ UNCHANGED tables
    <3>1. PICK id \in Drawn(edit[e].op) :
            LET w == Written(edit[e], id) IN
            /\ \A f \in Edits \ {e} : ~Waits(w, edit[f].flushed)
            /\ IF Fails(w) \/ ~ edit[e].names \subseteq people THEN Quit(e)
               ELSE /\ edit' = [edit EXCEPT ![e].flushed = w, ![e].at = "commit",
                                            ![e].loaded = {}]
                    /\ UNCHANGED tables
      BY Zenon DEF FlushEdit
    <3>2. ~(Fails(Written(edit[e], id)) \/ ~ edit[e].names \subseteq people)
      BY <1>2, <3>1
    <3> QED
      BY <3>1, <3>2, Zenon
  <2>2. /\ q \in EditRecords /\ q.at = "flush" /\ Checked(e) /\ q.by \in Persons
        /\ q.op \in EditOps
    BY DEF FlushEdit, LibraryInv, LibraryTypeOK, LibraryInvariant, Checked, EditRecords, Writes
  <2>3. /\ q.op = "create" => id \in FreeSourceIds /\ id \in SourceIds
        /\ q.op = "base" => id \in BaseIds
        /\ q.op \in {"update", "delete", "base"} => q.source \in SourceIds
        /\ q.op = "drop" => q.base \in BaseIds
    BY <2>1, <2>2 DEF Drawn, FreeSourceIds, FreeBaseIds, Checked
  <2>4. q.op = "create" =>
          /\ \A s \in sources : s.id # id
          /\ \A f \in Edits : edit[f].source # id /\ \A s \in edit[f].flushed.sources : s.id # id
    BY <2>3 DEF FreeSourceIds
  <2> DEFINE w == Written(q, id)
             r == [q EXCEPT !.flushed = w, !.at = "commit", !.loaded = {}]
  <2>5. /\ r \in EditRecords
        /\ w.sources = IF q.op = "create"
                       THEN {[id |-> id, owner |-> q.by, origin |-> "USER"]} ELSE {}
        /\ \A p \in w.add : p.user \in q.names
        /\ \A i \in UsedSources(w) :
              IF q.op = "create" THEN i = id ELSE q.op \in {"update", "base"} /\ i = q.source
        /\ \A b \in w.bases : b.converted = None
        /\ \A i \in w.gone :
              i = q.source /\ (q.op = "delete" \/ (q.op = "drop" /\ q.base \in w.dropped))
    <3>1. \A p \in q.loaded : p.source = q.source
      BY <2>2 DEF Checked
    <3>2. q.by \in Persons
      BY <2>2
    <3>3. q.op = "create" => id \in SourceIds
      BY <2>3
    <3> HIDE DEF q
    <3> QED
      BY <2>2, <2>3, <3>1, <3>2, <3>3, WrittenAsAsked, Zenon
  <2>6. edit' = [edit EXCEPT ![e] = r] /\ UNCHANGED tables
    BY <2>1 DEF LibraryInv, LibraryTypeOK
  <2>7. /\ r.op = q.op /\ r.by = q.by /\ r.source = q.source /\ r.base = q.base
        /\ r.names = q.names
        /\ r.at = "commit" /\ r.loaded = {} /\ r.flushed = w
    BY <2>2 DEF EditRecords, Writes
  <2>8. /\ \A f \in Edits \ {e} : ~Waits(w, edit[f].flushed)
        /\ ~Fails(w)
    BY <2>1
  <2> HIDE DEF w, r
  <2>9. edit'[e] = r /\ \A f \in Edits \ {e} : edit'[f] = edit[f]
    BY <2>6 DEF LibraryInv, LibraryTypeOK
  <2>10. Checked(e)'
    BY <2>2, <2>6, <2>7, <2>9 DEF Checked, tables, MayEdit
  <2>11. FlushedAsAsked(e)'
    <3>1. \A s \in w.sources : s = [id |-> id, owner |-> q.by, origin |-> "USER"]
      BY <2>5
    <3>2. \A s, t \in w.sources : s = t
      BY <2>5
    <3>3. \A i \in UsedSources(w) :
            IF q.op = "create" THEN \E s \in w.sources : s.id = i
                               ELSE q.op \in {"update", "base"} /\ i = q.source
      <4>1. q.op = "create" => \E s \in w.sources : s.id = id
        BY <2>5
      <4> QED
        BY <2>5, <4>1
    <3> QED
      BY <2>5, <2>7, <2>9, <3>1, <3>2, <3>3 DEF FlushedAsAsked
  <2>12. q.op # "drop" => w.dropped = {}
    BY <2>2 DEF w, Written, Nothing, EditOps
  <2>13. CanCommit(e)'
    <3>1. \A s \in w.sources, t \in sources : s.id # t.id
      BY <2>4, <2>5
    <3>2. \A i \in UsedSources(w) : \E s \in sources \cup w.sources : s.id = i
      BY <2>8 DEF Fails
    <3>3. ASSUME NEW b \in bases
          PROVE  b.source \notin w.gone
      <4>1. CASE b.id \notin w.dropped
        BY <2>8, <4>1 DEF Fails
      <4>2. CASE b.id \in w.dropped /\ b.source \in w.gone
        <5>1. q.op = "drop" /\ b.source = q.source
          BY <2>5, <2>12, <4>2
        <5>2. PICK s \in sources : s.id = b.source /\ s.origin = "USER"
          BY DEF LibraryInv, LibraryInvariant, TablesAgree, ConvertedStayPrivate
        <5>3. q.source # None
          BY <5>1, <5>2, LibraryAssumption DEF LibraryInv, LibraryTypeOK, Sources
        <5> QED
          BY <2>2, <5>1, <5>2, <5>3 DEF Checked
      <4> QED
        BY <4>1, <4>2
    <3> QED
      BY <2>6, <2>7, <2>9, <3>1, <3>2, <3>3 DEF CanCommit, tables
  <2>14. ASSUME NEW f \in Edits \ {e}
         PROVE  (Apart(e, f) /\ Apart(f, e))'
    <3>1. Apart(f, e)
      BY DEF LibraryInv, LibraryInvariant
    <3>2. \A s \in w.sources : edit[f].source # s.id /\ \A t \in edit[f].flushed.sources : t.id # s.id
      BY <2>4, <2>5
    <3>3. w.gone \cap UsedSources(edit[f].flushed) = {} /\ edit[f].flushed.gone \cap UsedSources(w) = {}
      BY <2>8 DEF Waits
    <3> QED
      BY <2>7, <2>9, <3>1, <3>2, <3>3 DEF Apart
  <2> QED
    BY <2>5, <2>6, <2>10, <2>11, <2>13, <2>14, OthersUntouched
<1> QED
  BY <1>1, <1>2

\* What can be said of a request after the tables have changed.
LEMMA TablesChange ==
  ASSUME LibraryInv, LibraryTypeOK', TablesAgree',
         \A f \in Edits : edit'[f] = edit[f] \/ edit'[f] = FreeEdit,
         \A f \in Edits : edit'[f] = edit[f] => (Checked(f) /\ CanCommit(f))'
  PROVE  LibraryInv'
<1>1. \A f \in Edits : \A s \in edit[f].flushed.sources : None # s.id
  BY LibraryAssumption DEF LibraryInv, LibraryTypeOK, EditRecords, Writes, Sources
<1>2. ASSUME NEW f \in Edits
      PROVE  (Checked(f) /\ FlushedAsAsked(f) /\ CanCommit(f))'
  <2>1. CASE edit'[f] = FreeEdit
    BY <2>1, EmptyRecords DEF Checked, FlushedAsAsked, CanCommit
  <2>2. CASE edit'[f] = edit[f]
    <3>1. FlushedAsAsked(f)
      BY DEF LibraryInv, LibraryInvariant
    <3> QED
      BY <2>2, <3>1 DEF FlushedAsAsked
  <2> QED
    BY <2>1, <2>2
<1>3. ASSUME NEW f \in Edits, NEW g \in Edits, f # g
      PROVE  Apart(f, g)'
  <2>1. Apart(f, g)
    BY <1>3 DEF LibraryInv, LibraryInvariant
  <2>2. CASE edit'[f] = FreeEdit
    BY <2>2, EmptyRecords DEF Apart
  <2>3. CASE edit'[f] = edit[f] /\ edit'[g] = FreeEdit
    BY <1>1, <2>3, EmptyRecords DEF Apart
  <2>4. CASE edit'[f] = edit[f] /\ edit'[g] = edit[g]
    BY <2>1, <2>4 DEF Apart
  <2> QED
    BY <2>2, <2>3, <2>4
<1> QED
  BY <1>2, <1>3 DEF LibraryInv, LibraryInvariant

LEMMA CommitEditPreserves ==
  ASSUME LibraryInv, NEW e \in Edits, CommitEdit(e)
  PROVE  LibraryInv'
<1> DEFINE q == edit[e]
           w == q.flushed
<1>1. /\ q \in EditRecords /\ q.at = "commit"
      /\ Checked(e) /\ FlushedAsAsked(e) /\ CanCommit(e) /\ TablesAgree
  BY DEF CommitEdit, LibraryInv, LibraryTypeOK, LibraryInvariant
<1>2. /\ people' = people \ w.people
      /\ sources' = {s \in sources : s.id \notin w.gone} \cup w.sources
      /\ shares' = {p \in (shares \ w.drop) \cup w.add :
                       p.source \notin w.gone /\ p.user \notin w.people}
      /\ bases' = {b \in bases : b.id \notin w.dropped} \cup w.bases
      /\ edit' = [edit EXCEPT ![e] = FreeEdit]
      /\ edit'[e] = FreeEdit /\ \A f \in Edits \ {e} : edit'[f] = edit[f]
  BY DEF CommitEdit, LibraryInv, LibraryTypeOK
<1>3. LibraryTypeOK'
  BY <1>1, <1>2, EmptyRecords DEF LibraryInv, LibraryTypeOK, EditRecords, Writes
<1>4. ASSUME NEW b \in bases, NEW s \in sources, s.id = b.converted, s.origin = "SYSTEM",
             b.id \notin w.dropped
      PROVE  s.id \notin w.gone
  <2> SUFFICES ASSUME s.id \in w.gone PROVE FALSE
    OBVIOUS
  <2>1. s.id = q.source /\ (q.op = "delete" \/ (q.op = "drop" /\ q.base \in w.dropped))
    BY <1>1 DEF FlushedAsAsked
  <2>2. s.id # None
    BY LibraryAssumption DEF LibraryInv, LibraryTypeOK, Sources
  <2> QED
    BY <1>1, <1>4, <2>1, <2>2 DEF Checked
<1>5. ASSUME NEW id \in UsedSources(w)
      PROVE  \E s \in sources' : s.id = id /\ s.origin = "USER"
  <2>1. w.gone = {}
    BY <1>1, <1>5 DEF FlushedAsAsked
  <2>2. PICK s \in sources \cup w.sources : s.id = id
    BY <1>1, <1>5 DEF CanCommit
  <2>3. CASE q.op = "create"
    <3>1. PICK t \in w.sources : t.id = id
      BY <1>1, <1>5, <2>3 DEF FlushedAsAsked
    <3> QED
      BY <1>1, <1>2, <3>1 DEF FlushedAsAsked
  <2>4. CASE q.op # "create"
    <3>1. w.sources = {} /\ q.op \in {"update", "base"} /\ id = q.source
      BY <1>1, <1>5, <2>4 DEF FlushedAsAsked
    <3>2. s.origin = "USER"
      BY <1>1, <2>2, <3>1 DEF Checked
    <3> QED
      BY <1>2, <2>1, <2>2, <3>1, <3>2
  <2> QED
    BY <2>3, <2>4
<1>6. TablesAgree'
  <2>1. ASSUME NEW s \in sources', NEW t \in sources', s.id = t.id
        PROVE  s = t
    BY <1>1, <1>2, <2>1 DEF TablesAgree, CanCommit, FlushedAsAsked
  <2>2. ASSUME NEW p \in shares'
        PROVE  \E s \in sources' : s.id = p.source /\ s.origin = "USER"
    <3>1. CASE p \in w.add
      BY <1>5, <3>1 DEF UsedSources
    <3>2. CASE p \in shares
      <4>1. PICK s \in sources : s.id = p.source /\ s.origin = "USER"
        BY <1>1, <3>2 DEF TablesAgree, ConvertedStayPrivate
      <4> QED
        BY <1>2, <4>1
    <3> QED
      BY <1>2, <3>1, <3>2
  <2>3. ASSUME NEW b \in bases', b.converted # None
        PROVE  \E s \in sources' :
                  s.id = b.converted /\ s.origin = "SYSTEM" /\ s.owner = b.owner
    <3>1. b \in bases /\ b.id \notin w.dropped
      BY <1>1, <1>2, <2>3 DEF FlushedAsAsked
    <3>2. PICK s \in sources : s.id = b.converted /\ s.origin = "SYSTEM" /\ s.owner = b.owner
      BY <1>1, <2>3, <3>1 DEF TablesAgree, ConvertedStayPrivate
    <3> QED
      BY <1>2, <1>4, <3>1, <3>2
  <2>4. ASSUME NEW b \in bases', NEW c \in bases', b.converted = c.converted, b.converted # None
        PROVE  b = c
    BY <1>1, <1>2, <2>4 DEF TablesAgree, ConvertedStayPrivate, FlushedAsAsked
  <2>5. \A p \in shares' : \A s \in sources' : s.id = p.source => s.origin = "USER"
    BY <2>1, <2>2
  <2>6. ASSUME NEW b \in bases'
        PROVE  \E s \in sources' : s.id = b.source /\ s.origin = "USER"
    <3>1. CASE b \in w.bases
      BY <1>5, <3>1 DEF UsedSources
    <3>2. CASE b \in bases
      <4>1. PICK s \in sources : s.id = b.source /\ s.origin = "USER"
        BY <1>1, <3>2 DEF TablesAgree, ConvertedStayPrivate
      <4>2. b.source \notin w.gone
        BY <1>1, <3>2 DEF CanCommit
      <4> QED
        BY <1>2, <4>1, <4>2
    <3> QED
      BY <1>2, <3>1, <3>2
  <2> QED
    BY <2>1, <2>2, <2>3, <2>4, <2>5, <2>6 DEF TablesAgree, ConvertedStayPrivate
<1>7. ASSUME NEW f \in Edits \ {e}
      PROVE  (Checked(f) /\ CanCommit(f))'
  <2>1. /\ Checked(f) /\ CanCommit(f) /\ Apart(e, f) /\ Apart(f, e)
        /\ edit'[f] = edit[f]
    BY <1>2 DEF LibraryInv, LibraryInvariant
  <2>2. \A s \in sources' : s \in sources \/ s \in w.sources
    BY <1>2
  <2>3. Checked(f)'
    <3>1. \A b \in bases' : b \in bases \/ b.converted = None
      BY <1>1, <1>2 DEF FlushedAsAsked
    <3>2. ASSUME NEW s \in sources', s.id = edit[f].source
          PROVE  s \in sources
      BY <2>1, <2>2, <3>2 DEF Apart
    <3>3. /\ edit'[f] = edit[f]
          /\ \A s \in sources' : MayEdit(s, edit[f].by)' = MayEdit(s, edit[f].by)
      BY <2>1 DEF MayEdit
    <3> QED
      BY <2>1, <3>1, <3>2, <3>3 DEF Checked, MayEdit
  <2>4. \A s \in edit[f].flushed.sources, t \in sources' : s.id # t.id
    BY <2>1, <2>2 DEF CanCommit, Apart
  <2>5. ASSUME NEW id \in UsedSources(edit[f].flushed)
        PROVE  \E s \in sources' \cup edit[f].flushed.sources : s.id = id
    <3>1. id \notin w.gone
      BY <2>1, <2>5 DEF Apart
    <3>2. PICK s \in sources \cup edit[f].flushed.sources : s.id = id
      BY <2>1, <2>5 DEF CanCommit
    <3> QED
      BY <1>2, <3>1, <3>2
  <2>6. ASSUME NEW b \in bases'
        PROVE  b.source \notin edit[f].flushed.gone
    <3>1. CASE b \in bases
      BY <2>1, <3>1 DEF CanCommit
    <3>2. CASE b \in w.bases
      BY <2>1, <3>2 DEF Apart, UsedSources
    <3> QED
      BY <1>2, <3>1, <3>2
  <2> QED
    BY <2>1, <2>3, <2>4, <2>5, <2>6 DEF CanCommit
<1>8. \A f \in Edits : edit'[f] = edit[f] => (Checked(f) /\ CanCommit(f))'
  <2>1. edit[e] # FreeEdit
    BY <1>1, EmptyRecords
  <2> QED
    BY <1>2, <1>7, <2>1
<1> QED
  BY <1>2, <1>3, <1>6, <1>8, TablesChange

LEMMA ConvertPreserves ==
  ASSUME LibraryInv, NEW b \in bases, Convert(b)
  PROVE  LibraryInv'
<1>1. PICK id \in FreeSourceIds :
        /\ sources' = sources \cup {[id |-> id, owner |-> b.owner, origin |-> "SYSTEM"]}
        /\ bases' = (bases \ {b}) \cup {[b EXCEPT !.converted = id]}
  BY DEF Convert
<1> DEFINE s == [id |-> id, owner |-> b.owner, origin |-> "SYSTEM"]
           c == [b EXCEPT !.converted = id]
<1>2. /\ people' = people /\ shares' = shares /\ edit' = edit /\ b.converted = None
      /\ b \in Bases /\ TablesAgree
  BY DEF Convert, LibraryInv, LibraryTypeOK, LibraryInvariant
<1>3. /\ id \in SourceIds /\ id # None /\ \A t \in sources : t.id # id
      /\ \A f \in Edits : edit[f].source # id /\ \A t \in edit[f].flushed.sources : t.id # id
  BY LibraryAssumption DEF FreeSourceIds
<1>4. /\ s \in Sources /\ s.id = id /\ s.owner = b.owner /\ s.origin = "SYSTEM"
      /\ c \in Bases /\ c.converted = id /\ c.owner = b.owner /\ c.source = b.source
  BY <1>2, <1>3 DEF Sources, Bases, Origins
<1>5. sources' = sources \cup {s} /\ bases' = (bases \ {b}) \cup {c}
  BY <1>1
<1> HIDE DEF s, c
<1>6. LibraryTypeOK'
  BY <1>2, <1>4, <1>5 DEF LibraryInv, LibraryTypeOK
<1>7. TablesAgree'
  <2>1. \A t, u \in sources' : t.id = u.id => t = u
    BY <1>2, <1>3, <1>4, <1>5 DEF TablesAgree
  <2>2. ASSUME NEW p \in shares'
        PROVE  \E t \in sources' : t.id = p.source /\ t.origin = "USER"
    <3>1. PICK t \in sources : t.id = p.source /\ t.origin = "USER"
      BY <1>2 DEF TablesAgree, ConvertedStayPrivate
    <3> QED
      BY <1>5, <3>1
  <2>3. \A d \in bases' : d.converted # None =>
          \E t \in sources' : t.id = d.converted /\ t.origin = "SYSTEM" /\ t.owner = d.owner
    BY <1>2, <1>4, <1>5 DEF TablesAgree, ConvertedStayPrivate
  <2>4. \A d \in bases : d.converted # id
    BY <1>2, <1>3 DEF TablesAgree, ConvertedStayPrivate
  <2>5. \A d, g \in bases' : d.converted = g.converted /\ d.converted # None => d = g
    BY <1>2, <1>4, <1>5, <2>4 DEF TablesAgree, ConvertedStayPrivate
  <2>6. \A p \in shares' : \A t \in sources' : t.id = p.source => t.origin = "USER"
    BY <2>1, <2>2
  <2>7. \A d \in bases' : \E t \in sources' : t.id = d.source /\ t.origin = "USER"
    BY <1>2, <1>4, <1>5 DEF TablesAgree, ConvertedStayPrivate
  <2> QED
    BY <2>1, <2>2, <2>3, <2>5, <2>6, <2>7 DEF TablesAgree, ConvertedStayPrivate
<1>8. ASSUME NEW f \in Edits
      PROVE  (Checked(f) /\ CanCommit(f))'
  <2>1. Checked(f) /\ CanCommit(f)
    BY DEF LibraryInv, LibraryInvariant
  <2>2. Checked(f)'
    BY <1>2, <1>3, <1>4, <1>5, <2>1 DEF Checked, MayEdit
  <2>3. CanCommit(f)'
    BY <1>2, <1>3, <1>4, <1>5, <2>1 DEF CanCommit
  <2> QED
    BY <2>2, <2>3
<1> QED
  BY <1>2, <1>6, <1>7, <1>8, TablesChange

\* One step of SharingIsGranted.
ShareGranted ==
    \A p \in shares' \ shares :
        \E e \in Edits :
           /\ edit[e].at = "commit" /\ p.user \in edit[e].names
           /\ \A s \in sources' : s.id = p.source => MayEdit(s, edit[e].by)

LEMMA CommitGrants ==
  ASSUME LibraryInv, NEW e \in Edits, CommitEdit(e)
  PROVE  ShareGranted
<1> DEFINE q == edit[e]
           w == q.flushed
<1>1. /\ q.at = "commit" /\ Checked(e) /\ FlushedAsAsked(e) /\ CanCommit(e)
      /\ sources' = {s \in sources : s.id \notin w.gone} \cup w.sources
      /\ \A p \in shares' \ shares : p \in w.add
  BY DEF CommitEdit, LibraryInv, LibraryInvariant
<1> SUFFICES ASSUME NEW p \in w.add, NEW s \in sources', s.id = p.source
             PROVE  p.user \in q.names /\ MayEdit(s, q.by)
  <2>1. \A p \in w.add : p.user \in q.names
    BY <1>1 DEF FlushedAsAsked
  <2> QED
    BY <1>1, <2>1 DEF ShareGranted
<1>2. p.user \in q.names /\ p.source \in UsedSources(w)
  BY <1>1 DEF FlushedAsAsked, UsedSources
<1>3. CASE s \in w.sources
  BY <1>1, <1>2, <1>3 DEF FlushedAsAsked, MayEdit
<1>4. CASE s \in sources
  <2>1. q.op # "create"
    BY <1>1, <1>2, <1>4 DEF FlushedAsAsked, CanCommit
  <2>2. q.op \in {"update", "base"} /\ s.id = q.source
    BY <1>1, <1>2, <2>1 DEF FlushedAsAsked
  <2> QED
    BY <1>1, <1>2, <1>4, <2>2 DEF Checked
<1> QED
  BY <1>1, <1>3, <1>4

LEMMA LibraryStep ==
  ASSUME LibraryInv, [LibraryNext]_libraryVars
  PROVE  LibraryInv' /\ ShareGranted
<1>1. ASSUME UNCHANGED tables, LibraryInv'
      PROVE  LibraryInv' /\ ShareGranted
  BY <1>1 DEF tables, ShareGranted
<1>2. ASSUME NEW e \in Edits, Quit(e)
      PROVE  LibraryInv' /\ ShareGranted
  BY <1>1, <1>2, QuitPreserves DEF Quit
<1>3. CASE UNCHANGED libraryVars
  <2>1. /\ UNCHANGED tables /\ edit' = edit
    BY <1>3 DEF libraryVars, tables
  <2>2. LibraryTypeOK'
    BY <2>1 DEF tables, LibraryInv, LibraryTypeOK
  <2>3. TablesAgree'
    BY <2>1 DEF tables, LibraryInv, LibraryInvariant, TablesAgree, ConvertedStayPrivate
  <2>4. ASSUME NEW f \in Edits
        PROVE  (Checked(f) /\ CanCommit(f))'
    <3>1. Checked(f) /\ CanCommit(f)
      BY DEF LibraryInv, LibraryInvariant
    <3> QED
      BY <2>1, <3>1 DEF tables, Checked, CanCommit
  <2> QED
    BY <1>1, <2>1, <2>2, <2>3, <2>4, TablesChange
<1>4. ASSUME NEW e \in Edits, NEW op \in EditOps, NEW by \in Persons,
             NEW source \in SourceIds \cup {None}, NEW kb \in BaseIds \cup {None},
             NEW names \in ShareLists \cup {{}},
             Ask(e, op, by, source, kb, names)
      PROVE  LibraryInv' /\ ShareGranted
  <2>1. UNCHANGED tables
    BY <1>4 DEF Ask
  <2> QED
    BY <1>1, <1>4, <2>1, AskPreserves
<1>5. ASSUME NEW e \in Edits, Get(e) \/ GetBase(e) \/ FlushEdit(e)
      PROVE  LibraryInv' /\ ShareGranted
  <2>1. Get(e) => UNCHANGED tables
    BY DEF Get, Quit
  <2>2. GetBase(e) => UNCHANGED tables
    BY DEF GetBase, Quit
  <2>3. FlushEdit(e) => UNCHANGED tables
    BY DEF FlushEdit, Quit
  <2> QED
    BY <1>1, <1>5, <2>1, <2>2, <2>3, GetPreserves, GetBasePreserves, FlushEditPreserves
<1>6. ASSUME NEW e \in Edits, RenameFails(e) \/ AbortEdit(e)
      PROVE  LibraryInv' /\ ShareGranted
  BY <1>2, <1>6 DEF RenameFails, AbortEdit
<1>7. ASSUME NEW e \in Edits, CommitEdit(e)
      PROVE  LibraryInv' /\ ShareGranted
  BY <1>7, CommitEditPreserves, CommitGrants
<1>8. ASSUME NEW b \in bases, Convert(b)
      PROVE  LibraryInv' /\ ShareGranted
  <2>1. shares' = shares
    BY <1>8 DEF Convert
  <2> QED
    BY <1>8, <2>1, ConvertPreserves DEF ShareGranted
<1> QED
  BY <1>3, <1>4, <1>5, <1>6, <1>7, <1>8 DEF LibraryNext

\* Tables and requests keep their types, and what a request has checked holds
\* until it commits, for any numbers of sources, users and requests.
THEOREM LibraryInvariantHolds == LibrarySpec => [](LibraryTypeOK /\ LibraryInvariant)
<1>1. LibraryInit => LibraryInv
  <2> SUFFICES ASSUME LibraryInit PROVE LibraryInv
    OBVIOUS
  <2>1. \A e \in Edits : edit[e] = FreeEdit
    BY DEF LibraryInit
  <2>2. LibraryTypeOK
    BY EmptyRecords DEF LibraryInit, LibraryTypeOK
  <2>3. TablesAgree
    BY DEF LibraryInit, TablesAgree, ConvertedStayPrivate
  <2>4. \A e \in Edits : Checked(e) /\ FlushedAsAsked(e) /\ CanCommit(e)
    BY <2>1, EmptyRecords DEF Checked, FlushedAsAsked, CanCommit
  <2>5. \A e, f \in Edits : Apart(e, f)
    BY <2>1, EmptyRecords DEF Apart
  <2> QED
    BY <2>2, <2>3, <2>4, <2>5 DEF LibraryInv, LibraryInvariant
<1>2. LibraryInv /\ [LibraryNext]_libraryVars => LibraryInv'
  BY LibraryStep
<1> QED
  BY <1>1, <1>2, PTL DEF LibrarySpec, LibraryInv

\* Sources that conversions make are never shared and never converted again, and
\* a knowledge base never loses the one it has, whatever overlaps with its deletion.
THEOREM ConvertedArePrivate == LibrarySpec => []ConvertedStayPrivate
BY LibraryInvariantHolds, PTL DEF LibraryInvariant, TablesAgree

\* Nobody comes to see a source but through a request of somebody who may edit it.
THEOREM SharesAreGranted == LibrarySpec => SharingIsGranted
<1>1. LibraryInv /\ [LibraryNext]_libraryVars => [ShareGranted]_libraryVars
  BY LibraryStep
<1>2. LibrarySpec => []LibraryInv
  BY LibraryInvariantHolds, PTL DEF LibraryInv
<1> QED
  BY <1>1, <1>2, PTL DEF LibrarySpec, SharingIsGranted, ShareGranted

-----------------------------------------------------------------------------
(* The pages of a knowledge base *)

Polls == {"none", "timer", "sent", "answered"}
Fragments == [shown : Shown, poll : Polls, polled : Shown,
              start : {"none", "sent", "answered"}, started : Shown, attached : BOOLEAN]

LEMMA TaskNumbers ==
  /\ 0..MaxTasks = Tasks \cup {NoTask} /\ NoTask \notin Tasks /\ NoTask = 0
  /\ \A k \in Tasks : k \in Nat /\ k > NoTask
BY PagesAssumption DEF Tasks, NoTask

LEMMA ViewTypes ==
  ASSUME PagesTypeOK, NEW s \in Stages
  PROVE  /\ TaskView(s) \in Shown /\ TaskView(s).task = base.task[s]
         /\ NoStatus \in Shown /\ NoStatus.task = NoTask /\ NoStatus.status = "none"
<1>0. NoStatus \in Shown /\ NoStatus.task = NoTask /\ NoStatus.status = "none"
  BY PagesAssumption DEF NoStatus, Shown, NoTask
<1>1. base.task[s] \in 0..MaxTasks
  BY DEF PagesTypeOK
<1>2. CASE base.task[s] = NoTask
  BY <1>0, <1>2 DEF TaskView
<1>3. CASE base.task[s] # NoTask
  <2>1. progress[base.task[s]] \in {"none", "staged"} \cup Active \cup {"SUCCESS", "FAILED"}
    BY <1>1, <1>3, TaskNumbers DEF PagesTypeOK
  <2>2. StatusOf(base.task[s]) \in Active \cup {"SUCCESS", "FAILED", "none"}
    BY <2>1 DEF StatusOf, Active
  <2>3. TaskView(s) = [task |-> base.task[s], status |-> StatusOf(base.task[s])]
    BY <1>3 DEF TaskView
  <2> QED
    BY <1>0, <1>1, <2>2, <2>3 DEF Shown
<1> QED
  BY <1>2, <1>3

LEMMA RenderedIs ==
  ASSUME NEW f \in Fragments, NEW view \in Shown
  PROVE  /\ Rendered(f, view) \in Fragments
         /\ Rendered(f, view).shown = view /\ Rendered(f, view).attached = FALSE
         /\ Rendered(f, view).poll = IF view.status \in Active THEN "timer" ELSE "none"
         /\ Rendered(f, view).start = f.start /\ Rendered(f, view).started = f.started
<1>1. NoStatus \in Shown
  BY PagesAssumption DEF NoStatus, Shown, NoTask
<1> QED
  BY <1>1 DEF Rendered, Fragments, Polls

\* The answer to a click, whether or not it still has an element to replace.
AfterStart(f) ==
  LET g == [f EXCEPT !.start = "none", !.started = NoStatus] IN
  IF g.attached THEN Rendered(g, f.started) ELSE g

LEMMA AfterStartIs ==
  ASSUME NEW f \in Fragments
  PROVE  /\ AfterStart(f) \in Fragments /\ AfterStart(f).start = "none"
         /\ f.attached => /\ AfterStart(f).shown = f.started
                          /\ AfterStart(f).poll = IF f.started.status \in Active THEN "timer" ELSE "none"
         /\ ~f.attached => /\ AfterStart(f).shown = f.shown /\ AfterStart(f).poll = f.poll
                           /\ AfterStart(f).polled = f.polled
<1> DEFINE g == [f EXCEPT !.start = "none", !.started = NoStatus]
<1>1. NoStatus \in Shown
  BY PagesAssumption DEF NoStatus, Shown, NoTask
<1>2. /\ g \in Fragments /\ g.start = "none" /\ g.attached = f.attached /\ g.shown = f.shown
      /\ g.poll = f.poll /\ g.polled = f.polled
  BY <1>1 DEF Fragments
<1>3. AfterStart(f) = IF g.attached THEN Rendered(g, f.started) ELSE g
  BY DEF AfterStart
<1>4. f.started \in Shown /\ f.attached \in BOOLEAN
  BY DEF Fragments
<1> HIDE DEF g
<1>5. CASE f.attached
  <2>1. AfterStart(f) = Rendered(g, f.started)
    BY <1>2, <1>3, <1>5
  <2>2. /\ Rendered(g, f.started) \in Fragments
        /\ Rendered(g, f.started).shown = f.started
        /\ Rendered(g, f.started).poll = IF f.started.status \in Active THEN "timer" ELSE "none"
        /\ Rendered(g, f.started).start = g.start
    BY <1>2, <1>4, RenderedIs
  <2> QED
    BY <1>2, <1>5, <2>1, <2>2
<1>6. CASE ~f.attached
  BY <1>2, <1>3, <1>6
<1> QED
  BY <1>5, <1>6

\* One fragment of one page becomes another.
LEMMA FragmentPlaced ==
  ASSUME PagesTypeOK, NEW b \in Tabs, NEW s \in Stages, NEW r \in Fragments,
         fragment' = [fragment EXCEPT ![b][s] = r]
  PROVE  /\ fragment' \in [Tabs -> [Stages -> Fragments]]
         /\ fragment'[b][s] = r
         /\ \A c \in Tabs, t \in Stages : c # b \/ t # s => fragment'[c][t] = fragment[c][t]
BY DEF PagesTypeOK, Fragments, Polls

LEMMA FragmentTypes ==
  ASSUME PagesTypeOK
  PROVE  \A b \in Tabs, s \in Stages : fragment[b][s] \in Fragments
BY DEF PagesTypeOK, Fragments, Polls

FileViews == [at : {"none", "row", "files", "index", "blobs", "open"},
              converted : BOOLEAN, files : 0..MaxTasks, wanted : 0..MaxTasks, index : 0..MaxTasks]

ServerTypeOK ==
    /\ base \in [exists : BOOLEAN, files : 0..MaxTasks, index : 0..MaxTasks,
                 task : [Stages -> 0..MaxTasks]]
    /\ progress \in [Tasks -> {"none", "staged"} \cup Active \cup {"SUCCESS", "FAILED"}]
    /\ stageOf \in [Tasks -> Stages] /\ builtFrom \in [Tasks -> 0..MaxTasks]
    /\ stored \subseteq Tasks

LEMMA TypesOf ==
  PagesTypeOK <=> /\ ServerTypeOK /\ fragment \in [Tabs -> [Stages -> Fragments]]
                  /\ indexButton \subseteq Tabs /\ filePage \in [Viewings -> FileViews]
BY DEF PagesTypeOK, ServerTypeOK, Fragments, Polls, FileViews

LEMMA StartTaskTypes ==
  ASSUME ServerTypeOK, NEW k \in Tasks, NEW s \in Stages, StartTask(k, s),
         builtFrom' = builtFrom, stored' = stored
  PROVE  ServerTypeOK'
<1>1. base' = [base EXCEPT !.task = [base.task EXCEPT ![s] = k]]
  BY DEF StartTask
<1>2. [base.task EXCEPT ![s] = k] \in [Stages -> 0..MaxTasks]
  BY TaskNumbers DEF ServerTypeOK
<1>3. base' \in [exists : BOOLEAN, files : 0..MaxTasks, index : 0..MaxTasks,
                 task : [Stages -> 0..MaxTasks]]
  BY <1>1, <1>2 DEF ServerTypeOK
<1>4. progress' \in [Tasks -> {"none", "staged"} \cup Active \cup {"SUCCESS", "FAILED"}]
  BY DEF StartTask, ServerTypeOK, Active
<1> QED
  BY <1>3, <1>4 DEF StartTask, ServerTypeOK

LEMMA CommitTaskBase ==
  ASSUME ServerTypeOK, NEW k \in Tasks, CommitTask(k)
  PROVE  /\ base' \in [exists : BOOLEAN, files : 0..MaxTasks, index : 0..MaxTasks,
                       task : [Stages -> 0..MaxTasks]]
         /\ base'.exists = base.exists
         /\ base'.files = IF stageOf[k] = "conversion" THEN k ELSE base.files
         /\ base'.index = IF stageOf[k] = "conversion" THEN NoTask ELSE k
         /\ \A s \in Stages : base'.task[s] =
               IF stageOf[k] = "conversion" /\ s = "indexing" THEN NoTask ELSE base.task[s]
<1>1. CASE stageOf[k] = "conversion"
  <2> DEFINE t == [base.task EXCEPT !["indexing"] = NoTask]
  <2>1. base' = [base EXCEPT !.files = k, !.index = NoTask, !.task = t]
    BY <1>1 DEF CommitTask, ServerTypeOK
  <2>2. t \in [Stages -> 0..MaxTasks]
        /\ \A s \in Stages : t[s] = IF s = "indexing" THEN NoTask ELSE base.task[s]
    BY TaskNumbers DEF ServerTypeOK, Stages
  <2> HIDE DEF t
  <2> QED
    BY <1>1, <2>1, <2>2, TaskNumbers DEF ServerTypeOK
<1>2. CASE stageOf[k] # "conversion"
  BY <1>2, TaskNumbers DEF CommitTask, ServerTypeOK
<1> QED
  BY <1>1, <1>2

LEMMA ServerTypeStep ==
  ASSUME ServerTypeOK, PagesNext
  PROVE  ServerTypeOK'
<1>1. ASSUME NEW k \in Tasks, BeginTask(k)
      PROVE  ServerTypeOK'
  BY <1>1 DEF BeginTask, ServerTypeOK, Active
<1>2. ASSUME NEW k \in Tasks, StageTask(k)
      PROVE  ServerTypeOK'
  BY <1>2 DEF StageTask, ServerTypeOK, Active
<1>3. ASSUME NEW k \in Tasks, CommitTask(k)
      PROVE  ServerTypeOK'
  <2>1. progress' \in [Tasks -> {"none", "staged"} \cup Active \cup {"SUCCESS", "FAILED"}]
    BY <1>3 DEF CommitTask, ServerTypeOK, Active
  <2> QED
    BY <1>3, <2>1, CommitTaskBase DEF CommitTask, ServerTypeOK
<1>4. ASSUME NEW k \in Tasks, FailTask(k)
      PROVE  ServerTypeOK'
  BY <1>4 DEF FailTask, ServerTypeOK, Active
<1>5. CASE DeleteBase
  BY <1>5, TaskNumbers DEF DeleteBase, ServerTypeOK
<1>6. ASSUME NEW s \in Stages, StartElsewhere(s)
      PROVE  ServerTypeOK'
  BY <1>6, StartTaskTypes DEF StartElsewhere
<1>7. ASSUME NEW b \in Tabs, NEW s \in Stages, HandleStart(b, s)
      PROVE  ServerTypeOK'
  <2>1. CASE Startable(s)
    BY <1>7, <2>1, StartTaskTypes DEF HandleStart
  <2>2. CASE ~Startable(s)
    BY <1>7, <2>2 DEF HandleStart, ServerTypeOK
  <2> QED
    BY <2>1, <2>2
<1>8. CASE UNCHANGED serverVars
  BY <1>8 DEF serverVars, ServerTypeOK
<1> QED
  BY <1>1, <1>2, <1>3, <1>4, <1>5, <1>6, <1>7, <1>8
     DEF PagesNext, OpenDetail, Click, ShowStart, SendPoll, HandlePoll, ShowPoll,
         OpenFilePage, LoadFiles, LoadIndex, ReadDocuments, ReadChunks

\* What the handlers of one fragment make of it, as one placement.
LEMMA FragmentStep ==
  ASSUME PagesTypeOK, PagesNext
  PROVE  \/ \E b \in Tabs : OpenDetail(b)
         \/ \E b \in Tabs, s \in Stages :
               \/ Click(b, s) \/ HandleStart(b, s) \/ ShowStart(b, s)
               \/ SendPoll(b, s) \/ HandlePoll(b, s) \/ ShowPoll(b, s)
         \/ fragment' = fragment
BY DEF PagesNext, BeginTask, StageTask, CommitTask, FailTask, DeleteBase, StartElsewhere,
       OpenFilePage, LoadFiles, LoadIndex, ReadDocuments, ReadChunks

LEMMA OpenDetailFragments ==
  ASSUME PagesTypeOK, NEW b \in Tabs, OpenDetail(b)
  PROVE  /\ fragment' \in [Tabs -> [Stages -> Fragments]]
         /\ \A s \in Stages : fragment'[b][s] = Rendered(fragment[b][s], TaskView(s))
         /\ \A c \in Tabs \ {b} : fragment'[c] = fragment[c]
<1> DEFINE anew == [s \in Stages |-> Rendered(fragment[b][s], TaskView(s))]
<1>1. fragment' = [fragment EXCEPT ![b] = anew]
  BY DEF OpenDetail
<1>2. anew \in [Stages -> Fragments]
  BY FragmentTypes, ViewTypes, RenderedIs
<1>3. \A s \in Stages : anew[s] = Rendered(fragment[b][s], TaskView(s))
  OBVIOUS
<1> HIDE DEF anew
<1> QED
  BY <1>1, <1>2, <1>3, TypesOf

LEMMA ShowStartFragment ==
  ASSUME PagesTypeOK, NEW b \in Tabs, NEW s \in Stages, ShowStart(b, s)
  PROVE  fragment' = [fragment EXCEPT ![b][s] = AfterStart(fragment[b][s])]
BY DEF ShowStart, AfterStart

\* An answer to a click is what the row says at that moment.
Clicked(f) == [f EXCEPT !.start = "sent", !.attached = TRUE]
Refused(f) == [f EXCEPT !.start = "none", !.attached = FALSE]
Answered(f, k) == [f EXCEPT !.start = "answered", !.started = [task |-> k, status |-> "WAITING"]]
Polled(f, s) == IF base.task[s] = NoTask THEN [f EXCEPT !.poll = "none"]
                ELSE [f EXCEPT !.poll = "answered", !.polled = TaskView(s)]

LEMMA HandlerFragments ==
  ASSUME PagesTypeOK, NEW f \in Fragments, NEW s \in Stages
  PROVE  /\ Clicked(f) \in Fragments /\ Refused(f) \in Fragments
         /\ Polled(f, s) \in Fragments /\ [f EXCEPT !.poll = "sent"] \in Fragments
         /\ Rendered(f, f.polled) \in Fragments
<1>1. Clicked(f) \in Fragments /\ Refused(f) \in Fragments
  BY DEF Clicked, Refused, Fragments
<1>2. Polled(f, s) \in Fragments
  BY ViewTypes DEF Polled, Fragments, Polls
<1>3. [f EXCEPT !.poll = "sent"] \in Fragments
  BY DEF Fragments, Polls
<1>4. f.polled \in Shown
  BY DEF Fragments
<1> QED
  BY <1>1, <1>2, <1>3, <1>4, RenderedIs

LEMMA AnsweredIs ==
  ASSUME NEW f \in Fragments, NEW k \in Tasks
  PROVE  Answered(f, k) \in Fragments
<1>1. [task |-> k, status |-> "WAITING"] \in Shown
  BY TaskNumbers DEF Shown, Active
<1> QED
  BY <1>1 DEF Answered, Fragments

\* Every handler places one fragment.
LEMMA Placements ==
  ASSUME PagesTypeOK, NEW b \in Tabs, NEW s \in Stages
  PROVE  /\ Click(b, s) => fragment' = [fragment EXCEPT ![b][s] = Clicked(fragment[b][s])]
         /\ HandleStart(b, s) /\ ~Startable(s) =>
               fragment' = [fragment EXCEPT ![b][s] = Refused(fragment[b][s])]
         /\ HandleStart(b, s) /\ Startable(s) =>
               \E k \in Tasks : /\ StartTask(k, s)
                                /\ fragment' = [fragment EXCEPT ![b][s] = Answered(fragment[b][s], k)]
         /\ ShowStart(b, s) => fragment' = [fragment EXCEPT ![b][s] = AfterStart(fragment[b][s])]
         /\ SendPoll(b, s) =>
               fragment' = [fragment EXCEPT ![b][s] = [fragment[b][s] EXCEPT !.poll = "sent"]]
         /\ HandlePoll(b, s) => fragment' = [fragment EXCEPT ![b][s] = Polled(fragment[b][s], s)]
         /\ ShowPoll(b, s) =>
               fragment' = [fragment EXCEPT ![b][s] = Rendered(fragment[b][s], fragment[b][s].polled)]
<1>0. /\ fragment \in [Tabs -> [Stages -> Fragments]]
  BY TypesOf
<1>1. ASSUME Click(b, s)
      PROVE  fragment' = [fragment EXCEPT ![b][s] = Clicked(fragment[b][s])]
  BY <1>0, <1>1 DEF Click, Clicked, Fragments
<1>2. ASSUME HandleStart(b, s), ~Startable(s)
      PROVE  fragment' = [fragment EXCEPT ![b][s] = Refused(fragment[b][s])]
  BY <1>0, <1>2 DEF HandleStart, Refused, Fragments
<1>3. ASSUME HandleStart(b, s), Startable(s)
      PROVE  \E k \in Tasks :
               /\ StartTask(k, s)
               /\ fragment' = [fragment EXCEPT ![b][s] = Answered(fragment[b][s], k)]
  <2>1. PICK k \in Tasks :
              /\ StartTask(k, s)
              /\ fragment' = [fragment EXCEPT ![b][s].start = "answered",
                                 ![b][s].started = [task |-> k, status |-> "WAITING"]]
    BY <1>3 DEF HandleStart
  <2>2. fragment' = [fragment EXCEPT ![b][s] = Answered(fragment[b][s], k)]
    BY <1>0, <2>1 DEF Answered, Fragments
  <2> QED
    BY <2>1, <2>2
<1>4. ASSUME SendPoll(b, s)
      PROVE  fragment' = [fragment EXCEPT ![b][s] = [fragment[b][s] EXCEPT !.poll = "sent"]]
  BY <1>0, <1>4 DEF SendPoll, Fragments
<1>5. ASSUME HandlePoll(b, s)
      PROVE  fragment' = [fragment EXCEPT ![b][s] = Polled(fragment[b][s], s)]
  BY <1>5 DEF HandlePoll, Polled
<1>6. ASSUME ShowPoll(b, s)
      PROVE  fragment' = [fragment EXCEPT ![b][s] = Rendered(fragment[b][s], fragment[b][s].polled)]
  BY <1>6 DEF ShowPoll
<1> QED
  BY <1>1, <1>2, <1>3, <1>4, <1>5, <1>6, ShowStartFragment

\* So every handler of a fragment leaves the others alone.
LEMMA OnePlacement ==
  ASSUME PagesTypeOK, NEW b \in Tabs, NEW s \in Stages,
         \/ Click(b, s) \/ HandleStart(b, s) \/ ShowStart(b, s)
         \/ SendPoll(b, s) \/ HandlePoll(b, s) \/ ShowPoll(b, s)
  PROVE  \E r \in Fragments : fragment' = [fragment EXCEPT ![b][s] = r]
<1>1. fragment[b][s] \in Fragments
  BY FragmentTypes
<1>2. /\ Clicked(fragment[b][s]) \in Fragments /\ Refused(fragment[b][s]) \in Fragments
      /\ Polled(fragment[b][s], s) \in Fragments
      /\ [fragment[b][s] EXCEPT !.poll = "sent"] \in Fragments
      /\ Rendered(fragment[b][s], fragment[b][s].polled) \in Fragments
      /\ AfterStart(fragment[b][s]) \in Fragments
  BY <1>1, HandlerFragments, AfterStartIs
<1>3. \A k \in Tasks : Answered(fragment[b][s], k) \in Fragments
  BY <1>1, AnsweredIs
<1>4. CASE Click(b, s)
  BY <1>2, <1>4, Placements
<1>5. CASE HandleStart(b, s)
  BY <1>2, <1>3, <1>5, Placements
<1>6. CASE ShowStart(b, s)
  BY <1>2, <1>6, Placements
<1>7. CASE SendPoll(b, s)
  BY <1>2, <1>7, Placements
<1>8. CASE HandlePoll(b, s)
  BY <1>2, <1>8, Placements
<1>9. CASE ShowPoll(b, s)
  BY <1>2, <1>9, Placements
<1> QED
  BY <1>4, <1>5, <1>6, <1>7, <1>8, <1>9

LEMMA FragmentTypeStep ==
  ASSUME PagesTypeOK, PagesNext
  PROVE  fragment' \in [Tabs -> [Stages -> Fragments]] /\ indexButton' \subseteq Tabs
<1>1. indexButton' \subseteq Tabs
  <2>1. indexButton' = indexButton \/ \E b \in Tabs : OpenDetail(b)
    BY DEF PagesNext, BeginTask, StageTask, CommitTask, FailTask, DeleteBase, StartElsewhere,
           OpenFilePage, LoadFiles, LoadIndex, ReadDocuments, ReadChunks,
           Click, HandleStart, ShowStart, SendPoll, HandlePoll, ShowPoll
  <2> QED
    BY <2>1 DEF OpenDetail, PagesTypeOK
<1>2. ASSUME NEW b \in Tabs, OpenDetail(b)
      PROVE  fragment' \in [Tabs -> [Stages -> Fragments]]
  BY <1>2, OpenDetailFragments
<1>3. ASSUME NEW b \in Tabs, NEW s \in Stages,
             \/ Click(b, s) \/ HandleStart(b, s) \/ ShowStart(b, s)
             \/ SendPoll(b, s) \/ HandlePoll(b, s) \/ ShowPoll(b, s)
      PROVE  fragment' \in [Tabs -> [Stages -> Fragments]]
  <2>1. \E r \in Fragments : fragment' = [fragment EXCEPT ![b][s] = r]
    BY <1>3, OnePlacement
  <2> QED
    BY <2>1, FragmentPlaced
<1> QED
  BY <1>1, <1>2, <1>3, FragmentStep, TypesOf

LEMMA FilePageStep ==
  ASSUME PagesTypeOK, PagesNext
  PROVE  \/ filePage' = filePage
         \/ \E b \in Viewings, v \in FileViews :
               /\ filePage' = [filePage EXCEPT ![b] = v]
               /\ UNCHANGED serverVars
<1>0. /\ filePage \in [Viewings -> FileViews] /\ ServerTypeOK
  BY TypesOf
<1>1. NoFilePage \in FileViews
  BY TaskNumbers DEF NoFilePage, FileViews
<1>2. ASSUME NEW b \in Viewings, OpenFilePage(b) \/ LoadFiles(b) \/ LoadIndex(b)
      PROVE  \E v \in FileViews : filePage' = [filePage EXCEPT ![b] = v]
  <2>1. CASE OpenFilePage(b)
    BY <1>0, <1>1, <2>1 DEF OpenFilePage, FileViews, ServerTypeOK
  <2>2. CASE LoadFiles(b)
    <3> DEFINE v == [filePage[b] EXCEPT !.at = "files",
                        !.files = IF filePage[b].converted THEN base.files ELSE NoTask]
    <3>1. v \in FileViews
      <4>1. filePage[b] \in FileViews /\ base.files \in 0..MaxTasks /\ base.index \in 0..MaxTasks
            /\ NoTask \in 0..MaxTasks
        BY <1>0, TaskNumbers DEF ServerTypeOK
      <4> QED
        BY <4>1 DEF FileViews
    <3>2. filePage' = [filePage EXCEPT ![b] = v]
      BY <1>0, <2>2 DEF LoadFiles, FileViews
    <3> QED
      BY <3>1, <3>2
  <2>3. CASE LoadIndex(b)
    <3> DEFINE v == [filePage[b] EXCEPT !.at = "index",
                        !.index = IF base.index = filePage[b].wanted THEN base.index ELSE NoTask]
    <3>1. v \in FileViews
      <4>1. filePage[b] \in FileViews /\ base.files \in 0..MaxTasks /\ base.index \in 0..MaxTasks
            /\ NoTask \in 0..MaxTasks
        BY <1>0, TaskNumbers DEF ServerTypeOK
      <4> QED
        BY <4>1 DEF FileViews
    <3>2. filePage' = [filePage EXCEPT ![b] = v]
      BY <1>0, <2>3 DEF LoadIndex, FileViews
    <3> QED
      BY <3>1, <3>2
  <2> QED
    BY <1>2, <2>1, <2>2, <2>3
<1>3. ASSUME NEW b \in Viewings, ReadDocuments(b)
      PROVE  \E v \in FileViews : filePage' = [filePage EXCEPT ![b] = v]
  BY <1>0, <1>1, <1>3 DEF ReadDocuments, ReadIfStored, FileViews
<1>4. ASSUME NEW b \in Viewings, ReadChunks(b)
      PROVE  \E v \in FileViews : filePage' = [filePage EXCEPT ![b] = v]
  <2>1. CASE filePage[b].files = NoTask \/ filePage[b].wanted = NoTask
    <3> DEFINE v == [filePage[b] EXCEPT !.at = "open", !.index = NoTask]
    <3>1. v \in FileViews
      BY <1>0, TaskNumbers DEF FileViews
    <3>2. filePage' = [filePage EXCEPT ![b] = v]
      BY <1>0, <1>4, <2>1 DEF ReadChunks, FileViews
    <3> QED
      BY <3>1, <3>2
  <2>2. CASE ~(filePage[b].files = NoTask \/ filePage[b].wanted = NoTask)
    BY <1>0, <1>1, <1>4, <2>2 DEF ReadChunks, ReadIfStored, FileViews
  <2> QED
    BY <2>1, <2>2
<1> QED
  BY <1>2, <1>3, <1>4
     DEF PagesNext, BeginTask, StageTask, CommitTask, FailTask, DeleteBase, StartElsewhere,
         OpenDetail, Click, HandleStart, ShowStart, SendPoll, HandlePoll, ShowPoll,
         OpenFilePage, LoadFiles, LoadIndex, ReadDocuments, ReadChunks

LEMMA PagesTypeStep ==
  ASSUME PagesTypeOK, [PagesNext]_pagesVars
  PROVE  PagesTypeOK'
<1>1. CASE PagesNext
  <2>1. filePage' \in [Viewings -> FileViews]
    BY <1>1, FilePageStep, TypesOf
  <2>2. ServerTypeOK'
    BY <1>1, ServerTypeStep, TypesOf
  <2>3. fragment' \in [Tabs -> [Stages -> Fragments]] /\ indexButton' \subseteq Tabs
    BY <1>1, FragmentTypeStep
  <2>4. PagesTypeOK' <=> /\ ServerTypeOK' /\ fragment' \in [Tabs -> [Stages -> Fragments]]
                         /\ indexButton' \subseteq Tabs /\ filePage' \in [Viewings -> FileViews]
    BY DEF PagesTypeOK, ServerTypeOK, Fragments, Polls, FileViews
  <2> QED
    BY <2>1, <2>2, <2>3, <2>4
<1>2. CASE UNCHANGED pagesVars
  BY <1>2 DEF pagesVars, serverVars, PagesTypeOK
<1> QED
  BY <1>1, <1>2

-----------------------------------------------------------------------------
(* What a fragment shows is not later than the row *)

LEMMA Ranks ==
  \A view : /\ Rank(view) \in 0..3
            /\ view.status = "WAITING" => Rank(view) = 1
            /\ view.status = "IN_PROGRESS" => Rank(view) = 2
            /\ view.status \in {"SUCCESS", "FAILED"} => Rank(view) = 3
BY DEF Rank

\* An operation that is started is later than all that were.
LEMMA StartsLast ==
  ASSUME PagesTypeOK, StartedInOrder, NEW k \in Tasks, NEW s \in Stages, StartTask(k, s)
  PROVE  /\ \A j \in 0..MaxTasks : Known(j) => j < k
         /\ StartedInOrder'
<1>0. /\ \A j \in Tasks : progress'[j] = IF j = k THEN "WAITING" ELSE progress[j]
      /\ \A j \in Tasks : j < k => progress[j] # "none"
      /\ progress[k] = "none"
  BY TaskNumbers DEF StartTask, PagesTypeOK, Tasks
<1>1. \A j \in Tasks : progress[j] # "none" => j < k
  BY <1>0, TaskNumbers DEF StartedInOrder
<1>2. \A j \in 0..MaxTasks : Known(j) => j < k
  BY <1>1, TaskNumbers DEF Known
<1>3. StartedInOrder'
  <2> SUFFICES ASSUME NEW i \in Tasks, NEW j \in Tasks, i < j, progress'[j] # "none"
               PROVE  progress'[i] # "none"
    BY DEF StartedInOrder
  <2>1. CASE j = k
    BY <1>0, <2>1, TaskNumbers
  <2>2. CASE j # k
    BY <1>0, <2>2 DEF StartedInOrder
  <2> QED
    BY <2>1, <2>2
<1> QED
  BY <1>2, <1>3

\* What becomes of the operation that the row names: nothing, a later status, or
\* an operation that was never started before.
RowMoves ==
    /\ \A k \in Tasks : progress[k] # "none" => progress'[k] # "none"
    /\ \A s \in Stages :
          \/ base'.task[s] = NoTask
          \/ base'.task[s] = base.task[s] /\ Rank(TaskView(s)) <= Rank(TaskView(s)')
          \/ \A j \in 0..MaxTasks : Known(j) => j < base'.task[s]

LEMMA TaskKeeps ==
  ASSUME PagesTypeOK, NEW s \in Stages, base'.task[s] = base.task[s],
         \A k \in Tasks : progress'[k] = progress[k] \/
            \/ progress[k] = "WAITING" /\ progress'[k] = "IN_PROGRESS"
            \/ progress[k] = "IN_PROGRESS" /\ progress'[k] \in {"staged", "FAILED"}
            \/ progress[k] = "staged" /\ progress'[k] = "SUCCESS"
  PROVE  base'.task[s] = NoTask \/ Rank(TaskView(s)) <= Rank(TaskView(s)')
<1> SUFFICES ASSUME base.task[s] # NoTask
             PROVE  Rank(TaskView(s)) <= Rank(TaskView(s)')
  OBVIOUS
<1> DEFINE k == base.task[s]
<1>1. k \in Tasks
  BY TaskNumbers DEF PagesTypeOK
<1>2. TaskView(s).status = StatusOf(k) /\ TaskView(s)'.status = StatusOf(k)'
  BY DEF TaskView
<1>3. StatusOf(k) = (IF progress[k] = "staged" THEN "IN_PROGRESS" ELSE progress[k])
      /\ StatusOf(k)' = (IF progress'[k] = "staged" THEN "IN_PROGRESS" ELSE progress'[k])
  BY DEF StatusOf
<1> HIDE DEF k
<1>4. CASE progress'[k] = progress[k]
  BY <1>2, <1>3, <1>4 DEF Rank
<1>5. CASE progress'[k] # progress[k]
  BY <1>1, <1>2, <1>3, <1>5, Ranks
<1> QED
  BY <1>4, <1>5

LEMMA RowMovesOn ==
  ASSUME PagesTypeOK, StartedInOrder, PagesNext
  PROVE  RowMoves /\ StartedInOrder'
<1>0. ASSUME UNCHANGED <<base, progress>>
      PROVE  RowMoves /\ StartedInOrder'
  <2>1. \A s \in Stages : base'.task[s] = NoTask \/ Rank(TaskView(s)) <= Rank(TaskView(s)')
    BY <1>0, TaskKeeps
  <2> QED
    BY <1>0, <2>1 DEF RowMoves, StartedInOrder
<1>1. ASSUME NEW k \in Tasks, BeginTask(k) \/ StageTask(k) \/ CommitTask(k) \/ FailTask(k)
      PROVE  RowMoves /\ StartedInOrder'
  <2>1. /\ \A j \in Tasks : progress'[j] = progress[j] \/
              \/ progress[j] = "WAITING" /\ progress'[j] = "IN_PROGRESS"
              \/ progress[j] = "IN_PROGRESS" /\ progress'[j] \in {"staged", "FAILED"}
              \/ progress[j] = "staged" /\ progress'[j] = "SUCCESS"
    BY <1>1 DEF BeginTask, StageTask, CommitTask, FailTask, PagesTypeOK
  <2>2. \A s \in Stages : base'.task[s] \in {NoTask, base.task[s]}
    BY <1>1, CommitTaskBase, TypesOf DEF BeginTask, StageTask, FailTask
  <2>3. \A j \in Tasks : progress'[j] = "none" <=> progress[j] = "none"
    BY <2>1
  <2>4. StartedInOrder'
    BY <2>3 DEF StartedInOrder
  <2>5. \A s \in Stages : \/ base'.task[s] = NoTask
                          \/ base'.task[s] = base.task[s] /\ Rank(TaskView(s)) <= Rank(TaskView(s)')
    BY <2>1, <2>2, TaskKeeps
  <2> QED
    BY <2>3, <2>4, <2>5 DEF RowMoves
<1>2. CASE DeleteBase
  BY <1>2 DEF DeleteBase, RowMoves, StartedInOrder, PagesTypeOK
<1>3. ASSUME NEW k \in Tasks, NEW s \in Stages, StartTask(k, s)
      PROVE  RowMoves /\ StartedInOrder'
  <2>0. /\ \A j \in 0..MaxTasks : Known(j) => j < k
        /\ StartedInOrder'
    BY <1>3, StartsLast
  <2>1. /\ \A j \in Tasks : progress'[j] = IF j = k THEN "WAITING" ELSE progress[j]
        /\ \A t \in Stages : base'.task[t] = IF t = s THEN k ELSE base.task[t]
        /\ progress[k] = "none"
    BY <1>3 DEF StartTask, PagesTypeOK
  <2>2. ASSUME NEW t \in Stages, base'.task[t] # NoTask, t # s
        PROVE  \/ base'.task[t] = base.task[t] /\ Rank(TaskView(t)) <= Rank(TaskView(t)')
               \/ \A j \in 0..MaxTasks : Known(j) => j < base'.task[t]
    <3> DEFINE j == base.task[t]
    <3>1. j \in Tasks /\ base'.task[t] = j
      BY <2>1, <2>2, TaskNumbers DEF PagesTypeOK
    <3>2. CASE j = k
      BY <2>0, <3>1, <3>2
    <3>3. CASE j # k
      <4>1. progress'[j] = progress[j]
        BY <2>1, <3>1, <3>3
      <4>2. TaskView(t)' = TaskView(t)
        BY <2>2, <3>1, <4>1 DEF TaskView, StatusOf
      <4> QED
        BY <3>1, <4>2, Ranks
    <3> QED
      BY <3>2, <3>3
  <2>3. \A j \in Tasks : progress[j] # "none" => progress'[j] # "none"
    BY <2>1
  <2> QED
    BY <2>0, <2>1, <2>2, <2>3 DEF RowMoves
<1>4. ASSUME NEW s \in Stages, StartElsewhere(s)
      PROVE  RowMoves /\ StartedInOrder'
  BY <1>3, <1>4 DEF StartElsewhere
<1>5. ASSUME NEW b \in Tabs, NEW s \in Stages, HandleStart(b, s)
      PROVE  RowMoves /\ StartedInOrder'
  <2>1. CASE Startable(s)
    BY <1>3, <1>5, <2>1 DEF HandleStart
  <2>2. CASE ~Startable(s)
    BY <1>0, <1>5, <2>2 DEF HandleStart
  <2> QED
    BY <2>1, <2>2
<1>6. CASE UNCHANGED serverVars
  BY <1>0, <1>6 DEF serverVars
<1> QED
  BY <1>1, <1>2, <1>4, <1>5, <1>6
     DEF PagesNext, OpenDetail, Click, ShowStart, SendPoll, HandlePoll, ShowPoll,
         OpenFilePage, LoadFiles, LoadIndex, ReadDocuments, ReadChunks

LEMMA ViewStays ==
  ASSUME PagesTypeOK, RowMoves, NEW s \in Stages, NEW view \in Shown,
         Known(view.task), NotAfterRow(view, s)
  PROVE  Known(view.task)' /\ NotAfterRow(view, s)'
<1>1. view.task \in 0..MaxTasks
  BY DEF Shown
<1>2. Known(view.task)'
  BY <1>1, TaskNumbers DEF Known, RowMoves
<1>3. ASSUME base'.task[s] # NoTask
      PROVE  NotAfter(view, TaskView(s)')
  <2>1. TaskView(s)'.task = base'.task[s]
    BY <1>3 DEF TaskView
  <2>2. CASE base'.task[s] = base.task[s] /\ Rank(TaskView(s)) <= Rank(TaskView(s)')
    <3>1. NotAfter(view, TaskView(s)) /\ TaskView(s).task = base.task[s]
      BY <1>3, <2>2, ViewTypes DEF NotAfterRow
    <3> QED
      BY <1>1, <2>1, <2>2, <3>1, Ranks DEF NotAfter
  <2>3. CASE \A j \in 0..MaxTasks : Known(j) => j < base'.task[s]
    BY <1>1, <2>1, <2>3 DEF NotAfter
  <2> QED
    BY <1>3, <2>2, <2>3 DEF RowMoves
<1> QED
  BY <1>2, <1>3 DEF NotAfterRow

\* A fragment that nothing is done to still follows the row.
LEMMA FragmentStays ==
  ASSUME PagesTypeOK, RowMoves, NEW s \in Stages, NEW f \in Fragments, FragmentFollows(f, s)
  PROVE  FragmentFollows(f, s)'
<1>0. f.shown \in Shown /\ f.polled \in Shown /\ f.started \in Shown /\ f.shown.task \in 0..MaxTasks
  BY DEF Fragments, Shown
<1>1. Known(f.shown.task)' /\ NotAfterRow(f.shown, s)'
  BY <1>0, ViewStays DEF FragmentFollows
<1>2. ASSUME f.poll = "answered"
      PROVE  /\ f.polled.task # NoTask /\ Known(f.polled.task)'
             /\ NotAfter(f.shown, f.polled) /\ NotAfterRow(f.polled, s)'
  BY <1>0, <1>2, ViewStays DEF FragmentFollows
<1>3. ASSUME f.start = "answered"
      PROVE  /\ Known(f.started.task)' /\ NotAfterRow(f.started, s)'
             /\ f.attached => f.shown.task < f.started.task
  BY <1>0, <1>3, ViewStays DEF FragmentFollows
<1>4. ASSUME f.shown.status \in Active /\ f.poll = "none", base'.task[s] = f.shown.task
      PROVE  base'.task[s] = NoTask
  <2>1. Known(f.shown.task) /\ (base.task[s] = NoTask \/ base.task[s] # f.shown.task)
    BY <1>4 DEF FragmentFollows
  <2> QED
    BY <1>0, <1>4, <2>1 DEF RowMoves
<1> QED
  BY <1>1, <1>2, <1>3, <1>4 DEF FragmentFollows

\* What is shown anew is what the row says, or not later.
LEMMA RenderedFollows ==
  ASSUME PagesTypeOK, NEW s \in Stages, NEW f \in Fragments, FragmentFollows(f, s),
         NEW view \in Shown, Known(view.task), NotAfterRow(view, s)
  PROVE  FragmentFollows(Rendered(f, view), s)
<1> DEFINE r == Rendered(f, view)
<1>1. /\ r.shown = view /\ r.attached = FALSE
      /\ r.poll = (IF view.status \in Active THEN "timer" ELSE "none")
      /\ r.start = f.start /\ r.started = f.started
  BY RenderedIs
<1> QED
  BY <1>1 DEF FragmentFollows

LEMMA RowFollows ==
  ASSUME PagesTypeOK, NEW s \in Stages, Known(base.task[s])
  PROVE  Known(TaskView(s).task) /\ NotAfterRow(TaskView(s), s)
BY ViewTypes, Ranks DEF NotAfterRow, NotAfter

LEMMA AfterStartFollows ==
  ASSUME PagesTypeOK, NEW s \in Stages, NEW f \in Fragments, FragmentFollows(f, s),
         f.start = "answered"
  PROVE  FragmentFollows(AfterStart(f), s)
<1> DEFINE r == AfterStart(f)
<1>0. r.start = "none"
  BY AfterStartIs
<1>1. CASE f.attached
  <2>1. /\ r.shown = f.started
        /\ r.poll = (IF f.started.status \in Active THEN "timer" ELSE "none")
    BY <1>1, AfterStartIs
  <2> QED
    BY <1>0, <2>1 DEF FragmentFollows
<1>2. CASE ~f.attached
  <2>1. r.shown = f.shown /\ r.poll = f.poll /\ r.polled = f.polled
    BY <1>2, AfterStartIs
  <2> QED
    BY <1>0, <2>1 DEF FragmentFollows
<1> QED
  BY <1>1, <1>2

LEMMA HandlersFollow ==
  ASSUME PagesTypeOK, NEW s \in Stages, NEW f \in Fragments, FragmentFollows(f, s),
         Known(base.task[s])
  PROVE  /\ f.start = "none" => FragmentFollows(Clicked(f), s)
         /\ f.start = "sent" => FragmentFollows(Refused(f), s)
         /\ f.poll = "timer" => FragmentFollows([f EXCEPT !.poll = "sent"], s)
         /\ FragmentFollows(Polled(f, s), s)
         /\ f.poll = "answered" => FragmentFollows(Rendered(f, f.polled), s)
<1>1. ASSUME f.start = "none"
      PROVE  FragmentFollows(Clicked(f), s)
  <2>1. /\ Clicked(f).shown = f.shown /\ Clicked(f).poll = f.poll /\ Clicked(f).polled = f.polled
        /\ Clicked(f).start = "sent"
    BY DEF Clicked, Fragments
  <2> QED
    BY <2>1 DEF FragmentFollows
<1>2. ASSUME f.start = "sent"
      PROVE  FragmentFollows(Refused(f), s)
  <2>1. /\ Refused(f).shown = f.shown /\ Refused(f).poll = f.poll /\ Refused(f).polled = f.polled
        /\ Refused(f).start = "none"
    BY DEF Refused, Fragments
  <2> QED
    BY <2>1 DEF FragmentFollows
<1>3. ASSUME f.poll = "timer"
      PROVE  FragmentFollows([f EXCEPT !.poll = "sent"], s)
  <2> DEFINE r == [f EXCEPT !.poll = "sent"]
  <2>1. /\ r.shown = f.shown /\ r.poll = "sent" /\ r.start = f.start
        /\ r.started = f.started /\ r.attached = f.attached
    BY DEF Fragments
  <2> HIDE DEF r
  <2> QED
    BY <2>1 DEF FragmentFollows
<1>4. FragmentFollows(Polled(f, s), s)
  <2> DEFINE r == Polled(f, s)
  <2>1. r.shown = f.shown /\ r.start = f.start /\ r.started = f.started /\ r.attached = f.attached
    BY DEF Polled, Fragments
  <2>2. CASE base.task[s] = NoTask
    <3>1. r.poll = "none"
      BY <2>2 DEF Polled, Fragments
    <3> QED
      BY <2>1, <2>2, <3>1 DEF FragmentFollows
  <2>3. CASE base.task[s] # NoTask
    <3>1. r.poll = "answered" /\ r.polled = TaskView(s)
      BY <2>3 DEF Polled, Fragments
    <3>2. NotAfter(f.shown, TaskView(s)) /\ TaskView(s).task # NoTask
      BY <2>3, ViewTypes DEF FragmentFollows, NotAfterRow
    <3> QED
      BY <2>1, <3>1, <3>2, RowFollows DEF FragmentFollows
  <2> QED
    BY <2>2, <2>3
<1>5. ASSUME f.poll = "answered"
      PROVE  FragmentFollows(Rendered(f, f.polled), s)
  <2>1. f.polled \in Shown /\ Known(f.polled.task) /\ NotAfterRow(f.polled, s)
    BY <1>5 DEF FragmentFollows, Fragments
  <2> QED
    BY <2>1, RenderedFollows
<1> QED
  BY <1>1, <1>2, <1>3, <1>4, <1>5

LEMMA AnsweredFollows ==
  ASSUME PagesTypeOK, StartedInOrder, NEW s \in Stages, NEW f \in Fragments, NEW k \in Tasks,
         FragmentFollows(f, s), RowMoves, StartTask(k, s)
  PROVE  FragmentFollows(Answered(f, k), s)'
<1> DEFINE r == Answered(f, k)
<1>0. FragmentFollows(f, s)'
  BY FragmentStays
<1>1. /\ r.shown = f.shown /\ r.poll = f.poll /\ r.polled = f.polled /\ r.attached = f.attached
      /\ r.started = [task |-> k, status |-> "WAITING"]
  BY DEF Answered, Fragments
<1>2. f.shown.task \in 0..MaxTasks /\ f.shown.task < k
  BY StartsLast DEF FragmentFollows, Fragments, Shown
<1>3. base'.task[s] = k /\ progress'[k] = "WAITING" /\ k # NoTask
  BY TaskNumbers DEF StartTask, PagesTypeOK
<1>4. TaskView(s)' = [task |-> k, status |-> "WAITING"]
  BY <1>3 DEF TaskView, StatusOf
<1>5. Known(k)' /\ NotAfterRow([task |-> k, status |-> "WAITING"], s)'
  BY <1>3, <1>4, Ranks DEF Known, NotAfterRow, NotAfter
<1>6. FragmentFollows(r, s)'
  <2>1. Known(r.shown.task)' /\ NotAfterRow(r.shown, s)'
    BY <1>0, <1>1 DEF FragmentFollows
  <2>2. r.poll = "answered" =>
          /\ r.polled.task # NoTask /\ Known(r.polled.task)'
          /\ NotAfter(r.shown, r.polled) /\ NotAfterRow(r.polled, s)'
    BY <1>0, <1>1 DEF FragmentFollows
  <2>3. Known(r.started.task)' /\ NotAfterRow(r.started, s)' /\ r.shown.task < r.started.task
    BY <1>1, <1>2, <1>5
  <2>4. base'.task[s] # r.shown.task
    BY <1>1, <1>2, <1>3
  <2> QED
    BY <2>1, <2>2, <2>3, <2>4 DEF FragmentFollows
<1> QED
  BY <1>6

LEMMA FragmentsFollowStep ==
  ASSUME PagesTypeOK, PagesInvariant, PagesNext
  PROVE  FragmentsFollow'
<1>0. /\ \A b \in Tabs, s \in Stages : fragment[b][s] \in Fragments /\ FragmentFollows(fragment[b][s], s)
      /\ \A s \in Stages : Known(base.task[s])
      /\ StartedInOrder /\ RowMoves
  BY FragmentTypes, RowMovesOn DEF PagesInvariant, FragmentsFollow, OneUnfinished
<1>1. ASSUME NEW b \in Tabs, NEW s \in Stages, fragment'[b][s] = fragment[b][s]
      PROVE  FragmentFollows(fragment[b][s], s)'
  <2>1. PICK f \in Fragments : f = fragment[b][s] /\ FragmentFollows(f, s)
    BY <1>0
  <2>2. FragmentFollows(f, s)'
    BY <1>0, <2>1, FragmentStays
  <2> QED
    BY <1>1, <2>1, <2>2 DEF FragmentFollows
<1>2. ASSUME NEW b \in Tabs, NEW s \in Stages, NEW r \in Fragments, FragmentFollows(r, s),
             fragment'[b][s] = r
      PROVE  FragmentFollows(fragment[b][s], s)'
  <2>1. FragmentFollows(r, s)'
    BY <1>0, <1>2, FragmentStays
  <2> QED
    BY <1>2, <2>1 DEF FragmentFollows
<1>3. ASSUME NEW b \in Tabs, OpenDetail(b)
      PROVE  FragmentsFollow'
  <2>1. ASSUME NEW s \in Stages
        PROVE  FragmentFollows(fragment[b][s], s)'
    <3>1. PICK f \in Fragments : f = fragment[b][s] /\ FragmentFollows(f, s)
      BY <1>0
    <3>2. PICK r \in Fragments : r = Rendered(f, TaskView(s))
      BY ViewTypes, RenderedIs
    <3>3. FragmentFollows(r, s)
      BY <1>0, <3>1, <3>2, ViewTypes, RowFollows, RenderedFollows
    <3>4. fragment'[b][s] = r
      BY <1>3, <3>1, <3>2, OpenDetailFragments
    <3> QED
      BY <1>2, <3>3, <3>4
  <2>2. ASSUME NEW c \in Tabs \ {b}, NEW s \in Stages
        PROVE  FragmentFollows(fragment[c][s], s)'
    BY <1>1, <1>3, <2>2, OpenDetailFragments
  <2> QED
    BY <2>1, <2>2 DEF FragmentsFollow
<1>4. ASSUME NEW b \in Tabs, NEW s \in Stages,
             \/ Click(b, s) \/ HandleStart(b, s) \/ ShowStart(b, s)
             \/ SendPoll(b, s) \/ HandlePoll(b, s) \/ ShowPoll(b, s)
      PROVE  FragmentsFollow'
  <2>1. PICK f \in Fragments : f = fragment[b][s] /\ FragmentFollows(f, s)
    BY <1>0
  <2>2. /\ Clicked(f) \in Fragments /\ Refused(f) \in Fragments
        /\ Polled(f, s) \in Fragments /\ [f EXCEPT !.poll = "sent"] \in Fragments
        /\ Rendered(f, f.polled) \in Fragments
        /\ AfterStart(f) \in Fragments
    BY HandlerFragments, AfterStartIs
  <2>3. /\ f.start = "none" => FragmentFollows(Clicked(f), s)
        /\ f.start = "sent" => FragmentFollows(Refused(f), s)
        /\ f.poll = "timer" => FragmentFollows([f EXCEPT !.poll = "sent"], s)
        /\ FragmentFollows(Polled(f, s), s)
        /\ f.poll = "answered" => FragmentFollows(Rendered(f, f.polled), s)
    BY <1>0, <2>1, HandlersFollow
  <2>4. ASSUME NEW r \in Fragments, fragment' = [fragment EXCEPT ![b][s] = r], FragmentFollows(r, s)'
        PROVE  FragmentsFollow'
    <3>1. fragment'[b][s] = r
      BY <2>4, FragmentPlaced
    <3>2. \A c \in Tabs, t \in Stages : c # b \/ t # s => fragment'[c][t] = fragment[c][t]
      BY <2>4, FragmentPlaced
    <3>3. FragmentFollows(fragment[b][s], s)'
      BY <2>4, <3>1 DEF FragmentFollows
    <3> QED
      BY <1>1, <3>2, <3>3 DEF FragmentsFollow
  <2>5. ASSUME NEW r \in Fragments, fragment' = [fragment EXCEPT ![b][s] = r], FragmentFollows(r, s)
        PROVE  FragmentsFollow'
    BY <1>0, <2>4, <2>5, FragmentStays
  <2>6. CASE Click(b, s)
    <3>1. f.start = "none"
      BY <2>1, <2>6 DEF Click
    <3> QED
      BY <2>1, <2>2, <2>3, <2>5, <2>6, <3>1, Placements
  <2>7. CASE HandleStart(b, s) /\ ~Startable(s)
    <3>1. f.start = "sent"
      BY <2>1, <2>7 DEF HandleStart
    <3> QED
      BY <2>1, <2>2, <2>3, <2>5, <2>7, <3>1, Placements
  <2>8. CASE HandleStart(b, s) /\ Startable(s)
    <3>1. PICK k \in Tasks : /\ StartTask(k, s)
                             /\ fragment' = [fragment EXCEPT ![b][s] = Answered(fragment[b][s], k)]
      BY <2>8, Placements
    <3>2. PICK r \in Fragments : r = Answered(f, k)
      BY AnsweredIs
    <3>3. FragmentFollows(Answered(f, k), s)'
      BY <1>0, <2>1, <3>1, AnsweredFollows
    <3>4. FragmentFollows(r, s)'
      BY <3>2, <3>3 DEF Answered
    <3> QED
      BY <2>1, <2>4, <3>1, <3>2, <3>4
  <2>9. CASE ShowStart(b, s)
    <3>1. f.start = "answered"
      BY <2>1, <2>9 DEF ShowStart
    <3>2. FragmentFollows(AfterStart(f), s)
      BY <2>1, <3>1, AfterStartFollows
    <3> QED
      BY <2>1, <2>2, <2>5, <2>9, <3>2, Placements
  <2>10. CASE SendPoll(b, s)
    <3>1. f.poll = "timer"
      BY <2>1, <2>10 DEF SendPoll
    <3> QED
      BY <2>1, <2>2, <2>3, <2>5, <2>10, <3>1, Placements
  <2>11. CASE HandlePoll(b, s)
    <3>1. fragment' = [fragment EXCEPT ![b][s] = Polled(f, s)]
      BY <2>1, <2>11, Placements
    <3>2. PICK r \in Fragments : r = Polled(f, s) /\ FragmentFollows(r, s)
      BY <2>2, <2>3
    <3> QED
      BY <2>5, <3>1, <3>2
  <2>12. CASE ShowPoll(b, s)
    <3>1. f.poll = "answered"
      BY <2>1, <2>12 DEF ShowPoll
    <3> QED
      BY <2>1, <2>2, <2>3, <2>5, <2>12, <3>1, Placements
  <2> QED
    BY <1>4, <2>6, <2>7, <2>8, <2>9, <2>10, <2>11, <2>12
<1>5. CASE fragment' = fragment
  BY <1>1, <1>5 DEF FragmentsFollow
<1> QED
  BY <1>3, <1>4, <1>5, FragmentStep

-----------------------------------------------------------------------------
(* The index of the row is of the files of the row *)

\* What a step leaves of the row and the operations.
LEMMA StartTaskRow ==
  ASSUME PagesTypeOK, NEW k \in Tasks, NEW s \in Stages, StartTask(k, s)
  PROVE  /\ \A j \in Tasks : progress'[j] = IF j = k THEN "WAITING" ELSE progress[j]
         /\ \A j \in Tasks : stageOf'[j] = IF j = k THEN s ELSE stageOf[j]
         /\ \A t \in Stages : base'.task[t] = IF t = s THEN k ELSE base.task[t]
         /\ base'.exists = base.exists /\ base'.files = base.files /\ base'.index = base.index
         /\ progress[k] = "none"
BY DEF StartTask, PagesTypeOK

\* Where an operation may be started, none is unfinished.
LEMMA IdleMeansDone ==
  ASSUME PagesTypeOK, OneUnfinished, NEW s \in Stages, Startable(s)
  PROVE  \A k \in Tasks : ~Unfinished(k)
<1> SUFFICES ASSUME NEW k \in Tasks, Unfinished(k)
             PROVE  FALSE
  OBVIOUS
<1>1. base.task[stageOf[k]] = k /\ stageOf[k] \in Stages
  BY DEF Startable, OneUnfinished, PagesTypeOK
<1>2. TaskView(stageOf[k]).status = StatusOf(k)
  BY <1>1, TaskNumbers DEF TaskView
<1>3. StatusOf(k) \in Active
  BY DEF StatusOf, Unfinished, Active
<1> QED
  BY <1>1, <1>2, <1>3 DEF Startable, Idle

LEMMA ServerStep ==
  ASSUME PagesTypeOK, OneUnfinished, IndexFits, PagesNext
  PROVE  OneUnfinished' /\ IndexFits'
<1>0. base.index \in 0..MaxTasks /\ \A s \in Stages : base.task[s] \in 0..MaxTasks
  BY DEF PagesTypeOK
<1>1. ASSUME NEW k \in Tasks, BeginTask(k) \/ FailTask(k)
      PROVE  OneUnfinished' /\ IndexFits'
  <2>1. /\ \A j \in Tasks : j # k => progress'[j] = progress[j]
        /\ progress[k] \in Active /\ progress'[k] \in {"IN_PROGRESS", "FAILED"}
        /\ UNCHANGED <<base, stageOf, builtFrom>>
    BY <1>1 DEF BeginTask, FailTask, PagesTypeOK, Active
  <2>2. \A j \in Tasks : Unfinished(j)' => Unfinished(j)
    BY <2>1 DEF Unfinished
  <2>3. \A s \in Stages : Known(base.task[s])'
    BY <1>0, <2>1, TaskNumbers DEF OneUnfinished, Known
  <2>4. OneUnfinished'
    BY <2>1, <2>2, <2>3 DEF OneUnfinished
  <2>5. IndexFits'
    BY <1>0, <2>1, TaskNumbers DEF IndexFits, Active
  <2> QED
    BY <2>4, <2>5
<1>2. ASSUME NEW k \in Tasks, StageTask(k)
      PROVE  OneUnfinished' /\ IndexFits'
  <2>1. /\ \A j \in Tasks : j # k => progress'[j] = progress[j] /\ builtFrom'[j] = builtFrom[j]
        /\ progress[k] = "IN_PROGRESS" /\ progress'[k] = "staged" /\ builtFrom'[k] = base.files
        /\ UNCHANGED <<base, stageOf>> /\ base.exists
    BY <1>2 DEF StageTask, PagesTypeOK
  <2>2. \A j \in Tasks : Unfinished(j)' => Unfinished(j)
    BY <2>1 DEF Unfinished, Active
  <2>3. \A s \in Stages : Known(base.task[s])'
    BY <1>0, <2>1, TaskNumbers DEF OneUnfinished, Known
  <2>4. OneUnfinished'
    BY <2>1, <2>2, <2>3 DEF OneUnfinished
  <2>5. IndexFits'
    BY <1>0, <2>1, TaskNumbers DEF IndexFits
  <2> QED
    BY <2>4, <2>5
<1>3. ASSUME NEW k \in Tasks, CommitTask(k)
      PROVE  OneUnfinished' /\ IndexFits'
  <2>1. /\ \A j \in Tasks : j # k => progress'[j] = progress[j]
        /\ progress[k] = "staged" /\ progress'[k] = "SUCCESS"
        /\ UNCHANGED <<stageOf, builtFrom>>
    BY <1>3 DEF CommitTask, PagesTypeOK
  <2>2. /\ base'.exists = base.exists
        /\ base'.files = IF stageOf[k] = "conversion" THEN k ELSE base.files
        /\ base'.index = IF stageOf[k] = "conversion" THEN NoTask ELSE k
        /\ \A s \in Stages : base'.task[s] =
              IF stageOf[k] = "conversion" /\ s = "indexing" THEN NoTask ELSE base.task[s]
    BY <1>3, CommitTaskBase, TypesOf
  <2>3. base.exists /\ \A j \in Tasks : Unfinished(j) => j = k
    BY <2>1 DEF OneUnfinished, Unfinished
  <2>4. \A j \in Tasks : ~Unfinished(j)'
    BY <2>1, <2>3 DEF Unfinished, Active
  <2>5. \A s \in Stages : Known(base.task[s])'
    BY <1>0, <2>1, <2>2, TaskNumbers DEF OneUnfinished, Known
  <2>6. \A j \in Tasks : progress'[j] # "staged"
    BY <2>4 DEF Unfinished
  <2>7. OneUnfinished'
    BY <2>2, <2>4, <2>5, <2>6 DEF OneUnfinished
  <2>8. IndexFits'
    BY <2>1, <2>2, <2>6 DEF IndexFits
  <2> QED
    BY <2>7, <2>8
<1>4. CASE DeleteBase
  <2>1. /\ base'.exists = FALSE /\ base'.index = NoTask
        /\ \A s \in Stages : base'.task[s] = NoTask
        /\ UNCHANGED <<progress, stageOf, builtFrom>>
        /\ \A k \in Tasks : progress[k] # "staged"
    BY <1>4 DEF DeleteBase, PagesTypeOK
  <2> QED
    BY <2>1 DEF OneUnfinished, IndexFits, Known
<1>5. ASSUME NEW k \in Tasks, NEW s \in Stages, StartTask(k, s), Startable(s),
             builtFrom' = builtFrom
      PROVE  OneUnfinished' /\ IndexFits'
  <2>1. /\ \A j \in Tasks : progress'[j] = IF j = k THEN "WAITING" ELSE progress[j]
        /\ \A j \in Tasks : stageOf'[j] = IF j = k THEN s ELSE stageOf[j]
        /\ \A t \in Stages : base'.task[t] = IF t = s THEN k ELSE base.task[t]
        /\ base'.exists = base.exists /\ base'.files = base.files /\ base'.index = base.index
        /\ progress[k] = "none"
    BY <1>5, StartTaskRow
  <2>2. \A j \in Tasks : Unfinished(j)' => j = k
    BY <1>5, <2>1, IdleMeansDone DEF Unfinished
  <2>3. \A t \in Stages : Known(base.task[t])'
    BY <1>0, <2>1, TaskNumbers DEF OneUnfinished, Known
  <2>4. base.exists /\ base'.exists
    BY <1>5, <2>1 DEF Startable
  <2>5. OneUnfinished'
    BY <2>1, <2>2, <2>3, <2>4 DEF OneUnfinished
  <2>6. IndexFits'
    BY <1>0, <1>5, <2>1, TaskNumbers DEF IndexFits
  <2> QED
    BY <2>5, <2>6
<1>6. ASSUME NEW s \in Stages, StartElsewhere(s)
      PROVE  OneUnfinished' /\ IndexFits'
  BY <1>5, <1>6 DEF StartElsewhere
<1>7. ASSUME UNCHANGED <<base, progress, stageOf, builtFrom>>
      PROVE  OneUnfinished' /\ IndexFits'
  BY <1>7 DEF OneUnfinished, IndexFits, Known, Unfinished
<1>8. ASSUME NEW b \in Tabs, NEW s \in Stages, HandleStart(b, s)
      PROVE  OneUnfinished' /\ IndexFits'
  BY <1>5, <1>7, <1>8 DEF HandleStart
<1> QED
  BY <1>1, <1>2, <1>3, <1>4, <1>6, <1>7, <1>8
     DEF PagesNext, serverVars, OpenDetail, Click, ShowStart, SendPoll, HandlePoll, ShowPoll,
         OpenFilePage, LoadFiles, LoadIndex, ReadDocuments, ReadChunks

\* What is finished stays as it is, and an index that the row does not name is
\* never named again.
LEMMA FinishedStays ==
  ASSUME PagesTypeOK, OneUnfinished, PagesNext, NEW k \in Tasks, progress[k] = "SUCCESS"
  PROVE  /\ progress'[k] = "SUCCESS" /\ builtFrom'[k] = builtFrom[k]
         /\ base'.index = k => base.index = k
<1>1. ASSUME NEW j \in Tasks, BeginTask(j) \/ FailTask(j) \/ StageTask(j)
      PROVE  /\ progress'[k] = "SUCCESS" /\ builtFrom'[k] = builtFrom[k]
             /\ base' = base
  BY <1>1 DEF BeginTask, FailTask, StageTask, PagesTypeOK
<1>2. ASSUME NEW j \in Tasks, CommitTask(j)
      PROVE  /\ progress'[k] = "SUCCESS" /\ builtFrom'[k] = builtFrom[k]
             /\ base'.index = k => base.index = k
  <2>1. base'.index = IF stageOf[j] = "conversion" THEN NoTask ELSE j
    BY <1>2, CommitTaskBase, TypesOf
  <2>2. j # k
    BY <1>2 DEF CommitTask
  <2> QED
    BY <1>2, <2>1, <2>2, TaskNumbers DEF CommitTask, PagesTypeOK
<1>3. CASE DeleteBase
  BY <1>3, TaskNumbers DEF DeleteBase, PagesTypeOK
<1>4. ASSUME NEW j \in Tasks, NEW s \in Stages, StartTask(j, s), builtFrom' = builtFrom
      PROVE  /\ progress'[k] = "SUCCESS" /\ builtFrom'[k] = builtFrom[k]
             /\ base'.index = k => base.index = k
  BY <1>4, StartTaskRow
<1>5. ASSUME NEW s \in Stages, StartElsewhere(s)
      PROVE  /\ progress'[k] = "SUCCESS" /\ builtFrom'[k] = builtFrom[k]
             /\ base'.index = k => base.index = k
  BY <1>4, <1>5 DEF StartElsewhere
<1>6. ASSUME NEW b \in Tabs, NEW s \in Stages, HandleStart(b, s)
      PROVE  /\ progress'[k] = "SUCCESS" /\ builtFrom'[k] = builtFrom[k]
             /\ base'.index = k => base.index = k
  BY <1>4, <1>6 DEF HandleStart
<1> QED
  BY <1>1, <1>2, <1>3, <1>5, <1>6
     DEF PagesNext, serverVars, OpenDetail, Click, ShowStart, SendPoll, HandlePoll, ShowPoll,
         OpenFilePage, LoadFiles, LoadIndex, ReadDocuments, ReadChunks

\* A file page that nothing is done to still fits.
LEMMA PageStays ==
  ASSUME PagesTypeOK, OneUnfinished, PagesNext, NEW v \in FileViews, PageFits(v)
  PROVE  PageFits(v)'
<1>0. v.wanted \in 0..MaxTasks /\ v.index \in 0..MaxTasks
  BY DEF FileViews
<1>1. ASSUME v.wanted # NoTask, progress[v.wanted] = "SUCCESS"
      PROVE  /\ progress'[v.wanted] = "SUCCESS" /\ builtFrom'[v.wanted] = builtFrom[v.wanted]
             /\ base'.index = v.wanted => base.index = v.wanted
  BY <1>0, <1>1, TaskNumbers, FinishedStays
<1>2. ASSUME v.index # NoTask, progress[v.index] = "SUCCESS"
      PROVE  progress'[v.index] = "SUCCESS" /\ builtFrom'[v.index] = builtFrom[v.index]
  BY <1>0, <1>2, TaskNumbers, FinishedStays
<1> QED
  BY <1>1, <1>2 DEF PageFits

LEMMA FilePagesFitStep ==
  ASSUME PagesTypeOK, PagesInvariant, PagesNext
  PROVE  FilePagesFit'
<1>0. /\ filePage \in [Viewings -> FileViews] /\ ServerTypeOK
      /\ OneUnfinished /\ IndexFits /\ \A b \in Viewings : PageFits(filePage[b])
  BY TypesOf DEF PagesInvariant, FilePagesFit
<1>1. ASSUME NEW b \in Viewings, filePage'[b] = filePage[b]
      PROVE  PageFits(filePage[b])'
  <2>1. PICK v \in FileViews : v = filePage[b] /\ PageFits(v)
    BY <1>0
  <2>2. PageFits(v)'
    BY <1>0, <2>1, PageStays
  <2> QED
    BY <1>1, <2>1, <2>2 DEF PageFits
<1>2. ASSUME NEW b \in Viewings, NEW v \in FileViews, filePage' = [filePage EXCEPT ![b] = v],
             PageFits(v)
      PROVE  FilePagesFit'
  <2>1. filePage'[b] = v /\ \A c \in Viewings \ {b} : filePage'[c] = filePage[c]
    BY <1>0, <1>2
  <2>2. PageFits(v)'
    BY <1>0, <1>2, PageStays
  <2>3. PageFits(filePage[b])'
    BY <2>1, <2>2 DEF PageFits
  <2> QED
    BY <1>1, <2>1, <2>3 DEF FilePagesFit
<1>3. NoFilePage \in FileViews /\ PageFits(NoFilePage)
  BY TaskNumbers DEF NoFilePage, FileViews, PageFits
<1>4. ASSUME NEW b \in Viewings, OpenFilePage(b)
      PROVE  FilePagesFit'
  <2>1. CASE ~base.exists
    BY <1>2, <1>3, <1>4, <2>1 DEF OpenFilePage
  <2>2. CASE base.exists
    <3> DEFINE v == [NoFilePage EXCEPT !.at = "row", !.converted = base.files # NoTask,
                                       !.wanted = base.index]
    <3>1. filePage' = [filePage EXCEPT ![b] = v]
      BY <1>4, <2>2 DEF OpenFilePage
    <3>2. /\ v \in FileViews /\ v.at = "row" /\ v.wanted = base.index
          /\ v.converted = (base.files # NoTask)
      BY <1>0, <1>3 DEF FileViews, ServerTypeOK
    <3> HIDE DEF v
    <3>3. PageFits(v)
      BY <1>0, <3>2 DEF PageFits, IndexFits
    <3> QED
      BY <1>2, <3>1, <3>2, <3>3
  <2> QED
    BY <2>1, <2>2
<1>5. ASSUME NEW b \in Viewings, LoadFiles(b)
      PROVE  FilePagesFit'
  <2> DEFINE v == [filePage[b] EXCEPT !.at = "files",
                      !.files = IF filePage[b].converted THEN base.files ELSE NoTask]
  <2>1. PICK p \in FileViews : p = filePage[b] /\ PageFits(p) /\ p.at = "row"
    BY <1>0, <1>5 DEF LoadFiles
  <2>2. filePage' = [filePage EXCEPT ![b] = v]
    BY <1>0, <1>5 DEF LoadFiles, FileViews
  <2>3. base.files \in 0..MaxTasks /\ NoTask \in 0..MaxTasks
    BY <1>0, TaskNumbers DEF ServerTypeOK
  <2>4. /\ v \in FileViews /\ v.at = "files" /\ v.wanted = p.wanted
        /\ v.files = IF p.converted THEN base.files ELSE NoTask
    BY <2>1, <2>3 DEF FileViews
  <2> HIDE DEF v
  <2>5. PageFits(v)
    <3>1. v.wanted # NoTask =>
             progress[v.wanted] = "SUCCESS" /\ (p.converted <=> builtFrom[v.wanted] # NoTask)
      BY <2>1, <2>4 DEF PageFits
    <3>2. ASSUME v.wanted # NoTask, base.index = v.wanted
          PROVE  v.files = builtFrom[v.wanted]
      <4>1. builtFrom[v.wanted] = base.files
        BY <1>0, <3>2 DEF IndexFits
      <4> QED
        BY <2>4, <3>1, <3>2, <4>1
    <3> QED
      BY <2>4, <3>1, <3>2 DEF PageFits
  <2> QED
    BY <1>2, <2>2, <2>4, <2>5
<1>6. ASSUME NEW b \in Viewings, LoadIndex(b)
      PROVE  FilePagesFit'
  <2> DEFINE v == [filePage[b] EXCEPT !.at = "index",
                      !.index = IF base.index = filePage[b].wanted THEN base.index ELSE NoTask]
  <2>1. PICK p \in FileViews : p = filePage[b] /\ PageFits(p) /\ p.at = "files"
    BY <1>0, <1>6 DEF LoadIndex
  <2>2. filePage' = [filePage EXCEPT ![b] = v]
    BY <1>0, <1>6 DEF LoadIndex, FileViews
  <2>3. base.index \in 0..MaxTasks /\ NoTask \in 0..MaxTasks
    BY <1>0, TaskNumbers DEF ServerTypeOK
  <2>4. /\ v \in FileViews /\ v.at = "index" /\ v.files = p.files
        /\ v.index = IF base.index = p.wanted THEN base.index ELSE NoTask
    BY <2>1, <2>3 DEF FileViews
  <2> HIDE DEF v
  <2>5. PageFits(v)
    BY <2>1, <2>4 DEF PageFits
  <2> QED
    BY <1>2, <2>2, <2>4, <2>5
<1>7. ASSUME NEW b \in Viewings, NEW k, NEW next \in {"blobs", "open"}, ReadIfStored(b, k, next),
             filePage[b].at \in {"index", "blobs"}
      PROVE  FilePagesFit'
  <2> DEFINE v == [filePage[b] EXCEPT !.at = next]
  <2>1. PICK p \in FileViews : p = filePage[b] /\ PageFits(p) /\ p.at \in {"index", "blobs"}
    BY <1>0, <1>7
  <2>2. /\ v \in FileViews /\ v.at = next /\ v.files = p.files /\ v.index = p.index
    BY <2>1 DEF FileViews
  <2>3. filePage' = [filePage EXCEPT ![b] = v] \/ filePage' = [filePage EXCEPT ![b] = NoFilePage]
    BY <1>0, <1>7 DEF ReadIfStored, FileViews
  <2> HIDE DEF v
  <2>4. PageFits(v)
    BY <2>1, <2>2 DEF PageFits
  <2> QED
    BY <1>2, <1>3, <2>2, <2>3, <2>4
<1>8. ASSUME NEW b \in Viewings, ReadDocuments(b)
      PROVE  FilePagesFit'
  BY <1>7, <1>8 DEF ReadDocuments
<1>9. ASSUME NEW b \in Viewings, ReadChunks(b)
      PROVE  FilePagesFit'
  <2>1. filePage[b].at = "blobs"
    BY <1>9 DEF ReadChunks
  <2>2. CASE filePage[b].files = NoTask \/ filePage[b].wanted = NoTask
    <3> DEFINE v == [filePage[b] EXCEPT !.at = "open", !.index = NoTask]
    <3>1. v \in FileViews /\ v.at = "open" /\ v.index = NoTask
      BY <1>0, TaskNumbers DEF FileViews
    <3>2. filePage' = [filePage EXCEPT ![b] = v]
      BY <1>0, <1>9, <2>2 DEF ReadChunks, FileViews
    <3> HIDE DEF v
    <3>3. PageFits(v)
      BY <3>1 DEF PageFits
    <3> QED
      BY <1>2, <3>1, <3>2, <3>3
  <2>3. CASE ~(filePage[b].files = NoTask \/ filePage[b].wanted = NoTask) /\ base.exists
    <3>1. ReadIfStored(b, filePage[b].index, "open")
      BY <1>9, <2>3 DEF ReadChunks
    <3> QED
      BY <1>7, <2>1, <3>1
  <2>4. CASE ~(filePage[b].files = NoTask \/ filePage[b].wanted = NoTask) /\ ~base.exists
    BY <1>2, <1>3, <1>9, <2>4 DEF ReadChunks
  <2> QED
    BY <2>2, <2>3, <2>4
<1>10. CASE filePage' = filePage
  BY <1>1, <1>10 DEF FilePagesFit
<1> QED
  BY <1>4, <1>5, <1>6, <1>8, <1>9, <1>10
     DEF PagesNext, BeginTask, StageTask, CommitTask, FailTask, DeleteBase, StartElsewhere,
         OpenDetail, Click, HandleStart, ShowStart, SendPoll, HandlePoll, ShowPoll

-----------------------------------------------------------------------------
PagesInv == PagesTypeOK /\ PagesInvariant

LEMMA PagesStart ==
  ASSUME PagesInit
  PROVE  PagesInv
<1>1. ServerTypeOK
  BY TaskNumbers DEF PagesInit, ServerTypeOK, Stages
<1>2. NoStatus \in Shown /\ NoStatus.task = NoTask /\ NoStatus.status = "none"
  BY TaskNumbers DEF NoStatus, Shown
<1>3. Closed \in Fragments
  BY <1>2 DEF Closed, Fragments, Polls
<1>4. NoFilePage \in FileViews
  BY TaskNumbers DEF NoFilePage, FileViews
<1>5. PagesTypeOK
  BY <1>1, <1>3, <1>4, TypesOf DEF PagesInit
<1>6. StartedInOrder /\ OneUnfinished /\ IndexFits
  BY DEF PagesInit, StartedInOrder, OneUnfinished, IndexFits, Known, Unfinished, Active
<1>7. \A s \in Stages : FragmentFollows(Closed, s)
  <2>1. /\ Closed.shown = NoStatus /\ Closed.poll = "none" /\ Closed.start = "none"
    BY DEF Closed
  <2> QED
    BY <1>2, <2>1 DEF FragmentFollows, Known, NotAfterRow, PagesInit, Active
<1>8. FragmentsFollow
  BY <1>7 DEF PagesInit, FragmentsFollow
<1>9. FilePagesFit
  BY DEF PagesInit, FilePagesFit, PageFits, NoFilePage
<1> QED
  BY <1>5, <1>6, <1>8, <1>9 DEF PagesInv, PagesInvariant

LEMMA PagesStep ==
  ASSUME PagesInv, [PagesNext]_pagesVars
  PROVE  PagesInv'
<1>1. CASE PagesNext
  BY <1>1, PagesTypeStep, RowMovesOn, ServerStep, FragmentsFollowStep, FilePagesFitStep
     DEF PagesInv, PagesInvariant
<1>2. CASE UNCHANGED pagesVars
  BY <1>2 DEF pagesVars, serverVars, PagesInv, PagesTypeOK, PagesInvariant, StartedInOrder,
              OneUnfinished, IndexFits, FragmentsFollow, FragmentFollows, NotAfterRow, TaskView,
              StatusOf, Known, Unfinished, FilePagesFit, PageFits
<1> QED
  BY <1>1, <1>2

LEMMA PagesInvariance == PagesSpec => []PagesInv
BY PagesStart, PagesStep, PTL DEF PagesSpec

\* A fragment that shows a running operation asks on, whatever tabs there are
\* and however their answers overtake each other.
THEOREM RunningStaysWatched == PagesSpec => []RunningIsWatched
<1>1. PagesInv => RunningIsWatched
  BY DEF PagesInv, PagesInvariant, FragmentsFollow, FragmentFollows, RunningIsWatched
<1> QED
  BY <1>1, PagesInvariance, PTL

\* The chunks that a file page marks are chunks of the documents it shows.
THEOREM ChunksAlwaysMatch == PagesSpec => []ChunksMatchDocuments
<1>1. PagesInv => ChunksMatchDocuments
  BY DEF PagesInv, PagesInvariant, FilePagesFit, PageFits, ChunksMatchDocuments
<1> QED
  BY <1>1, PagesInvariance, PTL

LEMMA ForwardStep ==
  ASSUME PagesInv, [PagesNext]_pagesVars, NEW b \in Tabs, NEW s \in Stages
  PROVE  LET old == fragment[b][s].shown
             new == fragment'[b][s].shown IN
         \/ new.task > old.task
         \/ new.task = old.task /\ Rank(new) >= Rank(old)
         \/ new = NoStatus
<1> DEFINE old == fragment[b][s].shown
           new == fragment'[b][s].shown
           Forward == \/ new.task > old.task
                      \/ new.task = old.task /\ Rank(new) >= Rank(old)
                      \/ new = NoStatus
<1>0. /\ fragment[b][s] \in Fragments /\ FragmentFollows(fragment[b][s], s)
      /\ PagesTypeOK
  BY FragmentTypes DEF PagesInv, PagesInvariant, FragmentsFollow
<1>1. ASSUME new = old
      PROVE  Forward
  BY <1>0, <1>1, Ranks DEF Fragments, Shown
<1>2. ASSUME NEW view \in Shown, new = view, NotAfter(old, view)
      PROVE  Forward
  BY <1>0, <1>2, Ranks DEF NotAfter, Fragments, Shown
<1>3. ASSUME NEW c \in Tabs, OpenDetail(c)
      PROVE  Forward
  <2>1. CASE c # b
    BY <1>1, <1>3, <2>1, <1>0, OpenDetailFragments
  <2>2. CASE c = b
    <3>1. new = TaskView(s) /\ TaskView(s) \in Shown
      <4>1. fragment'[b][s] = Rendered(fragment[b][s], TaskView(s))
        BY <1>0, <1>3, <2>2, OpenDetailFragments
      <4>2. TaskView(s) \in Shown
        BY <1>0, ViewTypes
      <4>3. PICK f \in Fragments : f = fragment[b][s]
        BY <1>0
      <4>4. Rendered(f, TaskView(s)).shown = TaskView(s)
        BY <4>2, RenderedIs
      <4> QED
        BY <4>1, <4>2, <4>3, <4>4
    <3>2. CASE base.task[s] = NoTask
      BY <3>1, <3>2 DEF TaskView
    <3>3. CASE base.task[s] # NoTask
      <4>1. NotAfter(old, TaskView(s))
        BY <1>0, <3>3 DEF FragmentFollows, NotAfterRow
      <4> HIDE DEF new, Forward
      <4> QED
        BY <1>2, <3>1, <4>1
    <3> QED
      BY <3>2, <3>3
  <2> QED
    BY <2>1, <2>2
<1>4. ASSUME NEW c \in Tabs, NEW t \in Stages, c # b \/ t # s,
             \/ Click(c, t) \/ HandleStart(c, t) \/ ShowStart(c, t)
             \/ SendPoll(c, t) \/ HandlePoll(c, t) \/ ShowPoll(c, t)
      PROVE  Forward
  <2>1. fragment[c][t] \in Fragments
    BY <1>0, FragmentTypes
  <2>2. \E r \in Fragments : fragment' = [fragment EXCEPT ![c][t] = r]
    BY <1>0, <1>4, <2>1, OnePlacement
  <2>3. fragment'[b][s] = fragment[b][s]
    BY <1>0, <1>4, <2>2, FragmentPlaced
  <2> QED
    BY <1>1, <2>3
<1>5. ASSUME NEW r \in Fragments, fragment' = [fragment EXCEPT ![b][s] = r],
             r.shown = old \/ NotAfter(old, r.shown)
      PROVE  Forward
  <2>1. new = r.shown /\ r.shown \in Shown
    BY <1>0, <1>5, FragmentPlaced DEF Fragments
  <2> HIDE DEF Forward, new, old
  <2> QED
    BY <1>1, <1>2, <1>5, <2>1
<1>6. ASSUME \/ Click(b, s) \/ HandleStart(b, s) \/ ShowStart(b, s)
             \/ SendPoll(b, s) \/ HandlePoll(b, s) \/ ShowPoll(b, s)
      PROVE  Forward
  <2>1. PICK f \in Fragments : f = fragment[b][s] /\ FragmentFollows(f, s)
    BY <1>0
  <2>2. /\ Clicked(f) \in Fragments /\ Refused(f) \in Fragments
        /\ Polled(f, s) \in Fragments /\ [f EXCEPT !.poll = "sent"] \in Fragments
        /\ Rendered(f, f.polled) \in Fragments
        /\ AfterStart(f) \in Fragments
    BY <1>0, HandlerFragments, AfterStartIs
  <2>3. /\ Clicked(f).shown = f.shown /\ Refused(f).shown = f.shown
        /\ Polled(f, s).shown = f.shown /\ [f EXCEPT !.poll = "sent"].shown = f.shown
    BY DEF Clicked, Refused, Polled, Fragments
  <2>4. old = f.shown
    BY <2>1
  <2> HIDE DEF Forward, new, old
  <2>5. CASE Click(b, s)
    BY <1>0, <1>5, <2>1, <2>2, <2>3, <2>4, <2>5, Placements
  <2>6. CASE HandleStart(b, s) /\ ~Startable(s)
    BY <1>0, <1>5, <2>1, <2>2, <2>3, <2>4, <2>6, Placements
  <2>7. CASE HandleStart(b, s) /\ Startable(s)
    <3>1. PICK k \in Tasks : fragment' = [fragment EXCEPT ![b][s] = Answered(fragment[b][s], k)]
      BY <1>0, <2>7, Placements
    <3>2. Answered(f, k) \in Fragments /\ Answered(f, k).shown = f.shown
      BY AnsweredIs DEF Answered, Fragments
    <3> QED
      BY <1>5, <2>1, <2>4, <3>1, <3>2
  <2>8. CASE ShowStart(b, s)
    <3>1. f.start = "answered"
      BY <2>1, <2>8 DEF ShowStart
    <3>2. AfterStart(f).shown = f.shown \/ NotAfter(f.shown, AfterStart(f).shown)
      BY <2>1, <3>1, AfterStartIs DEF FragmentFollows, NotAfter, Fragments
    <3> QED
      BY <1>0, <1>5, <2>1, <2>2, <2>4, <2>8, <3>2, Placements
  <2>9. CASE SendPoll(b, s)
    BY <1>0, <1>5, <2>1, <2>2, <2>3, <2>4, <2>9, Placements
  <2>10. CASE HandlePoll(b, s)
    <3>1. fragment' = [fragment EXCEPT ![b][s] = Polled(f, s)]
      BY <1>0, <2>1, <2>10, Placements
    <3> QED
      BY <1>5, <2>2, <2>3, <2>4, <3>1
  <2>11. CASE ShowPoll(b, s)
    <3>1. f.poll = "answered" /\ f.polled \in Shown
      BY <2>1, <2>11 DEF ShowPoll, Fragments
    <3>2. NotAfter(f.shown, f.polled) /\ Rendered(f, f.polled).shown = f.polled
      BY <2>1, <3>1, RenderedIs DEF FragmentFollows
    <3> QED
      BY <1>0, <1>5, <2>1, <2>2, <2>4, <2>11, <3>2, Placements
  <2> QED
    BY <1>6, <2>5, <2>6, <2>7, <2>8, <2>9, <2>10, <2>11
<1>7. CASE fragment' = fragment
  BY <1>1, <1>7
<1>8. CASE PagesNext
  BY <1>0, <1>3, <1>4, <1>6, <1>7, <1>8, FragmentStep
<1>9. CASE UNCHANGED pagesVars
  BY <1>7, <1>9 DEF pagesVars
<1> QED
  BY <1>8, <1>9

\* No fragment goes back to an earlier operation or an earlier status, in
\* whatever order the answers arrive.
THEOREM FragmentsNeverGoBack == PagesSpec => FragmentsGoForward
<1>1. PagesInv /\ [PagesNext]_pagesVars =>
         [\A b \in Tabs, s \in Stages :
             LET old == fragment[b][s].shown
                 new == fragment'[b][s].shown IN
             \/ new.task > old.task
             \/ new.task = old.task /\ Rank(new) >= Rank(old)
             \/ new = NoStatus]_pagesVars
  BY ForwardStep
<1> QED
  BY <1>1, PagesInvariance, PTL DEF PagesSpec, FragmentsGoForward

=============================================================================
