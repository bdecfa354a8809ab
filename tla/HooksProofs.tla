----------------------------- MODULE HooksProofs -----------------------------
(***************************************************************************)
(* Proofs about ExceptionNames, ModelRegistry, CommitGuard and              *)
(* CssDirectives, for every number of classes, models, files and            *)
(* components.                                                              *)
(***************************************************************************)
EXTENDS CommitGuard, CssDirectives, ExceptionNames, ModelRegistry, TemplateProofs

(* The passes over the classes of a file *)

LEMMA NamesStep ==
  ASSUME NamesInvariant, [NamesNext]_namesVars
  PROVE  NamesInvariant'
<1>0. ClassCount \in Nat /\ RootNames \subseteq WellNamed
  BY ExceptionNamesAssumption
<1>1. CASE OpenFile
  <2>1. found' = {} /\ exceptionNames' = RootNames /\ at' = 1 /\ grown' = FALSE
    BY <1>1 DEF OpenFile
  <2>2. at' \in 0..(ClassCount + 1) /\ \A c \in Classes : ~(c < at')
    BY <1>0, <2>1 DEF Classes
  <2>3. exceptionNames' = RootNames \cup {className'[c] : c \in found'}
    BY <2>1
  <2> QED
    BY <2>1, <2>2, <2>3 DEF NamesInvariant, Classes
<1>2. CASE SkipFile
  BY <1>2 DEF SkipFile, NamesInvariant, ClosedUnderBases, IsExceptionBase
<1>3. CASE LookAtClass
  <2>0. at \in 1..ClassCount /\ at + 1 \in 0..(ClassCount + 1)
    BY <1>0, <1>3 DEF LookAtClass, Classes
  <2>1. CASE at \notin found /\ \E b \in classBases[at] : IsExceptionBase(b)
    <3>1. /\ found' = found \cup {at} /\ exceptionNames' = exceptionNames \cup {className[at]}
          /\ grown' = TRUE /\ at' = at + 1
          /\ UNCHANGED <<className, classBases>>
      BY <1>3, <2>1 DEF LookAtClass, file
    <3>2. ASSUME NEW S \in SUBSET Classes, ClosedUnderBases(S)
          PROVE  at \in S
      <4>1. found \subseteq S
        BY <3>2 DEF NamesInvariant
      <4>2. PICK b \in classBases[at] : b \in exceptionNames \cup WellNamed
        BY <2>1 DEF IsExceptionBase
      <4>3. b \in WellNamed \/ \E d \in S : className[d] = b
        BY <1>0, <4>1, <4>2 DEF NamesInvariant
      <4> QED
        BY <2>0, <3>2, <4>2, <4>3 DEF ClosedUnderBases, Classes
    <3>3. \A S \in SUBSET Classes : ClosedUnderBases(S)' => found' \subseteq S
      BY <3>1, <3>2 DEF NamesInvariant, ClosedUnderBases
    <3>4. exceptionNames' = RootNames \cup {className'[c] : c \in found'}
      BY <3>1 DEF NamesInvariant
    <3> QED
      BY <2>0, <3>1, <3>3, <3>4 DEF NamesInvariant, Classes
  <2>2. CASE ~(at \notin found /\ \E b \in classBases[at] : IsExceptionBase(b))
    <3>1. at' = at + 1 /\ UNCHANGED <<found, exceptionNames, grown, className, classBases>>
      BY <1>3, <2>2 DEF LookAtClass, file
    <3>2. ASSUME ~grown, NEW c \in Classes, c < at + 1, \E b \in classBases[c] : IsExceptionBase(b)
          PROVE  c \in found
      <4>1. c < at \/ c = at
        BY <1>0, <2>0, <3>2 DEF Classes
      <4> QED
        BY <2>2, <3>2, <4>1 DEF NamesInvariant
    <3> QED
      BY <2>0, <3>1, <3>2 DEF NamesInvariant, ClosedUnderBases, IsExceptionBase
  <2> QED
    BY <2>1, <2>2
<1>4. CASE PassAgain
  <2>1. at' = 1 /\ grown' = FALSE
        /\ UNCHANGED <<found, exceptionNames, className, classBases>>
    BY <1>4 DEF PassAgain, file
  <2>2. at' \in 0..(ClassCount + 1) /\ \A c \in Classes : ~(c < at')
    BY <1>0, <2>1 DEF Classes
  <2> QED
    BY <2>1, <2>2 DEF NamesInvariant, ClosedUnderBases, Classes
<1>5. CASE CloseFile
  BY <1>0, <1>5 DEF CloseFile, file, NamesInvariant, ClosedUnderBases, Classes
<1>6. CASE UNCHANGED namesVars
  BY <1>6 DEF namesVars, NamesInvariant, ClosedUnderBases, IsExceptionBase
<1> QED
  BY <1>1, <1>2, <1>3, <1>4, <1>5, <1>6 DEF NamesNext

\* However many classes derive from each other, and in whatever order they
\* stand, the hook finds the descendants of exceptions and nothing else.
THEOREM DescendantsAreFound == NamesSpec => []FindsTheDescendants
<1>1. NamesInit => NamesInvariant
  <2> SUFFICES ASSUME NamesInit
               PROVE  NamesInvariant
    OBVIOUS
  <2>1. found = {} /\ exceptionNames = RootNames /\ at = 0 /\ grown = FALSE
    BY DEF NamesInit
  <2>2. at \in 0..(ClassCount + 1) /\ \A c \in Classes : ~(c < at)
    BY <2>1, ExceptionNamesAssumption DEF Classes
  <2>3. exceptionNames = RootNames \cup {className[c] : c \in found}
    BY <2>1
  <2> QED
    BY <2>1, <2>2, <2>3 DEF NamesInvariant, Classes
<1>2. NamesInvariant => FindsTheDescendants
  <2> SUFFICES ASSUME NamesInvariant, at = ClassCount + 1, ~grown
               PROVE  ClosedUnderBases(found)
    BY DEF NamesInvariant, FindsTheDescendants
  <2> SUFFICES ASSUME NEW c \in Classes, NEW b \in classBases[c],
                      b \in WellNamed \/ \E d \in found : className[d] = b
               PROVE  c \in found
    BY DEF ClosedUnderBases
  <2>1. IsExceptionBase(b)
    BY DEF NamesInvariant, IsExceptionBase
  <2>2. c < at
    BY ExceptionNamesAssumption DEF Classes
  <2> QED
    BY <2>1, <2>2 DEF NamesInvariant
<1> QED
  BY <1>1, <1>2, NamesStep, PTL DEF NamesSpec

-----------------------------------------------------------------------------
(* The registry of models *)

\* Writing the registry twice writes the same header.
LEMMA HeaderSettles == \A h : SplitHeader(SplitHeader(h)) = SplitHeader(h)
BY DEF SplitHeader

LEMMA RegistryStep ==
  ASSUME RegistryTypeOK, RegistryInvariant, [RegistryNext]_registryVars
  PROVE  RegistryTypeOK' /\ RegistryInvariant'
<1> USE DEF RegistryInvariant, RegistrySettles, CommittedIsComplete, RewritingSettles, Imported
<1>0. GenerateRegistry \in [header : {"doc", "prose", "cut", "none"}, imports : SUBSET Models]
  BY DEF RegistryTypeOK, GenerateRegistry, SplitHeader, DiscoverModels
<1>1. CASE EditModels
  BY <1>1 DEF EditModels, RegistryTypeOK
<1>2. CASE EditRegistry
  BY <1>2, RegistryAssumption DEF EditRegistry, RegistryTypeOK
<1>3. ASSUME NEW check \in BOOLEAN, RunCheck(check)
      PROVE  RegistryTypeOK' /\ RegistryInvariant'
  <2>1. RegistryTypeOK'
    BY <1>0, <1>3 DEF RunCheck, RegistryTypeOK
  <2>2. DiscoverModels' = DiscoverModels /\ readable' = readable
    BY <1>3 DEF RunCheck, DiscoverModels
  <2>3. CASE ~readable
    BY <1>3, <2>1, <2>2, <2>3 DEF RunCheck
  <2>4. CASE readable /\ DiscoverModels = {}
    BY <1>3, <2>1, <2>2, <2>4 DEF RunCheck
  <2>5. CASE readable /\ DiscoverModels # {} /\ registry = GenerateRegistry
    <3>1. GenerateRegistry.imports = DiscoverModels
      BY DEF GenerateRegistry
    <3> QED
      BY <1>3, <2>1, <2>2, <2>5, <3>1 DEF RunCheck
  <2>6. CASE readable /\ DiscoverModels # {} /\ registry # GenerateRegistry
    <3>1. verdict # "rewritten"
      BY <2>6
    <3>2. ASSUME registry' = GenerateRegistry
          PROVE  registry' = GenerateRegistry'
      <4>1. registry'.header = SplitHeader(registry.header)
        BY <3>2 DEF GenerateRegistry
      <4>2. GenerateRegistry' = [header |-> SplitHeader(registry'.header), imports |-> DiscoverModels']
        BY DEF GenerateRegistry
      <4>3. SplitHeader(registry'.header) = SplitHeader(registry.header)
        BY <4>1, HeaderSettles
      <4>4. GenerateRegistry' = GenerateRegistry
        BY <2>2, <4>2, <4>3 DEF GenerateRegistry
      <4> QED
        BY <3>2, <4>4
    <3>3. CASE check
      BY <1>3, <2>1, <2>2, <2>6, <3>1, <3>3 DEF RunCheck
    <3>4. CASE ~check
      <4>1. verdict' = "rewritten" /\ registry' = GenerateRegistry /\ firstVerdict' = verdict
        BY <1>3, <2>6, <3>4 DEF RunCheck
      <4> QED
        BY <2>2, <2>1, <2>6, <3>1, <3>2, <4>1
    <3> QED
      BY <3>3, <3>4
  <2> QED
    BY <2>3, <2>4, <2>5, <2>6
<1>4. CASE UNCHANGED registryVars
  BY <1>4 DEF registryVars, RegistryTypeOK, GenerateRegistry, DiscoverModels
<1> QED
  BY <1>1, <1>2, <1>3, <1>4 DEF RegistryNext

\* The hook comes to rest, whatever the models and whatever header the file had:
\* on a complete registry, if it has not cut the docstring of the file.
THEOREM RegistryComesToRest == RegistrySpec => []RegistrySettles
<1>1. RegistryInit => RegistryTypeOK /\ RegistryInvariant
  BY RegistryAssumption DEF RegistryInit, RegistryTypeOK, RegistryInvariant, RegistrySettles,
                            CommittedIsComplete, RewritingSettles, Imported
<1> QED
  BY <1>1, RegistryStep, PTL DEF RegistrySpec, RegistryInvariant

-----------------------------------------------------------------------------
(* The function around a call to commit *)

\* The functions a line is in.
Around(f, call) == {d \in f.defs : d.first <= call.line /\ call.line <= d.last}

\* Among the functions around a line one begins last: their first lines are
\* bounded by the line.
LEMMA LastAround ==
    ASSUME NEW D, D \subseteq Defs, D # {}, NEW n \in Nat, \A d \in D : d.first <= n
    PROVE  \E d \in D : \A e \in D : e.first <= d.first
<1> DEFINE T == {n - d.first : d \in D}
<1>1. \A d \in D : d.first \in Nat
  BY DEF Defs
<1>2. T \subseteq Nat /\ T # {}
  BY <1>1
<1>3. PICK x \in T : \A y \in T : ~ (<<y, x>> \in OpToRel(<, Nat))
  BY <1>2, NatLessThanWellFounded, WFMin
<1>4. \A y \in T : ~ (y < x)
  BY <1>2, <1>3 DEF OpToRel
<1>5. PICK d \in D : x = n - d.first
  BY <1>3
<1>6. ASSUME NEW e \in D PROVE e.first <= d.first
  <2>1. ~ (n - e.first < n - d.first)
    BY <1>4, <1>5
  <2>2. QED
    BY <2>1, <1>1
<1>7. QED
  BY <1>6

\* The function the hook finds is the one that encloses the call: no other
\* function with the call in it lies within it.
LEMMA FoundEncloses ==
    ASSUME NEW f \in PythonFiles, NEW call \in f.calls
    PROVE  FunctionForCall(f, call) \in f.allowed <=> MayCommit(f, call)
<1> DEFINE A == Around(f, call)
<1>1. /\ f.defs \subseteq Defs /\ call.line \in Nat
      /\ f.allowed \subseteq {"get_db_session", "other"}
  BY CommitGuardAssumption DEF CommitCalls
<1>2. A \subseteq Defs /\ \A d \in A : d.first <= call.line /\ d.first \in Nat /\ d.last \in Nat
  BY <1>1 DEF Around, Defs
<1>3. CASE A = {}
  <2>1. FunctionForCall(f, call) = "<module>"
    BY <1>3 DEF FunctionForCall, Around
  <2>2. "<module>" \notin f.allowed
    BY <1>1
  <2>3. ~ MayCommit(f, call)
    BY <1>3 DEF MayCommit, Encloses, Around
  <2>4. QED
    BY <2>1, <2>2, <2>3
<1>4. CASE A # {}
  <2> DEFINE c == CHOOSE d \in A : \A e \in A : e.first <= d.first
  <2>1. c \in A /\ \A e \in A : e.first <= c.first
    <3>1. \E d \in A : \A e \in A : e.first <= d.first
      BY <1>1, <1>2, <1>4, LastAround
    <3>2. QED
      BY <3>1
  <2>2. FunctionForCall(f, call) = c.name
    BY <1>4 DEF FunctionForCall, Around
  <2> HIDE DEF c
  <2>3. Encloses(f, c, call)
    <3>1. SUFFICES ASSUME NEW e \in f.defs \ {c},
                          e.first <= call.line, call.line <= e.last,
                          c.first <= e.first, e.last <= c.last
                   PROVE  FALSE
      BY <2>1 DEF Encloses, Around
    <3>2. e \in A /\ e.first \in Nat /\ c.first \in Nat
      BY <1>2, <2>1, <3>1 DEF Around
    <3>3. e.first = c.first
      BY <2>1, <3>1, <3>2
    <3>4. QED
      BY <3>1, <3>3, <2>1, DefsAssumption DEF Around
  <2>4. ASSUME NEW d \in f.defs, Encloses(f, d, call) PROVE d = c
    <3>1. d \in A
      BY <2>4 DEF Around, Encloses
    <3>2. SUFFICES ASSUME d # c PROVE FALSE
      OBVIOUS
    <3>3. c \in f.defs /\ d \in f.defs /\ d.first # c.first
      BY <2>1, <3>2, DefsAssumption DEF Around
    <3>4. d.first <= c.first /\ d.first < c.first
      BY <2>1, <3>1, <3>3, <1>2
    <3>5. c.last <= d.last
      <4>1. c.last <= d.last \/ d.last < c.first
        BY <3>3, <3>4, DefsAssumption
      <4>2. c.first <= call.line /\ call.line <= d.last
        BY <2>1, <3>1 DEF Around
      <4>3. QED
        BY <4>1, <4>2, <1>1, <1>2, <2>1, <3>1
    <3>6. c.first <= call.line /\ call.line <= c.last
      BY <2>1 DEF Around
    <3>7. QED
      BY <2>4, <3>2, <3>3, <3>4, <3>5, <3>6 DEF Encloses
  <2>5. MayCommit(f, call) <=> c.name \in f.allowed
    BY <2>1, <2>3, <2>4 DEF MayCommit, Around
  <2>6. QED
    BY <2>2, <2>5
<1>5. QED
  BY <1>3, <1>4

\* A file with a call that no function of it may make was never skipped: the
\* queue holds every file the choice demands, what is found comes from a file
\* of the queue, and a parsed file has all its forbidden calls reported.
GuardInv ==
    /\ staged \in [Positions -> PythonFiles]
    /\ grepWorks \in BOOLEAN
    /\ queue \subseteq Positions
    /\ \A p \in queue : InScope(p)
    /\ exit # "choosing" =>
          \A p \in Positions :
             InScope(p) /\ (staged[p].allowed # {} \/ ~grepWorks \/ GrepFinds(staged[p])) => p \in queue
    /\ violations \subseteq UNION {{p} \X ForbiddenCalls(staged[p]) : p \in queue}
    /\ exit \in {"choosing", "running"} =>
          \A p \in parsed : {p} \X ForbiddenCalls(staged[p]) \subseteq violations
    /\ exit = "ok" =>
          /\ violations = {}
          /\ \A p \in queue : ForbiddenCalls(staged[p]) = {}
    /\ exit \in {"choosing", "running", "ok", "error", "usage"}
    /\ exit = "choosing" => violations = {} /\ parsed = {} /\ queue = {}

LEMMA GuardInvIsInductive == GuardInv /\ [GuardNext]_guardVars => GuardInv'
<1> SUFFICES ASSUME GuardInv, [GuardNext]_guardVars PROVE GuardInv'
  OBVIOUS
<1>1. CASE ChooseFiles
  BY <1>1 DEF GuardInv, ChooseFiles, InScope
<1>2. ASSUME NEW p \in Positions, ScanFile(p) PROVE GuardInv'
  <2>1. /\ exit = "running" /\ p \in queue /\ parsed' = parsed \cup {p}
        /\ UNCHANGED <<staged, grepWorks, queue>>
    BY <1>2 DEF ScanFile
  <2> DEFINE F(q) == {q} \X ForbiddenCalls(staged[q])
  <2>2. \A q : (ForbiddenCalls(staged[q]))' = ForbiddenCalls(staged[q])
    BY <2>1 DEF ForbiddenCalls, FunctionForCall
  <2>3. \A q : InScope(q)' = InScope(q)
    BY <2>1 DEF InScope
  <2>4. /\ violations' \subseteq violations \cup F(p)
        /\ exit' \in {"running", "usage"}
        /\ violations \subseteq violations'
    BY <1>2, <2>1 DEF ScanFile
  <2>5. exit' = "running" => F(p) \subseteq violations'
    <3>1. CASE ~ \E call \in staged[p].calls : LooksLikeCommit(call)
      BY <3>1 DEF ForbiddenCalls, LooksLikeCommit
    <3>2. CASE \E call \in staged[p].calls : LooksLikeCommit(call)
      BY <3>2, <1>2, <2>1 DEF ScanFile
    <3>3. QED
      BY <3>1, <3>2
  <2>6. violations' \subseteq UNION {F(q) : q \in queue}
    BY <2>1, <2>4 DEF GuardInv
  <2>7. exit' = "running" => \A q \in parsed' : F(q) \subseteq violations'
    BY <2>1, <2>4, <2>5 DEF GuardInv
  <2>8. /\ staged' \in [Positions -> PythonFiles] /\ grepWorks' \in BOOLEAN
        /\ queue' \subseteq Positions
        /\ (\A q \in queue : InScope(q))'
        /\ (exit # "choosing" =>
             \A q \in Positions :
               InScope(q) /\ (staged[q].allowed # {} \/ ~grepWorks \/ GrepFinds(staged[q])) => q \in queue)'
    BY <2>1, <2>3 DEF GuardInv, InScope
  <2>9. exit' # "ok" /\ exit' # "choosing" /\ exit' \in {"choosing", "running", "ok", "error", "usage"}
    BY <2>4
  <2>10. (violations \subseteq UNION {{q} \X ForbiddenCalls(staged[q]) : q \in queue})'
    BY <2>1, <2>2, <2>6
  <2>11. (exit \in {"choosing", "running"} =>
            \A q \in parsed : {q} \X ForbiddenCalls(staged[q]) \subseteq violations)'
    BY <2>2, <2>7, <2>9
  <2>12. QED
    BY <2>8, <2>9, <2>10, <2>11 DEF GuardInv
<1>3. CASE EndGuard
  <2>1. /\ exit = "running" /\ queue \subseteq parsed
        /\ exit' = IF violations = {} THEN "ok" ELSE "error"
        /\ UNCHANGED <<staged, grepWorks, queue, parsed, violations>>
    BY <1>3 DEF EndGuard
  <2>2. \A q : (ForbiddenCalls(staged[q]))' = ForbiddenCalls(staged[q])
    BY <2>1 DEF ForbiddenCalls, FunctionForCall
  <2>3. ASSUME violations = {}, NEW q \in queue PROVE ForbiddenCalls(staged[q]) = {}
    <3>1. {q} \X ForbiddenCalls(staged[q]) \subseteq violations
      BY <2>1, <2>3 DEF GuardInv
    <3>2. \A c \in ForbiddenCalls(staged[q]) : <<q, c>> \in {q} \X ForbiddenCalls(staged[q])
      OBVIOUS
    <3>3. QED
      BY <3>1, <3>2, <2>3
  <2>4. (exit = "ok" => violations = {} /\ \A q \in queue : ForbiddenCalls(staged[q]) = {})'
    BY <2>1, <2>2, <2>3
  <2>5. (violations \subseteq UNION {{q} \X ForbiddenCalls(staged[q]) : q \in queue})'
    BY <2>1, <2>2 DEF GuardInv
  <2>6. /\ staged' \in [Positions -> PythonFiles] /\ grepWorks' \in BOOLEAN
        /\ queue' \subseteq Positions
        /\ (\A q \in queue : InScope(q))'
        /\ (exit # "choosing" =>
             \A q \in Positions :
               InScope(q) /\ (staged[q].allowed # {} \/ ~grepWorks \/ GrepFinds(staged[q])) => q \in queue)'
    BY <2>1 DEF GuardInv, InScope
  <2>7. exit' \in {"ok", "error"}
    BY <2>1
  <2>8. QED
    BY <2>4, <2>5, <2>6, <2>7 DEF GuardInv
<1>4. CASE UNCHANGED guardVars
  <2>1. UNCHANGED <<staged, grepWorks, queue, parsed, violations, exit>>
    BY <1>4 DEF guardVars
  <2>2. \A q : (ForbiddenCalls(staged[q]))' = ForbiddenCalls(staged[q])
    BY <2>1 DEF ForbiddenCalls, FunctionForCall
  <2>3. QED
    BY <2>1, <2>2 DEF GuardInv, InScope
<1>5. QED
  BY <1>1, <1>2, <1>3, <1>4 DEF GuardNext

\* A commit of a file in scope that the hook has looked at is found forbidden,
\* and what is found forbidden is a commit no enclosing function may make.
LEMMA GuardInvJudges == GuardInv => VerdictIsRight
<1> SUFFICES ASSUME GuardInv PROVE VerdictIsRight
  OBVIOUS
<1>1. NothingSlipsThrough
  <2> SUFFICES ASSUME exit = "ok", NEW p \in Positions, NEW call \in staged[p].calls,
                      InScope(p), call.receiver = "name",
                      ~call.split \/ ~grepWorks \/ staged[p].allowed # {}
               PROVE  MayCommit(staged[p], call)
    BY DEF NothingSlipsThrough
  <2>1. GrepFinds(staged[p]) \/ ~grepWorks \/ staged[p].allowed # {}
    BY DEF GrepFinds, LooksLikeCommit
  <2>2. p \in queue /\ staged[p] \in PythonFiles
    BY <2>1 DEF GuardInv
  <2>3. call \notin ForbiddenCalls(staged[p])
    BY <2>2 DEF GuardInv
  <2>4. QED
    BY <2>2, <2>3, FoundEncloses DEF ForbiddenCalls
<1>2. OnlyCommitsReported
  <2> SUFFICES ASSUME NEW v \in violations
               PROVE  v[2].receiver = "name" /\ ~MayCommit(staged[v[1]], v[2]) /\ InScope(v[1])
    BY DEF OnlyCommitsReported
  <2>1. PICK p \in queue : v \in {p} \X ForbiddenCalls(staged[p])
    BY DEF GuardInv
  <2>2. v[1] = p /\ v[2] \in ForbiddenCalls(staged[p]) /\ staged[p] \in PythonFiles /\ InScope(p)
    BY <2>1 DEF GuardInv
  <2>3. QED
    BY <2>2, FoundEncloses DEF ForbiddenCalls
<1>3. QED
  BY <1>1, <1>2 DEF VerdictIsRight

\* The verdict of the commit hook is right whatever files are staged, however
\* their functions nest, and whether or not grep works.
THEOREM VerdictsAreRight == GuardSpec => []VerdictIsRight
<1>1. GuardInit => GuardInv
  BY DEF GuardInit, GuardInv
<1>2. QED
  BY <1>1, GuardInvIsInductive, GuardInvJudges, PTL DEF GuardSpec

-----------------------------------------------------------------------------
(* The order of the components *)

Increasing(s) == \A i, j \in DOMAIN s : i < j => s[i] < s[j]

Sortable(S) == \E s \in [1..Cardinality(S) -> S] : Increasing(s)

\* The least of some numbers goes before the others.
LEMMA LeastGoesFirst ==
    ASSUME NEW S, S \subseteq Nat, IsFiniteSet(S), NEW x \in S, \A y \in S : x <= y,
           Sortable(S \ {x})
    PROVE  Sortable(S)
<1> DEFINE T == S \ {x}
           n == Cardinality(S)
<1>1. n \in Nat /\ Cardinality(T) = n - 1
  BY FS_CardinalityType, FS_RemoveElement
<1>2. PICK s \in [1..(n - 1) -> T] : Increasing(s)
  BY <1>1 DEF Sortable
<1> HIDE DEF n
<1> DEFINE r == [i \in 1..n |-> IF i = 1 THEN x ELSE s[i - 1]]
<1>3. \A i \in 1..n : i # 1 => i - 1 \in 1..(n - 1)
  BY <1>1
<1>4. r \in [1..n -> S]
  BY <1>2, <1>3
<1>5. \A y \in T : x < y
  OBVIOUS
<1>6. ASSUME NEW i \in 1..n, NEW j \in 1..n, i < j PROVE r[i] < r[j]
  <2>1. j # 1 /\ r[j] = s[j - 1] /\ s[j - 1] \in T
    BY <1>2, <1>3, <1>6
  <2>2. CASE i = 1
    BY <1>5, <2>1, <2>2
  <2>3. CASE i # 1
    <3>1. i - 1 \in 1..(n - 1) /\ j - 1 \in 1..(n - 1) /\ i - 1 < j - 1
      BY <1>3, <1>6, <2>1, <2>3
    <3>2. s[i - 1] < s[j - 1]
      BY <1>2, <3>1 DEF Increasing
    <3>3. QED
      BY <2>1, <2>3, <3>2
  <2>4. QED
    BY <2>2, <2>3
<1>7. Increasing(r)
  BY <1>6 DEF Increasing
<1>8. QED
  BY <1>4, <1>7 DEF Sortable, n

LEMMA AllSortable ==
    ASSUME NEW S, S \subseteq Nat, IsFiniteSet(S)
    PROVE  Sortable(S)
<1> DEFINE B == {n \in Nat : \E T \in SUBSET S : Cardinality(T) = n /\ ~Sortable(T)}
<1>1. \A T \in SUBSET S : IsFiniteSet(T) /\ Cardinality(T) \in Nat
  BY FS_Subset, FS_CardinalityType
<1>2. ASSUME ~Sortable(S) PROVE FALSE
  <2>1. B # {} /\ B \subseteq Nat
    BY <1>1, <1>2
  <2> HIDE DEF B
  <2>2. PICK n \in B : \A m \in B : n <= m
    BY <2>1, LeastExists
  <2>3. PICK T \in SUBSET S : Cardinality(T) = n /\ ~Sortable(T)
    BY <2>2 DEF B
  <2>4. IsFiniteSet(T) /\ T \subseteq Nat
    BY <1>1
  <2>5. T # {}
    <3>1. CASE T = {}
      <4>1. Cardinality(T) = 0
        BY <3>1, FS_EmptySet
      <4>2. <<>> \in [1..0 -> T] /\ Increasing(<<>>)
        BY DEF Increasing
      <4>3. QED
        BY <2>3, <4>1, <4>2 DEF Sortable
    <3>2. QED
      BY <3>1
  <2>6. PICK x \in T : \A y \in T : x <= y
    BY <2>4, <2>5, LeastExists
  <2>7. Cardinality(T \ {x}) = n - 1 /\ n - 1 \in Nat
    <3>1. Cardinality(T \ {x}) = Cardinality(T) - 1
      BY <2>4, FS_RemoveElement
    <3>2. IsFiniteSet(T \ {x})
      BY <2>4, FS_RemoveElement
    <3>3. Cardinality(T \ {x}) \in Nat
      BY <3>2, FS_CardinalityType
    <3>4. QED
      BY <2>3, <3>1, <3>3
  <2>8. n - 1 \notin B
    BY <2>1, <2>2, <2>7
  <2>9. Sortable(T \ {x})
    BY <2>7, <2>8 DEF B
  <2>10. QED
    BY <2>3, <2>4, <2>6, <2>9, LeastGoesFirst
<1>3. QED
  BY <1>2

Distinct(s) == \A i, j \in DOMAIN s : s[i] = s[j] => i = j

\* A set in order has each of its members, once.
LEMMA InOrderIs ==
    ASSUME NEW S, S \subseteq Nat, IsFiniteSet(S)
    PROVE  InOrder(S) \in Seq(S) /\ ToSet(InOrder(S)) = S /\ Distinct(InOrder(S))
<1> DEFINE n == Cardinality(S)
           s == InOrder(S)
<1>1. n \in Nat
  BY FS_CardinalityType
<1>2. s \in [1..n -> S] /\ \A i, j \in DOMAIN s : i < j => s[i] < s[j]
  <2>1. \E r \in [1..n -> S] : \A i, j \in DOMAIN r : i < j => r[i] < r[j]
    BY AllSortable DEF Sortable, Increasing
  <2>2. QED
    BY <2>1 DEF InOrder
<1> HIDE DEF n, s
<1>3. s \in Seq(S)
  BY <1>1, <1>2
<1>4. \A i, j \in 1..n : s[i] = s[j] => i = j
  <2> SUFFICES ASSUME NEW i \in 1..n, NEW j \in 1..n, i # j PROVE s[i] # s[j]
    OBVIOUS
  <2>1. i < j \/ j < i
    BY <1>1
  <2>2. s[i] \in Nat /\ s[j] \in Nat /\ DOMAIN s = 1..n
    BY <1>2
  <2>3. QED
    BY <1>2, <2>1, <2>2
<1>5. s \in Injection(1..n, S)
  BY <1>2, <1>4 DEF Injection, IsInjective
<1>6. IsFiniteSet(1..n) /\ Cardinality(1..n) = n
  BY <1>1, FS_Interval
<1>7. s \in Surjection(1..n, S)
  BY <1>5, <1>6, FS_Injection DEF n
<1>8. \A x \in S : \E i \in 1..n : s[i] = x
  BY <1>7 DEF Surjection
<1>9. ToSet(s) = S
  BY <1>2, <1>8 DEF ToSet
<1>10. Distinct(s)
  BY <1>2, <1>4 DEF Distinct
<1>11. QED
  BY <1>3, <1>9, <1>10 DEF s

LEMMA ComponentsInOrder ==
    ASSUME NEW S, S \subseteq Components
    PROVE  InOrder(S) \in Seq(Components) /\ ToSet(InOrder(S)) = S /\ Distinct(InOrder(S))
<1>1. IsFiniteSet(Components)
  BY CssAssumption, FS_Interval DEF Components
<1>2. IsFiniteSet(S)
  BY <1>1, FS_Subset
<1>3. S \subseteq Nat
  BY CssAssumption DEF Components
<1>4. InOrder(S) \in Seq(S) /\ ToSet(InOrder(S)) = S /\ Distinct(InOrder(S))
  BY <1>2, <1>3, InOrderIs
<1>5. \A s \in Seq(S) : s \in Seq(Components)
  OBVIOUS
<1>6. QED
  BY <1>4, <1>5

LEMMA NothingInOrder == InOrder({}) = <<>>
<1>1. InOrder({}) \in Seq({})
  BY InOrderIs, FS_EmptySet
<1>2. QED
  BY <1>1

-----------------------------------------------------------------------------
(* What a component renders *)

LEMMA ReferencesAreComponents ==
    ASSUME CssTypeOK, NEW c \in Components
    PROVE  refs[c] \in Seq(Components) /\ ToSet(refs[c]) \subseteq Components
<1>1. refs[c] \in Seq(Components)
  BY CssAssumption DEF CssTypeOK
<1>2. QED
  BY <1>1 DEF ToSet

LEMMA ReferencesAreBelow ==
    ASSUME CssTypeOK, NEW c \in Components
    PROVE  ToSet(refs[c]) \subseteq Below(c) /\ Below(c) \subseteq Components
BY ReferencesAreComponents DEF Below

LEMMA BelowGoesOn ==
    ASSUME CssTypeOK, NEW c \in Components, NEW d \in Below(c)
    PROVE  ToSet(refs[d]) \subseteq Below(c) /\ Below(d) \subseteq Below(c)
<1>1. d \in Components
  BY DEF Below
<1>2. ToSet(refs[d]) \subseteq Components
  BY <1>1, ReferencesAreComponents
<1>3. ASSUME NEW S \in SUBSET Components, ToSet(refs[c]) \subseteq S,
             \A e \in S : ToSet(refs[e]) \subseteq S
      PROVE  ToSet(refs[d]) \subseteq S
  BY <1>3 DEF Below
<1>4. ToSet(refs[d]) \subseteq Below(c)
  BY <1>2, <1>3 DEF Below
<1>5. ASSUME NEW x \in Below(d) PROVE x \in Below(c)
  <2>1. x \in Components
    BY DEF Below
  <2>2. ASSUME NEW S \in SUBSET Components, ToSet(refs[c]) \subseteq S,
               \A e \in S : ToSet(refs[e]) \subseteq S
        PROVE  x \in S
    BY <1>3, <2>2 DEF Below
  <2>3. QED
    BY <2>1, <2>2 DEF Below
<1>6. QED
  BY <1>4, <1>5

\* There is nothing below a component but its references and what is below them.
LEMMA BelowIsReached ==
    ASSUME CssTypeOK, NEW c \in Components, NEW x \in Below(c)
    PROVE  x \in ToSet(refs[c]) \/ \E d \in ToSet(refs[c]) : x \in Below(d)
<1> DEFINE S == ToSet(refs[c]) \cup UNION {Below(d) : d \in ToSet(refs[c])}
<1>1. \A d \in ToSet(refs[c]) : d \in Components
  BY ReferencesAreComponents
<1>2. S \in SUBSET Components
  BY <1>1, ReferencesAreBelow
<1>3. ASSUME NEW e \in S PROVE ToSet(refs[e]) \subseteq S
  <2>1. CASE e \in ToSet(refs[c])
    BY <1>1, <2>1, ReferencesAreBelow
  <2>2. CASE \E d \in ToSet(refs[c]) : e \in Below(d)
    BY <1>1, <2>2, BelowGoesOn
  <2>3. QED
    BY <2>1, <2>2
<1>4. x \in S
  BY <1>2, <1>3 DEF Below
<1>5. QED
  BY <1>4

LEMMA BelowStays ==
    ASSUME refs' = refs
    PROVE  (\A c : Below(c)' = Below(c)) /\ Acyclic' = Acyclic
BY DEF Below, Acyclic

LEMMA EmptyList == ToSet(<<>>) = {} /\ \A s \in Seq(Components) : ToSet(s) = {} => s = <<>>
<1>1. ASSUME NEW s \in Seq(Components), s # <<>> PROVE s[1] \in ToSet(s)
  <2>1. 1 \in DOMAIN s
    BY <1>1
  <2>2. QED
    BY <2>1 DEF ToSet
<1>2. QED
  BY <1>1 DEF ToSet

-----------------------------------------------------------------------------
(* The walk finds what is below *)

Sheets(c) == Below(c) \cap Styled

\* The calls found what is below the references that they are through with;
\* the call of a reference is above the one that is waiting for it.
CallIsRight(i) ==
    LET f == stack[i] IN
    /\ ToSet(f.left) \subseteq ToSet(refs[f.component])
    /\ f.found \subseteq Sheets(f.component)
    /\ \A j \in 1..(i - 1) : stack[j].component \in Below(f.component)
    /\ Acyclic => \A d \in ToSet(refs[f.component]) \ ToSet(f.left) :
          /\ d \in Styled => d \in f.found
          /\ (i > 1 /\ d = stack[i - 1].component) \/ Sheets(d) \subseteq f.found

CacheIsRight(c) ==
    cache[c] \subseteq Sheets(c) /\ (Acyclic => Sheets(c) \subseteq cache[c])

DirectiveIsRight(c) ==
    /\ Acyclic /\ (runs # 0 \/ c \notin ToSet(todo)) => Sheets(c) \subseteq SheetsOf(css[c])
    /\ IsPrefix(written[c].own, css[c].own)
    /\ SheetsOf(written[c]) \subseteq SheetsOf(css[c])
    /\ SheetsOf(css[c]) \ SheetsOf(written[c]) \subseteq Sheets(c)

WalkIsRight ==
    /\ stack # <<>> => todo # <<>>
    /\ \A i \in 1..Len(stack) : CallIsRight(i)
    /\ \A c \in DOMAIN cache : CacheIsRight(c)
    /\ \A c \in Components : DirectiveIsRight(c)

LEMMA CallStays ==
    ASSUME refs' = refs, NEW i, CallIsRight(i), \A j \in 1..i : stack'[j] = stack[j], i \in Nat \ {0}
    PROVE  CallIsRight(i)'
<1>1. stack'[i] = stack[i] /\ (\A j \in 1..(i - 1) : stack'[j] = stack[j])
      /\ (i > 1 => stack'[i - 1] = stack[i - 1])
  OBVIOUS
<1>2. QED
  BY <1>1, BelowStays DEF CallIsRight, Sheets

\* A new call, or the end of a run, or the beginning of one.
LEMMA OthersStayRight ==
    ASSUME CssTypeOK, WalkIsRight, refs' = refs, written' = written
    PROVE  /\ cache' = cache => \A c \in DOMAIN cache' : CacheIsRight(c)'
           /\ css' = css /\ ((runs' = runs /\ todo' = todo) \/ todo = <<>>)
                => \A c \in Components : DirectiveIsRight(c)'
<1>1. /\ (\A c : Below(c)' = Below(c)) /\ Acyclic' = Acyclic /\ (\A c : Sheets(c)' = Sheets(c))
  BY BelowStays DEF Sheets
<1>2. cache' = cache => \A c \in DOMAIN cache' : CacheIsRight(c)'
  BY <1>1 DEF WalkIsRight, CacheIsRight
<1>3. ASSUME css' = css, (runs' = runs /\ todo' = todo) \/ todo = <<>>, NEW c \in Components
      PROVE  DirectiveIsRight(c)'
  <2>1. DirectiveIsRight(c)
    BY DEF WalkIsRight
  <2>2. todo = <<>> => c \notin ToSet(todo)
    BY EmptyList
  <2>3. SheetsOf(css[c])' = SheetsOf(css[c]) /\ SheetsOf(written[c])' = SheetsOf(written[c])
    BY <1>3 DEF SheetsOf
  <2>4. QED
    BY <1>1, <1>3, <2>1, <2>2, <2>3 DEF DirectiveIsRight
<1>4. QED
  BY <1>2, <1>3

LEMMA FrameIs ==
    ASSUME CssTypeOK, NEW c \in Components
    PROVE  /\ Frame(c) \in Frames /\ Frame(c).component = c
           /\ Frame(c).left = refs[c] /\ Frame(c).found = {}
BY ReferencesAreComponents DEF Frame, Frames

\* Nothing is wrong with a call that has just begun.
LEMMA NewCallIsRight ==
    ASSUME CssTypeOK, refs' = refs, NEW c \in Components, stack'[1] = Frame(c)
    PROVE  CallIsRight(1)'
<1>1. /\ stack'[1].component = c /\ stack'[1].left = refs[c] /\ stack'[1].found = {}
  BY FrameIs
<1>2. QED
  BY <1>1 DEF CallIsRight

-----------------------------------------------------------------------------
(* The steps *)

\* The call on top goes on to the next of its references, and perhaps to a call
\* for it.
LEMMA VisitIs ==
    ASSUME CssTypeOK, Visit
    PROVE  \E top \in Frames, child \in Components, new \in Frames :
              /\ stack # <<>> /\ top = stack[1] /\ top.left # <<>> /\ child = Head(top.left)
              /\ new.component = top.component /\ new.left = Tail(top.left)
              /\ new.found = top.found \cup ({child} \cap Styled)
                               \cup (IF child \in DOMAIN cache THEN cache[child] ELSE {})
              /\ \/ /\ child \in DOMAIN cache \cup Resolving
                    /\ Len(stack') = Len(stack) /\ stack'[1] = new
                    /\ \A i \in 2..Len(stack) : stack'[i] = stack[i]
                 \/ /\ child \notin DOMAIN cache \cup Resolving
                    /\ Len(stack') = Len(stack) + 1
                    /\ stack'[1] = Frame(child) /\ stack'[2] = new
                    /\ \A i \in 2..Len(stack) : stack'[i + 1] = stack[i]
              /\ stack' \in Seq(Frames)
<1> PICK top : top = Head(stack)
  OBVIOUS
<1> PICK child : child = Head(top.left)
  OBVIOUS
<1> PICK known : known = IF child \in DOMAIN cache THEN cache[child] ELSE {}
  OBVIOUS
<1> PICK new : new = [top EXCEPT !.left = Tail(@),
                                 !.found = @ \cup ({child} \cap Styled) \cup known]
  OBVIOUS
<1>1. stack \in Seq(Frames) /\ stack # <<>> /\ top = stack[1] /\ top \in Frames /\ top.left # <<>>
  BY DEF Visit, CssTypeOK
<1>2. /\ top.left \in Seq(Components) /\ top.found \subseteq Components /\ top.component \in Components
  BY <1>1 DEF Frames
<1>3. child \in Components /\ Tail(top.left) \in Seq(Components)
  BY <1>1, <1>2
<1>4. known \subseteq Components
  BY DEF CssTypeOK
<1>5. new = [component |-> top.component, left |-> Tail(top.left),
             found |-> top.found \cup ({child} \cap Styled) \cup known]
  BY <1>1 DEF Frames
<1>6. new \in Frames /\ new.component = top.component /\ new.left = Tail(top.left)
      /\ new.found = top.found \cup ({child} \cap Styled) \cup known
  BY <1>2, <1>3, <1>4, <1>5 DEF Frames
<1>7. stack' = (IF child \in DOMAIN cache \cup Resolving
                THEN <<>> ELSE <<Frame(child)>>) \o <<new>> \o Tail(stack)
  BY DEF Visit
<1>8. Tail(stack) \in Seq(Frames) /\ Len(Tail(stack)) = Len(stack) - 1 /\ Len(stack) \in Nat
      /\ Len(stack) >= 1 /\ \A i \in 1..(Len(stack) - 1) : Tail(stack)[i] = stack[i + 1]
  BY <1>1
<1> PICK rest \in Seq(Frames) : rest = Tail(stack)
  BY <1>8
<1>9. CASE child \in DOMAIN cache \cup Resolving
  <2>1. stack' = <<new>> \o rest
    BY <1>6, <1>7, <1>9
  <2>2. stack' \in Seq(Frames) /\ Len(stack') = Len(stack) /\ stack'[1] = new
    BY <1>6, <1>8, <2>1
  <2>3. ASSUME NEW i \in 2..Len(stack) PROVE stack'[i] = stack[i]
    <3>1. stack'[i] = rest[i - 1]
      BY <1>6, <1>8, <2>1
    <3>2. i - 1 \in 1..(Len(stack) - 1)
      BY <1>8
    <3>3. QED
      BY <1>8, <3>1, <3>2
  <2>4. QED
    BY <1>1, <1>3, <1>6, <1>9, <2>2, <2>3
<1>10. CASE child \notin DOMAIN cache \cup Resolving
  <2>1. stack' = <<Frame(child), new>> \o rest /\ Frame(child) \in Frames
    BY <1>3, <1>6, <1>7, <1>10, FrameIs
  <2>2. stack' \in Seq(Frames) /\ Len(stack') = Len(stack) + 1
        /\ stack'[1] = Frame(child) /\ stack'[2] = new
    BY <1>6, <1>8, <2>1
  <2>3. ASSUME NEW i \in 2..Len(stack) PROVE stack'[i + 1] = stack[i]
    <3>1. stack'[i + 1] = rest[i - 1]
      BY <1>6, <1>8, <2>1
    <3>2. i - 1 \in 1..(Len(stack) - 1)
      BY <1>8
    <3>3. QED
      BY <1>8, <3>1, <3>2
  <2>4. QED
    BY <1>1, <1>3, <1>6, <1>10, <2>2, <2>3
<1>11. QED
  BY <1>9, <1>10

LEMMA ReturnIs ==
    ASSUME CssTypeOK, Return
    PROVE  \E top \in Frames :
              /\ stack # <<>> /\ top = stack[1] /\ top.left = <<>>
              /\ DOMAIN cache' = DOMAIN cache \cup {top.component}
              /\ cache'[top.component] = top.found
              /\ \A c \in DOMAIN cache \ {top.component} : cache'[c] = cache[c]
              /\ Len(stack') = Len(stack) - 1
              /\ Len(stack) >= 2 =>
                    /\ stack'[1].component = stack[2].component
                    /\ stack'[1].left = stack[2].left
                    /\ stack'[1].found = stack[2].found \cup top.found
              /\ \A i \in 2..(Len(stack) - 1) : stack'[i] = stack[i + 1]
              /\ stack' \in Seq(Frames)
<1> PICK top : top = Head(stack)
  OBVIOUS
<1> PICK calls : calls = Tail(stack)
  OBVIOUS
<1>1. stack \in Seq(Frames) /\ stack # <<>> /\ top = stack[1] /\ top \in Frames /\ top.left = <<>>
      /\ Len(stack) \in Nat /\ Len(stack) >= 1
  BY DEF Return, CssTypeOK
<1>2. calls \in Seq(Frames) /\ Len(calls) = Len(stack) - 1
      /\ \A i \in 1..(Len(stack) - 1) : calls[i] = stack[i + 1]
  BY <1>1
<1>3. cache' = [c \in DOMAIN cache \cup {top.component} |->
                   IF c = top.component THEN top.found ELSE cache[c]]
  BY DEF Return
<1>4. stack' = IF calls = <<>> THEN <<>>
               ELSE <<[Head(calls) EXCEPT !.found = @ \cup top.found]>> \o Tail(calls)
  BY DEF Return
<1>5. CASE calls = <<>>
  <2>1. Len(calls) = 0 /\ stack' = <<>>
    BY <1>4, <1>5
  <2>3. Len(stack) = 1
    BY <1>1, <1>2, <2>1
  <2>4. QED
    BY <1>1, <1>3, <2>1, <2>3
<1>6. CASE calls # <<>>
  <2>1. Len(stack) >= 2 /\ calls[1] = stack[2] /\ stack[2] \in Frames /\ Head(calls) = stack[2]
    BY <1>1, <1>2, <1>6
  <2> PICK new : new = [stack[2] EXCEPT !.found = @ \cup top.found]
    OBVIOUS
  <2>2. /\ new = [component |-> stack[2].component, left |-> stack[2].left,
                  found |-> stack[2].found \cup top.found]
    BY <2>1 DEF Frames
  <2>3. new \in Frames
    BY <1>1, <2>1, <2>2 DEF Frames
  <2>9. Tail(calls) \in Seq(Frames)
    BY <1>2, <1>6
  <2> PICK rest \in Seq(Frames) : rest = Tail(calls)
    BY <2>9
  <2>4. Len(rest) = Len(stack) - 2 /\ \A i \in 1..(Len(stack) - 2) : rest[i] = calls[i + 1]
    BY <1>2, <1>6
  <2>5. stack' = <<new>> \o rest
    BY <1>4, <1>6, <2>1
  <2>6. stack' \in Seq(Frames) /\ Len(stack') = Len(stack) - 1 /\ stack'[1] = new
    BY <1>1, <2>3, <2>4, <2>5
  <2>7. ASSUME NEW i \in 2..(Len(stack) - 1) PROVE stack'[i] = stack[i + 1]
    <3>1. i - 1 \in 1..(Len(stack) - 2) /\ i \in 2..(1 + Len(rest))
      BY <1>1, <2>4
    <3>4. stack'[i] = rest[i - 1]
      BY <2>3, <2>5, <3>1
    <3>2. rest[i - 1] = calls[(i - 1) + 1] /\ (i - 1) + 1 = i /\ i \in 1..(Len(stack) - 1)
      BY <1>1, <2>4, <3>1
    <3>3. QED
      BY <1>2, <3>2, <3>4
  <2>8. QED
    BY <1>1, <1>3, <2>2, <2>6, <2>7
<1>7. QED
  BY <1>5, <1>6

Assets(s, D) == s \o InOrder(D \ ToSet(s))

\* The directive is what it was and then what was missing.
LEMMA AssetsGrow ==
    ASSUME NEW s \in Seq(Components), NEW D, D \subseteq Components
    PROVE  LET r == Assets(s, D) IN
           /\ r \in Seq(Components) /\ ToSet(r) = ToSet(s) \cup D
           /\ \A w \in Seq(Components) : IsPrefix(w, s) => IsPrefix(w, r)
           /\ D \subseteq ToSet(s) => r = s
<1> DEFINE r == Assets(s, D)
<1> PICK m : m = InOrder(D \ ToSet(s))
  OBVIOUS
<1>1. m \in Seq(Components) /\ ToSet(m) = D \ ToSet(s)
  BY ComponentsInOrder
<1>2. r = s \o m
  BY DEF Assets
<1>3. Len(s) \in Nat /\ Len(m) \in Nat
  BY <1>1
<1> PICK a \in Nat, b \in Nat : a = Len(s) /\ b = Len(m)
  BY <1>3
<1>4. /\ Len(r) = a + b /\ r \in Seq(Components)
      /\ DOMAIN r = 1..(a + b) /\ DOMAIN s = 1..a /\ DOMAIN m = 1..b
      /\ \A i \in 1..(a + b) : r[i] = IF i <= a THEN s[i] ELSE m[i - a]
  BY <1>1, <1>2
<1> HIDE DEF r
<1>5. \A i \in 1..a : i \in 1..(a + b) /\ r[i] = s[i]
  BY <1>4
<1>6. ToSet(r) = ToSet(s) \cup ToSet(m)
  <2>1. ToSet(r) \subseteq ToSet(s) \cup ToSet(m)
    <3> SUFFICES ASSUME NEW i \in 1..(a + b) PROVE r[i] \in ToSet(s) \cup ToSet(m)
      BY <1>4 DEF ToSet
    <3>1. CASE i <= a
      BY <1>4, <3>1 DEF ToSet
    <3>2. CASE i > a
      <4>1. i - a \in 1..b
        BY <3>2
      <4>2. r[i] = m[i - a]
        <5>1. ~(i <= a)
          BY <3>2
        <5>2. QED
          BY <1>4, <5>1
      <4>3. QED
        BY <1>4, <4>1, <4>2 DEF ToSet
    <3>3. QED
      BY <3>1, <3>2
  <2>2. ToSet(s) \subseteq ToSet(r)
    BY <1>4, <1>5 DEF ToSet
  <2>3. ASSUME NEW i \in 1..b PROVE m[i] \in ToSet(r)
    <3>1. a + i \in 1..(a + b) /\ ~(a + i <= a) /\ (a + i) - a = i
      OBVIOUS
    <3>2. r[a + i] = m[i]
      BY <1>4, <3>1
    <3>3. QED
      BY <1>4, <3>1, <3>2 DEF ToSet
  <2>4. ToSet(m) \subseteq ToSet(r)
    BY <1>4, <2>3 DEF ToSet
  <2>5. QED
    BY <2>1, <2>2, <2>4
<1>7. ASSUME NEW w \in Seq(Components), IsPrefix(w, s) PROVE IsPrefix(w, r)
  <2>1. Len(w) \in Nat /\ Len(w) <= a /\ SubSeq(w, 1, Len(w)) = SubSeq(s, 1, Len(w))
    BY <1>7 DEF IsPrefix
  <2>2. SubSeq(r, 1, Len(w)) = SubSeq(s, 1, Len(w))
    BY <1>4, <1>5, <2>1
  <2>3. QED
    BY <1>4, <2>1, <2>2 DEF IsPrefix
<1>8. ASSUME D \subseteq ToSet(s) PROVE r = s
  <2>1. D \ ToSet(s) = {}
    BY <1>8
  <2>2. m = <<>>
    BY <2>1, NothingInOrder
  <2>3. b = 0
    BY <2>2
  <2>4. Len(r) = a /\ \A i \in 1..a : r[i] = s[i]
    BY <1>4, <1>5, <2>3
  <2>5. QED
    BY <1>4, <2>4
<1>9. QED
  BY <1>1, <1>4, <1>6, <1>7, <1>8 DEF r

LEMMA TextIs ==
    ASSUME NEW t \in ComponentTexts, NEW D, D \subseteq Components
    PROVE  LET a == Assets(t.own, D)
               u == WithDependencies(t, D)
           IN  /\ a = <<>> => u = t
               /\ a # <<>> /\ t.own # <<>> =>
                     u = [own |-> a, behind |-> t.behind, lineStart |-> t.lineStart, tidy |-> TRUE]
               /\ a # <<>> /\ t.own = <<>> /\ t.lineStart =>
                     u = [own |-> a, behind |-> t.behind, lineStart |-> t.lineStart, tidy |-> t.tidy]
               /\ a # <<>> /\ t.own = <<>> /\ ~t.lineStart =>
                     u = [own |-> t.behind, behind |-> a, lineStart |-> t.lineStart,
                          tidy |-> t.tidy \/ t.behind = <<>>]
               /\ u \in ComponentTexts
<1> DEFINE a == Assets(t.own, D)
<1>1. t.own \in Seq(Components) /\ t.behind \in Seq(Components)
      /\ t.lineStart \in BOOLEAN /\ t.tidy \in BOOLEAN
  BY DEF ComponentTexts
<1>2. a \in Seq(Components)
  BY <1>1, AssetsGrow
<1>3. t = [own |-> t.own, behind |-> t.behind, lineStart |-> t.lineStart, tidy |-> t.tidy]
  BY DEF ComponentTexts
<1>4. WithDependencies(t, D) =
         IF a = <<>> THEN t
         ELSE IF t.own # <<>> THEN [t EXCEPT !.own = a, !.tidy = TRUE]
         ELSE IF t.lineStart THEN [t EXCEPT !.own = a]
         ELSE [t EXCEPT !.own = t.behind, !.behind = a, !.tidy = t.tidy \/ t.behind = <<>>]
  BY DEF WithDependencies, Assets
<1> HIDE DEF a
<1>5. /\ [t EXCEPT !.own = a, !.tidy = TRUE]
            = [own |-> a, behind |-> t.behind, lineStart |-> t.lineStart, tidy |-> TRUE]
      /\ [t EXCEPT !.own = a]
            = [own |-> a, behind |-> t.behind, lineStart |-> t.lineStart, tidy |-> t.tidy]
      /\ [t EXCEPT !.own = t.behind, !.behind = a, !.tidy = t.tidy \/ t.behind = <<>>]
            = [own |-> t.behind, behind |-> a, lineStart |-> t.lineStart,
               tidy |-> t.tidy \/ t.behind = <<>>]
  <2> PICK y \in BOOLEAN : y = (t.tidy \/ t.behind = <<>>)
    BY <1>1
  <2>1. \A r \in ComponentTexts, s \in Seq(Components) :
           [r EXCEPT !.own = s]
             = [own |-> s, behind |-> r.behind, lineStart |-> r.lineStart, tidy |-> r.tidy]
    BY SMTT(30) DEF ComponentTexts
  <2>2. \A r \in ComponentTexts, s \in Seq(Components) :
           [r EXCEPT !.behind = s]
             = [own |-> r.own, behind |-> s, lineStart |-> r.lineStart, tidy |-> r.tidy]
    BY SMTT(30) DEF ComponentTexts
  <2>3. \A r \in ComponentTexts, b \in BOOLEAN :
           [r EXCEPT !.tidy = b]
             = [own |-> r.own, behind |-> r.behind, lineStart |-> r.lineStart, tidy |-> b]
    BY SMTT(30) DEF ComponentTexts
  <2> PICK u, v \in ComponentTexts :
         /\ u = [own |-> a, behind |-> t.behind, lineStart |-> t.lineStart, tidy |-> t.tidy]
         /\ v = [own |-> t.behind, behind |-> t.behind, lineStart |-> t.lineStart, tidy |-> t.tidy]
    BY <1>1, <1>2 DEF ComponentTexts
  <2> PICK w \in ComponentTexts :
         w = [own |-> t.behind, behind |-> a, lineStart |-> t.lineStart, tidy |-> t.tidy]
    BY <1>1, <1>2 DEF ComponentTexts
  <2>4. [t EXCEPT !.own = a] = u /\ [t EXCEPT !.own = t.behind] = v /\ [v EXCEPT !.behind = a] = w
    BY <1>1, <1>2, <2>1, <2>2
  <2>5. [t EXCEPT !.own = a, !.tidy = TRUE] = [[t EXCEPT !.own = a] EXCEPT !.tidy = TRUE]
    OBVIOUS
  <2>6. [t EXCEPT !.own = t.behind, !.behind = a, !.tidy = y]
           = [[[t EXCEPT !.own = t.behind] EXCEPT !.behind = a] EXCEPT !.tidy = y]
    OBVIOUS
  <2>7. /\ [u EXCEPT !.tidy = TRUE]
              = [own |-> u.own, behind |-> u.behind, lineStart |-> u.lineStart, tidy |-> TRUE]
        /\ [w EXCEPT !.tidy = y]
              = [own |-> w.own, behind |-> w.behind, lineStart |-> w.lineStart, tidy |-> y]
    BY <2>3
  <2>8. [t EXCEPT !.own = a, !.tidy = TRUE]
           = [own |-> a, behind |-> t.behind, lineStart |-> t.lineStart, tidy |-> TRUE]
    BY <2>4, <2>5, <2>7
  <2>9. [t EXCEPT !.own = t.behind, !.behind = a, !.tidy = y]
           = [own |-> t.behind, behind |-> a, lineStart |-> t.lineStart, tidy |-> y]
    BY <2>4, <2>6, <2>7
  <2>10. QED
    BY <2>4, <2>8, <2>9
<1>6. WithDependencies(t, D) \in ComponentTexts
  BY <1>1, <1>2, <1>4, <1>5 DEF ComponentTexts
<1>7. QED
  BY <1>4, <1>5, <1>6 DEF a

\* What is listed stays, and the missing is added.
LEMMA TextGrows ==
    ASSUME NEW t \in ComponentTexts, NEW D, D \subseteq Components
    PROVE  LET u == WithDependencies(t, D) IN
           /\ u \in ComponentTexts /\ SheetsOf(u) = SheetsOf(t) \cup D
           /\ \A w \in Seq(Components) : IsPrefix(w, t.own) => IsPrefix(w, u.own)
<1> DEFINE a == Assets(t.own, D)
           u == WithDependencies(t, D)
<1>1. t.own \in Seq(Components) /\ t.behind \in Seq(Components)
  BY DEF ComponentTexts
<1>2. /\ ToSet(a) = ToSet(t.own) \cup D
      /\ \A w \in Seq(Components) : IsPrefix(w, t.own) => IsPrefix(w, a)
  BY <1>1, AssetsGrow
<1>3. /\ a = <<>> => u = t
      /\ a # <<>> /\ (t.own # <<>> \/ t.lineStart) => u.own = a /\ u.behind = t.behind
      /\ a # <<>> /\ t.own = <<>> /\ ~t.lineStart => u.own = t.behind /\ u.behind = a
      /\ u \in ComponentTexts
  BY TextIs
<1> HIDE DEF a, u
<1>4. SheetsOf(u) = SheetsOf(t) \cup D
  BY <1>2, <1>3, EmptyList DEF SheetsOf
<1>5. ASSUME NEW w \in Seq(Components), IsPrefix(w, t.own) PROVE IsPrefix(w, u.own)
  <2>1. CASE a # <<>> /\ t.own = <<>> /\ ~t.lineStart
    <3>1. Len(w) = 0 /\ w = <<>>
      BY <1>5, <2>1 DEF IsPrefix
    <3>2. u.own \in Seq(Components)
      BY <1>1, <1>3, <2>1
    <3>3. QED
      BY <3>1, <3>2 DEF IsPrefix
  <2>2. QED
    BY <1>2, <1>3, <1>5, <2>1
<1>6. QED
  BY <1>3, <1>4, <1>5 DEF u

\* There is nothing to write.
Settled(t, D) ==
    IF t.own = <<>> THEN D = {} ELSE D \subseteq ToSet(t.own) /\ t.tidy

LEMMA SettledStays ==
    ASSUME NEW t \in ComponentTexts, NEW D, D \subseteq Components, Settled(t, D)
    PROVE  WithDependencies(t, D) = t
<1>1. t.own \in Seq(Components)
  BY DEF ComponentTexts
<1>2. Assets(t.own, D) = t.own
  BY <1>1, AssetsGrow, EmptyList DEF Settled
<1>3. t.own # <<>> => t = [own |-> t.own, behind |-> t.behind, lineStart |-> t.lineStart, tidy |-> TRUE]
  BY DEF ComponentTexts, Settled
<1>4. QED
  BY <1>2, <1>3, TextIs

\* A tidy text is settled by the first run.
LEMMA FirstWriteSettles ==
    ASSUME NEW t \in ComponentTexts, NEW D, D \subseteq Components, ~Untidy(t)
    PROVE  Settled(WithDependencies(t, D), D)
<1> DEFINE a == Assets(t.own, D)
           u == WithDependencies(t, D)
<1>1. t.own \in Seq(Components)
  BY DEF ComponentTexts
<1>2. ToSet(a) = ToSet(t.own) \cup D
  BY <1>1, AssetsGrow
<1>3. /\ a = <<>> => u = t
      /\ a # <<>> => u.own = a /\ u.tidy = TRUE
  BY TextIs DEF Untidy, ComponentTexts
<1> HIDE DEF a, u
<1>4. CASE a = <<>>
  <2>1. D = {} /\ t.own = <<>>
    BY <1>1, <1>2, <1>4, EmptyList
  <2>2. QED
    BY <1>3, <1>4, <2>1 DEF Settled, u
<1>5. CASE a # <<>>
  BY <1>2, <1>3, <1>5 DEF Settled, u
<1>6. QED
  BY <1>4, <1>5

\* Any text is settled by the second one.
LEMMA SecondWriteSettles ==
    ASSUME NEW t \in ComponentTexts, NEW D, D \subseteq Components
    PROVE  LET u == WithDependencies(t, D) IN Settled(WithDependencies(u, D), D)
<1> DEFINE a == Assets(t.own, D)
<1> PICK u : u = WithDependencies(t, D)
  OBVIOUS
<1>1. u \in ComponentTexts /\ t.own \in Seq(Components)
  BY TextIs DEF ComponentTexts
<1>2. CASE ~Untidy(u)
  BY <1>1, <1>2, FirstWriteSettles
<1>3. CASE a = <<>>
  <2>1. ToSet(t.own) \cup D = {} /\ u = t
    BY <1>1, <1>3, AssetsGrow, EmptyList, TextIs
  <2>2. Settled(u, D)
    BY <1>1, <2>1, EmptyList DEF Settled
  <2>3. QED
    BY <1>1, <2>2, SettledStays
<1>4. CASE Untidy(u) /\ a # <<>>
  <2>1. t.own = <<>> /\ ~t.lineStart /\ u.own = <<>> /\ ~u.lineStart
        /\ u.behind = a /\ u.tidy = TRUE
    BY <1>4, TextIs DEF Untidy, ComponentTexts
  <2>2. Assets(u.own, D) = a
    BY <2>1
  <2> PICK v : v = WithDependencies(u, D)
    OBVIOUS
  <2>3. v.own = a /\ v.tidy = TRUE
    BY <1>1, <1>4, <2>1, <2>2, TextIs
  <2>4. D \subseteq ToSet(a)
    BY <1>1, AssetsGrow
  <2>5. QED
    BY <1>4, <2>3, <2>4 DEF Settled
<1>5. QED
  BY <1>2, <1>3, <1>4

LEMMA CssTypeStep ==
    ASSUME CssTypeOK, [CssNext]_cssVars
    PROVE  CssTypeOK'
<1>1. CASE ResolveComponent
  <2>1. Head(todo) \in Components
    BY <1>1 DEF ResolveComponent, CssTypeOK
  <2>2. stack' \in Seq(Frames)
    BY <1>1, <2>1, FrameIs DEF ResolveComponent
  <2>3. QED
    BY <1>1, <2>2 DEF ResolveComponent, tree, CssTypeOK
<1>2. CASE Visit
  <2>1. stack' \in Seq(Frames)
    BY <1>2, VisitIs
  <2>2. QED
    BY <1>2, <2>1 DEF Visit, tree, CssTypeOK
<1>3. CASE Return
  <2>1. PICK top \in Frames :
              /\ DOMAIN cache' = DOMAIN cache \cup {top.component}
              /\ cache'[top.component] = top.found
              /\ \A c \in DOMAIN cache \ {top.component} : cache'[c] = cache[c]
              /\ stack' \in Seq(Frames)
    BY <1>3, ReturnIs
  <2>2. top.component \in Components /\ top.found \subseteq Components
    BY DEF Frames
  <2>3. QED
    BY <1>3, <2>1, <2>2 DEF Return, tree, CssTypeOK
<1>4. CASE WriteComponent
  <2> PICK c : c = Head(todo)
    OBVIOUS
  <2>1. c \in Components /\ c \in DOMAIN cache /\ Tail(todo) \in Seq(Components)
    BY <1>4 DEF WriteComponent, CssTypeOK
  <2>2. WithDependencies(css[c], cache[c]) \in ComponentTexts
    BY <2>1, TextGrows DEF CssTypeOK
  <2>3. css' \in [Components -> ComponentTexts] /\ changed' \subseteq Components
    BY <1>4, <2>1, <2>2 DEF WriteComponent, CssTypeOK
  <2>4. QED
    BY <1>4, <2>1, <2>3 DEF WriteComponent, CssTypeOK
<1>5. CASE RunAgain
  <2>1. InOrder(Components) \in Seq(Components)
    BY ComponentsInOrder
  <2>2. DOMAIN cache' = {}
    BY <1>5 DEF RunAgain
  <2>3. QED
    BY <1>5, <2>1, <2>2 DEF RunAgain, tree, CssTypeOK
<1>6. CASE UNCHANGED cssVars
  BY <1>6 DEF cssVars, CssTypeOK
<1>7. QED
  BY <1>1, <1>2, <1>3, <1>4, <1>5, <1>6 DEF CssNext

LEMMA CssStartsTyped == CssInit => CssTypeOK
<1> SUFFICES ASSUME CssInit PROVE CssTypeOK
  OBVIOUS
<1>1. css \in [Components -> ComponentTexts]
  BY CssAssumption DEF CssInit
<1>2. todo \in Seq(Components) /\ DOMAIN cache = {}
  BY ComponentsInOrder DEF CssInit
<1>3. QED
  BY <1>1, <1>2 DEF CssInit, CssTypeOK

-----------------------------------------------------------------------------
(* Every step keeps the walk right *)

LEMMA CallsAreTyped ==
    ASSUME CssTypeOK, NEW i \in 1..Len(stack)
    PROVE  /\ stack[i] \in Frames /\ stack[i].component \in Components
           /\ stack[i].left \in Seq(Components) /\ ToSet(stack[i].left) \subseteq Components
<1>1. stack[i] \in Frames
  BY DEF CssTypeOK
<1>2. stack[i].left \in Seq(Components)
  BY <1>1 DEF Frames
<1>3. QED
  BY <1>1, <1>2 DEF Frames, ToSet

LEMMA TailOf ==
    ASSUME NEW s \in Seq(Components), s # <<>>
    PROVE  Head(s) \in ToSet(s) /\ ToSet(s) = {Head(s)} \cup ToSet(Tail(s))
<1>1. /\ Len(s) \in Nat /\ Len(s) >= 1 /\ Head(s) = s[1] /\ Tail(s) \in Seq(Components)
      /\ Len(Tail(s)) = Len(s) - 1 /\ \A i \in 1..(Len(s) - 1) : Tail(s)[i] = s[i + 1]
  OBVIOUS
<1> PICK n \in Nat, t \in Seq(Components) : n = Len(s) /\ t = Tail(s)
  BY <1>1
<1>2. DOMAIN s = 1..n /\ DOMAIN t = 1..(n - 1) /\ n >= 1
  BY <1>1
<1>3. ASSUME NEW i \in 1..n PROVE s[i] = s[1] \/ s[i] \in ToSet(t)
  <2>1. CASE i # 1
    <3>1. i - 1 \in 1..(n - 1) /\ (i - 1) + 1 = i
      BY <1>2, <2>1
    <3>2. s[i] = t[i - 1]
      BY <1>1, <3>1
    <3>3. QED
      BY <1>2, <3>1, <3>2 DEF ToSet
  <2>2. QED
    BY <2>1
<1>4. ASSUME NEW i \in 1..(n - 1) PROVE t[i] \in ToSet(s)
  <2>1. i + 1 \in 1..n /\ t[i] = s[i + 1]
    BY <1>1, <1>2
  <2>2. QED
    BY <1>2, <2>1 DEF ToSet
<1>5. s[1] \in ToSet(s)
  BY <1>2 DEF ToSet
<1>6. ToSet(s) \subseteq {s[1]} \cup ToSet(t)
  BY <1>2, <1>3 DEF ToSet
<1>7. ToSet(t) \subseteq ToSet(s)
  BY <1>2, <1>4 DEF ToSet
<1>8. QED
  BY <1>1, <1>5, <1>6, <1>7

\* In components that do not render themselves, no reference is to a call
\* under way.
LEMMA NoCallAgain ==
    ASSUME CssTypeOK, WalkIsRight, Acyclic, stack # <<>>,
           NEW d \in ToSet(refs[stack[1].component])
    PROVE  d \notin Resolving
<1>1. Len(stack) \in Nat /\ Len(stack) >= 1 /\ DOMAIN stack = 1..Len(stack)
  BY DEF CssTypeOK
<1>2. stack[1].component \in Components
  BY <1>1, CallsAreTyped
<1>3. ASSUME NEW i \in 1..Len(stack), d = stack[i].component PROVE FALSE
  <2>1. d \in Components
    BY <1>3, CallsAreTyped
  <2>2. CASE i = 1
    BY <1>2, <1>3, <2>2, ReferencesAreBelow DEF Acyclic
  <2>3. CASE i # 1
    <3>1. CallIsRight(i) /\ 1 \in 1..(i - 1)
      BY <1>3, <2>3 DEF WalkIsRight
    <3>2. stack[1].component \in Below(d)
      BY <1>3, <3>1 DEF CallIsRight
    <3>3. d \in Below(d)
      BY <2>1, <3>2, BelowGoesOn
    <3>4. QED
      BY <2>1, <3>3 DEF Acyclic
  <2>4. QED
    BY <2>2, <2>3
<1>4. QED
  BY <1>1, <1>3 DEF Resolving

LEMMA ResolveKeepsRight ==
    ASSUME CssTypeOK, WalkIsRight, ResolveComponent
    PROVE  WalkIsRight'
<1>1. refs' = refs /\ css' = css /\ cache' = cache /\ todo' = todo /\ todo # <<>>
      /\ stack' = <<Frame(Head(todo))>> /\ UNCHANGED <<written, runs>>
  BY DEF ResolveComponent, tree
<1>2. Head(todo) \in Components
  BY <1>1 DEF CssTypeOK
<1>3. Len(stack') = 1 /\ stack'[1] = Frame(Head(todo))
  BY <1>1
<1>4. \A i \in 1..Len(stack') : CallIsRight(i)'
  <2>1. CallIsRight(1)'
    BY <1>1, <1>2, <1>3, NewCallIsRight
  <2>2. \A i \in 1..Len(stack') : i = 1
    BY <1>3
  <2>3. QED
    BY <2>1, <2>2
<1>5. (\A c \in DOMAIN cache' : CacheIsRight(c)') /\ (\A c \in Components : DirectiveIsRight(c)')
  BY <1>1, OthersStayRight
<1>6. QED
  BY <1>1, <1>4, <1>5 DEF WalkIsRight

LEMMA VisitKeepsRight ==
    ASSUME CssTypeOK, WalkIsRight, Visit
    PROVE  WalkIsRight'
<1>1. UNCHANGED <<refs, css, cache, todo, written, runs>> /\ refs' = refs
  BY DEF Visit, tree
<1> PICK top \in Frames, child \in Components, new \in Frames :
              /\ stack # <<>> /\ top = stack[1] /\ top.left # <<>> /\ child = Head(top.left)
              /\ new.component = top.component /\ new.left = Tail(top.left)
              /\ new.found = top.found \cup ({child} \cap Styled)
                               \cup (IF child \in DOMAIN cache THEN cache[child] ELSE {})
              /\ \/ /\ child \in DOMAIN cache \cup Resolving
                    /\ Len(stack') = Len(stack) /\ stack'[1] = new
                    /\ \A i \in 2..Len(stack) : stack'[i] = stack[i]
                 \/ /\ child \notin DOMAIN cache \cup Resolving
                    /\ Len(stack') = Len(stack) + 1
                    /\ stack'[1] = Frame(child) /\ stack'[2] = new
                    /\ \A i \in 2..Len(stack) : stack'[i + 1] = stack[i]
  BY VisitIs
<1> PICK t : t = top.component
  OBVIOUS
<1>2. Len(stack) \in Nat /\ Len(stack) >= 1
  BY DEF CssTypeOK
<1>3. /\ CallIsRight(1) /\ t \in Components /\ top.left \in Seq(Components)
  BY <1>2, CallsAreTyped DEF WalkIsRight
<1>4. /\ child \in ToSet(top.left)
      /\ ToSet(top.left) = {child} \cup ToSet(new.left)
  BY <1>3, TailOf
<1>5. child \in ToSet(refs[t]) /\ child \in Below(t)
  BY <1>3, <1>4, ReferencesAreBelow DEF CallIsRight
<1>6. Sheets(child) \subseteq Sheets(t)
  BY <1>3, <1>5, BelowGoesOn DEF Sheets
<1>7. child \in DOMAIN cache => cache[child] \subseteq Sheets(child)
                                /\ (Acyclic => Sheets(child) \subseteq cache[child])
  BY DEF WalkIsRight, CacheIsRight
\* The call that has gone on, but for the reference it has come to.
<1>8. /\ ToSet(new.left) \subseteq ToSet(refs[t])
      /\ new.found \subseteq Sheets(t)
      /\ \A d \in Styled : d = child => d \in new.found
      /\ Acyclic => \A d \in ToSet(refs[t]) \ ToSet(new.left) :
            d # child => (d \in Styled => d \in new.found) /\ Sheets(d) \subseteq new.found
  <2>1. ToSet(new.left) \subseteq ToSet(refs[t]) /\ top.found \subseteq Sheets(t)
    BY <1>3, <1>4 DEF CallIsRight
  <2>2. new.found \subseteq Sheets(t)
    BY <1>5, <1>6, <1>7, <2>1 DEF Sheets
  <2>3. ASSUME Acyclic, NEW d \in ToSet(refs[t]) \ ToSet(new.left), d # child
        PROVE  (d \in Styled => d \in new.found) /\ Sheets(d) \subseteq new.found
    <3>1. d \in ToSet(refs[t]) \ ToSet(top.left)
      BY <1>4, <2>3
    <3>2. (d \in Styled => d \in top.found) /\ Sheets(d) \subseteq top.found
      BY <1>3, <2>3, <3>1 DEF CallIsRight
    <3>3. QED
      BY <3>2
  <2>4. QED
    BY <2>1, <2>2, <2>3
<1>9. (\A c \in DOMAIN cache' : CacheIsRight(c)') /\ (\A c \in Components : DirectiveIsRight(c)')
  BY <1>1, OthersStayRight
<1>10. /\ (\A c : Below(c)' = Below(c)) /\ Acyclic' = Acyclic /\ (\A c : Sheets(c)' = Sheets(c))
  BY <1>1, BelowStays DEF Sheets
<1>11. CASE child \in DOMAIN cache \cup Resolving
  <2>1. /\ Len(stack') = Len(stack) /\ stack'[1] = new
        /\ \A i \in 2..Len(stack) : stack'[i] = stack[i]
    BY <1>11
  <2>2. \A i \in 1..Len(stack) : stack'[i].component = stack[i].component
    BY <2>1
  <2>3. CallIsRight(1)'
    <3>1. Acyclic => Sheets(child) \subseteq new.found
      <4> SUFFICES ASSUME Acyclic PROVE Sheets(child) \subseteq new.found
        OBVIOUS
      <4>1. child \notin Resolving
        BY <1>5, NoCallAgain
      <4>2. QED
        BY <1>7, <1>11, <4>1
    <3>2. QED
      BY <1>1, <1>8, <1>10, <2>1, <3>1 DEF CallIsRight
  <2>4. ASSUME NEW i \in 2..Len(stack) PROVE CallIsRight(i)'
    <3>1. CallIsRight(i)
      BY <1>2, <2>4 DEF WalkIsRight
    <3>2. stack'[i] = stack[i] /\ i - 1 \in 1..Len(stack) /\ 1..(i - 1) \subseteq 1..Len(stack)
      BY <1>2, <2>1
    <3>3. QED
      BY <1>1, <1>10, <2>2, <3>1, <3>2 DEF CallIsRight
  <2>5. \A i \in 1..Len(stack') : i = 1 \/ i \in 2..Len(stack)
    BY <1>2, <2>1
  <2>6. \A i \in 1..Len(stack') : CallIsRight(i)'
    BY <2>3, <2>4, <2>5
  <2>7. QED
    BY <1>1, <1>9, <2>6 DEF WalkIsRight
<1>12. CASE child \notin DOMAIN cache \cup Resolving
  <2>1. /\ Len(stack') = Len(stack) + 1
        /\ stack'[1] = Frame(child) /\ stack'[2] = new
        /\ \A i \in 2..Len(stack) : stack'[i + 1] = stack[i]
    BY <1>12
  <2>2. /\ \A i \in 1..Len(stack) : stack'[i + 1].component = stack[i].component
        /\ stack'[1].component = child
    <3>1. stack'[1 + 1].component = stack[1].component
      BY <2>1
    <3>2. \A i \in 1..Len(stack) : i = 1 \/ i \in 2..Len(stack)
      BY <1>2
    <3>3. QED
      BY <2>1, <3>1, <3>2, FrameIs
  <2>3. CallIsRight(1)'
    BY <1>1, <2>1, NewCallIsRight
  <2>4. CallIsRight(2)'
    <3>1. \A j \in 1..(2 - 1) : j = 1
      OBVIOUS
    <3>2. QED
      BY <1>1, <1>5, <1>8, <1>10, <2>1, <2>2, <3>1 DEF CallIsRight
  <2>5. ASSUME NEW i \in 2..Len(stack) PROVE CallIsRight(i + 1)'
    <3>1. CallIsRight(i)
      BY <1>2, <2>5 DEF WalkIsRight
    <3>2. stack'[i + 1] = stack[i] /\ stack[i].component \in Components
      BY <2>1, CallsAreTyped
    <3>3. \A j \in 1..((i + 1) - 1) : stack'[j].component \in Below(stack[i].component)
      <4>1. \A j \in 1..(i - 1) : stack'[j + 1].component \in Below(stack[i].component)
        <5> SUFFICES ASSUME NEW j \in 1..(i - 1)
                     PROVE  stack'[j + 1].component \in Below(stack[i].component)
          OBVIOUS
        <5>1. j \in 1..Len(stack)
          BY <1>2
        <5>2. QED
          BY <2>2, <3>1, <5>1 DEF CallIsRight
      <4>2. child \in Below(stack[i].component)
        <5>1. t \in Below(stack[i].component)
          BY <3>1, <2>5 DEF CallIsRight
        <5>2. QED
          BY <1>5, <3>2, <5>1, BelowGoesOn
      <4>3. \A j \in 1..((i + 1) - 1) : j = 1 \/ (j - 1 \in 1..(i - 1) /\ (j - 1) + 1 = j)
        OBVIOUS
      <4>4. QED
        BY <2>2, <4>1, <4>2, <4>3
    <3>4. stack'[(i + 1) - 1].component = stack[i - 1].component
      <4>1. i - 1 \in 1..Len(stack) /\ (i - 1) + 1 = (i + 1) - 1
        BY <1>2
      <4>2. QED
        BY <2>2, <4>1
    <3>5. QED
      BY <1>1, <1>10, <3>1, <3>2, <3>3, <3>4 DEF CallIsRight
  <2>6. ASSUME NEW i \in 1..Len(stack') PROVE CallIsRight(i)'
    <3>1. CASE i > 2
      <4>1. i - 1 \in 2..Len(stack) /\ (i - 1) + 1 = i
        BY <1>2, <2>1, <3>1
      <4>2. CallIsRight((i - 1) + 1)'
        BY <2>5, <4>1
      <4>3. QED
        BY <4>1, <4>2
    <3>2. i = 1 \/ i = 2 \/ i > 2
      OBVIOUS
    <3>3. QED
      BY <2>3, <2>4, <3>1, <3>2
  <2>7. QED
    BY <1>1, <1>9, <2>6 DEF WalkIsRight
<1>13. QED
  BY <1>11, <1>12

LEMMA ReturnKeepsRight ==
    ASSUME CssTypeOK, WalkIsRight, Return
    PROVE  WalkIsRight'
<1>1. UNCHANGED <<refs, css, todo, written, runs>> /\ refs' = refs
  BY DEF Return, tree
<1> PICK top \in Frames :
              /\ stack # <<>> /\ top = stack[1] /\ top.left = <<>>
              /\ DOMAIN cache' = DOMAIN cache \cup {top.component}
              /\ cache'[top.component] = top.found
              /\ \A c \in DOMAIN cache \ {top.component} : cache'[c] = cache[c]
              /\ Len(stack') = Len(stack) - 1
              /\ Len(stack) >= 2 =>
                    /\ stack'[1].component = stack[2].component
                    /\ stack'[1].left = stack[2].left
                    /\ stack'[1].found = stack[2].found \cup top.found
              /\ \A i \in 2..(Len(stack) - 1) : stack'[i] = stack[i + 1]
  BY ReturnIs
<1> PICK t : t = top.component
  OBVIOUS
<1> PICK n \in Nat : n = Len(stack) /\ n >= 1
  BY DEF CssTypeOK
<1>2. CallIsRight(1) /\ t \in Components /\ ToSet(top.left) = {}
  BY CallsAreTyped DEF WalkIsRight, ToSet
<1>3. top.found \subseteq Sheets(t) /\ (Acyclic => Sheets(t) \subseteq top.found)
  <2>1. ASSUME Acyclic, NEW x \in Sheets(t) PROVE x \in top.found
    <3>1. \A d \in ToSet(refs[t]) : (d \in Styled => d \in top.found) /\ Sheets(d) \subseteq top.found
      BY <1>2, <2>1 DEF CallIsRight
    <3>2. x \in ToSet(refs[t]) \/ \E d \in ToSet(refs[t]) : x \in Below(d)
      BY <1>2, BelowIsReached DEF Sheets
    <3>3. QED
      BY <3>1, <3>2 DEF Sheets
  <2>2. QED
    BY <1>2, <2>1 DEF CallIsRight
<1>4. /\ (\A c : Below(c)' = Below(c)) /\ Acyclic' = Acyclic /\ (\A c : Sheets(c)' = Sheets(c))
  BY <1>1, BelowStays DEF Sheets
<1>5. \A c \in DOMAIN cache' : CacheIsRight(c)'
  BY <1>3, <1>4 DEF WalkIsRight, CacheIsRight
<1>6. \A c \in Components : DirectiveIsRight(c)'
  BY <1>1, OthersStayRight
<1>7. \A i \in 1..(n - 1) : stack'[i].component = stack[i + 1].component
  <2>1. \A i \in 1..(n - 1) : (i = 1 /\ n >= 2 /\ i + 1 = 2) \/ i \in 2..(n - 1)
    OBVIOUS
  <2>2. QED
    BY <2>1
<1>8. ASSUME n >= 2 PROVE CallIsRight(1)'
  <2>1. CallIsRight(2) /\ stack[2].component \in Components /\ 2 - 1 = 1 /\ 1 \in 1..(2 - 1)
    BY <1>8, CallsAreTyped DEF WalkIsRight
  <2>2. t \in Below(stack[2].component)
    BY <2>1 DEF CallIsRight
  <2>3. Sheets(t) \subseteq Sheets(stack[2].component)
    BY <2>1, <2>2, BelowGoesOn DEF Sheets
  <2>4. /\ stack'[1].component = stack[2].component
        /\ stack'[1].left = stack[2].left
        /\ stack'[1].found = stack[2].found \cup top.found
    BY <1>8
  <2>5. Acyclic => \A d \in ToSet(refs[stack[2].component]) \ ToSet(stack[2].left) :
          /\ d \in Styled => d \in stack[2].found
          /\ d = t \/ Sheets(d) \subseteq stack[2].found
    BY <2>1 DEF CallIsRight
  <2>6. Acyclic => \A d \in ToSet(refs[stack[2].component]) \ ToSet(stack[2].left) :
          /\ d \in Styled => d \in stack[2].found \cup top.found
          /\ Sheets(d) \subseteq stack[2].found \cup top.found
    BY <1>3, <2>5
  <2>7. ToSet(stack[2].left) \subseteq ToSet(refs[stack[2].component])
        /\ stack[2].found \subseteq Sheets(stack[2].component)
    BY <2>1 DEF CallIsRight
  <2>8. QED
    BY <1>1, <1>3, <1>4, <2>3, <2>4, <2>6, <2>7 DEF CallIsRight
<1>9. ASSUME NEW i \in 2..(n - 1) PROVE CallIsRight(i)'
  <2>1. CallIsRight(i + 1) /\ stack'[i] = stack[i + 1]
    BY DEF WalkIsRight
  <2>2. ASSUME NEW j \in 1..(i - 1) PROVE stack'[j].component \in Below(stack[i + 1].component)
    <3>1. j \in 1..(n - 1) /\ j + 1 \in 1..((i + 1) - 1)
      OBVIOUS
    <3>2. QED
      BY <1>7, <2>1, <3>1 DEF CallIsRight
  <2>3. stack'[i - 1].component = stack[(i + 1) - 1].component
    <3>1. i - 1 \in 1..(n - 1) /\ (i - 1) + 1 = (i + 1) - 1
      OBVIOUS
    <3>2. QED
      BY <1>7, <3>1
  <2>4. i > 1
    OBVIOUS
  <2>5. QED
    BY <1>1, <1>4, <2>1, <2>2, <2>3, <2>4 DEF CallIsRight
<1>10. ASSUME NEW i \in 1..Len(stack') PROVE CallIsRight(i)'
  <2>1. (i = 1 /\ n >= 2) \/ i \in 2..(n - 1)
    OBVIOUS
  <2>2. QED
    BY <1>8, <1>9, <2>1
<1>11. todo' # <<>>
  BY <1>1 DEF WalkIsRight
<1>12. QED
  BY <1>5, <1>6, <1>10, <1>11 DEF WalkIsRight

LEMMA WriteKeepsRight ==
    ASSUME CssTypeOK, WalkIsRight, WriteComponent
    PROVE  WalkIsRight'
<1> PICK c : c = Head(todo)
  OBVIOUS
<1> PICK updated : updated = WithDependencies(css[c], cache[c])
  OBVIOUS
<1>1. /\ todo # <<>> /\ stack = <<>> /\ c \in DOMAIN cache
      /\ css' = [css EXCEPT ![c] = updated]
      /\ todo' = Tail(todo) /\ UNCHANGED <<refs, written, cache, stack, runs>>
  BY DEF WriteComponent
<1>2. c \in Components /\ ToSet(todo) = {c} \cup ToSet(Tail(todo))
  BY <1>1, TailOf DEF CssTypeOK
<1>3. css[c] \in ComponentTexts /\ cache[c] \subseteq Components
      /\ written[c].own \in Seq(Components)
  BY <1>1, <1>2, CssAssumption DEF CssTypeOK, ComponentTexts
<1>4. /\ SheetsOf(updated) = SheetsOf(css[c]) \cup cache[c]
      /\ IsPrefix(written[c].own, css[c].own) => IsPrefix(written[c].own, updated.own)
  BY <1>3, TextGrows
<1>5. /\ css'[c] = updated /\ \A d \in Components \ {c} : css'[d] = css[d]
  BY <1>1, <1>2 DEF CssTypeOK
<1>6. /\ (\A d : Below(d)' = Below(d)) /\ Acyclic' = Acyclic /\ (\A d : Sheets(d)' = Sheets(d))
  BY <1>1, BelowStays DEF Sheets
<1>7. cache[c] \subseteq Sheets(c) /\ (Acyclic => Sheets(c) \subseteq cache[c])
  BY <1>1 DEF WalkIsRight, CacheIsRight
<1>8. \A d : SheetsOf(written[d])' = SheetsOf(written[d]) /\ SheetsOf(css[d])' = SheetsOf(css'[d])
  BY <1>1 DEF SheetsOf
<1>9. DirectiveIsRight(c)'
  <2>1. DirectiveIsRight(c)
    BY <1>2 DEF WalkIsRight
  <2>2. QED
    BY <1>1, <1>4, <1>5, <1>6, <1>7, <1>8, <2>1 DEF DirectiveIsRight
<1>10. ASSUME NEW d \in Components \ {c} PROVE DirectiveIsRight(d)'
  <2>1. DirectiveIsRight(d)
    BY DEF WalkIsRight
  <2>2. d \notin ToSet(todo') => d \notin ToSet(todo)
    BY <1>1, <1>2
  <2>3. QED
    BY <1>1, <1>5, <1>6, <1>8, <2>1, <2>2 DEF DirectiveIsRight
<1>11. \A d \in DOMAIN cache' : CacheIsRight(d)'
  BY <1>1, <1>6 DEF WalkIsRight, CacheIsRight
<1>12. stack' = <<>> /\ Len(stack') = 0
  BY <1>1
<1>13. QED
  BY <1>9, <1>10, <1>11, <1>12 DEF WalkIsRight

LEMMA RunAgainKeepsRight ==
    ASSUME CssTypeOK, WalkIsRight, RunAgain
    PROVE  WalkIsRight'
<1>1. /\ todo = <<>> /\ stack = <<>> /\ UNCHANGED <<refs, written, css, stack>>
      /\ DOMAIN cache' = {} /\ todo' = InOrder(Components)
  BY DEF RunAgain, tree, WalkIsRight
<1>2. stack' = <<>> /\ Len(stack') = 0
  BY <1>1
<1>3. \A c \in Components : DirectiveIsRight(c)'
  BY <1>1, OthersStayRight
<1>4. QED
  BY <1>1, <1>2, <1>3 DEF WalkIsRight

LEMMA WalkStaysRight ==
    ASSUME CssTypeOK, WalkIsRight, [CssNext]_cssVars
    PROVE  WalkIsRight'
<1>1. CASE UNCHANGED cssVars
  <2>1. UNCHANGED <<refs, css, cache, stack, todo, written, runs>>
    BY <1>1 DEF cssVars
  <2>2. ASSUME NEW i \in 1..Len(stack) PROVE CallIsRight(i)'
    BY <2>1, CallStays DEF WalkIsRight
  <2>3. (\A c \in DOMAIN cache' : CacheIsRight(c)') /\ (\A c \in Components : DirectiveIsRight(c)')
    BY <2>1, OthersStayRight
  <2>4. QED
    BY <2>1, <2>2, <2>3 DEF WalkIsRight
<1>2. QED
  BY <1>1, ResolveKeepsRight, VisitKeepsRight, ReturnKeepsRight, WriteKeepsRight,
     RunAgainKeepsRight DEF CssNext

LEMMA WalkStartsRight == CssInit => WalkIsRight
<1> SUFFICES ASSUME CssInit PROVE WalkIsRight
  OBVIOUS
<1>1. CssTypeOK
  BY CssStartsTyped
<1>2. stack = <<>> /\ Len(stack) = 0 /\ DOMAIN cache = {}
  BY DEF CssInit
<1>3. ASSUME NEW c \in Components PROVE DirectiveIsRight(c)
  <2>1. c \in ToSet(todo)
    BY ComponentsInOrder DEF CssInit
  <2>2. css[c] = written[c] /\ css[c].own \in Seq(Components) /\ runs = 0
    BY CssAssumption DEF CssInit, ComponentTexts
  <2>3. IsPrefix(css[c].own, css[c].own)
    BY <2>2 DEF IsPrefix
  <2>4. QED
    BY <2>1, <2>2, <2>3 DEF DirectiveIsRight
<1>4. QED
  BY <1>2, <1>3 DEF WalkIsRight

-----------------------------------------------------------------------------
(* Every run repeats the first *)

Now == [cache |-> cache, stack |-> stack, todo |-> todo]

Beginning == [cache |-> <<>>, stack |-> <<>>, todo |-> InOrder(Components)]

\* What the walk comes to after x; the directives have no part in it.
Follows(x) ==
    LET c == Head(x.todo)
        top == Head(x.stack)
        child == Head(top.left)
        known == IF child \in DOMAIN x.cache THEN x.cache[child] ELSE {}
        next == [top EXCEPT !.left = Tail(@),
                            !.found = @ \cup ({child} \cap Styled) \cup known]
        calls == Tail(x.stack)
    IN
    IF x.stack = <<>>
    THEN IF c \in DOMAIN x.cache
         THEN [cache |-> x.cache, stack |-> x.stack, todo |-> Tail(x.todo)]
         ELSE [cache |-> x.cache, stack |-> <<Frame(c)>>, todo |-> x.todo]
    ELSE IF top.left # <<>>
    THEN [cache |-> x.cache, todo |-> x.todo,
          stack |-> (IF child \in DOMAIN x.cache \cup {x.stack[i].component : i \in DOMAIN x.stack}
                     THEN <<>> ELSE <<Frame(child)>>) \o <<next>> \o Tail(x.stack)]
    ELSE [cache |-> [d \in DOMAIN x.cache \cup {top.component} |->
                        IF d = top.component THEN top.found ELSE x.cache[d]],
          stack |-> IF calls = <<>> THEN <<>>
                    ELSE <<[Head(calls) EXCEPT !.found = @ \cup top.found]>> \o Tail(calls),
          todo |-> x.todo]

LEMMA StepFollows ==
    ASSUME ResolveComponent \/ Visit \/ Return \/ WriteComponent
    PROVE  Now' = Follows(Now) /\ refs' = refs /\ runs' = runs
<1>1. CASE ResolveComponent
  BY <1>1 DEF ResolveComponent, Now, Follows, tree
<1>2. CASE Visit
  BY <1>2 DEF Visit, Now, Follows, tree, Resolving
<1>3. CASE Return
  BY <1>3 DEF Return, Now, Follows, tree
<1>4. CASE WriteComponent
  BY <1>4 DEF WriteComponent, Now, Follows
<1>5. QED
  BY <1>1, <1>2, <1>3, <1>4

LEMMA FollowsStays ==
    ASSUME refs' = refs, NEW x
    PROVE  Follows(x)' = Follows(x)
BY DEF Follows, Frame

WritesFrom(x) == x.stack = <<>> /\ Head(x.todo) \in DOMAIN x.cache \cap Components

\* h has the states of the first run, n of them, which writes each component
\* with its dependencies deps.
FirstRun(h, n, deps) ==
    /\ n \in Nat \ {0} /\ h[1] = Beginning
    /\ \A k \in 1..(n - 1) :
          /\ h[k + 1] = Follows(h[k])
          /\ WritesFrom(h[k]) => h[k].cache[Head(h[k].todo)] = deps[Head(h[k].todo)]

Repeats(h, n, deps) ==
    /\ FirstRun(h, n, deps) /\ deps \in [Components -> SUBSET Components]
    /\ IF runs = 0
       THEN h[n] = Now /\ \A k \in 1..(n - 1) : WritesFrom(h[k]) => Head(h[k].todo) \notin ToSet(todo)
       ELSE h[n].todo = <<>> /\ \E k \in 1..n : h[k] = Now

\* A text that was written n times.
Rewritten(t, D, n) ==
    CASE n = 0 -> t [] n = 1 -> WithDependencies(t, D)
      [] OTHER -> WithDependencies(WithDependencies(t, D), D)

Times(c) == runs + (IF c \in ToSet(todo) THEN 0 ELSE 1)

TextsAre(deps) == \A c \in Components : css[c] = Rewritten(written[c], deps[c], Times(c))

RunsRepeat ==
    /\ Distinct(todo)
    /\ RunsSettle
    /\ \E n, h, deps : Repeats(h, n, deps) /\ TextsAre(deps)

\* What the next writing of a text does.
LEMMA NextWriting ==
    ASSUME NEW t \in ComponentTexts, NEW D, D \subseteq Components, NEW n \in 0..2
    PROVE  /\ WithDependencies(Rewritten(t, D, n), D) = Rewritten(t, D, n + 1)
           /\ n = 1 /\ ~Untidy(t) => Rewritten(t, D, n + 1) = Rewritten(t, D, n)
           /\ n = 2 => Rewritten(t, D, n + 1) = Rewritten(t, D, n)
<1> PICK u : u = WithDependencies(t, D)
  OBVIOUS
<1> PICK v : v = WithDependencies(u, D)
  OBVIOUS
<1>1. u \in ComponentTexts /\ v \in ComponentTexts
  BY TextGrows
<1>2. WithDependencies(v, D) = v
  <2>1. Settled(v, D)
    BY SecondWriteSettles
  <2>2. QED
    BY <1>1, <2>1, SettledStays
<1>3. ~Untidy(t) => v = u
  <2>1. ~Untidy(t) => Settled(u, D)
    BY FirstWriteSettles
  <2>2. QED
    BY <1>1, <2>1, SettledStays
<1>4. n = 0 \/ n = 1 \/ n = 2
  OBVIOUS
<1>5. Rewritten(t, D, 0) = t /\ Rewritten(t, D, 1) = u
      /\ Rewritten(t, D, 2) = v /\ Rewritten(t, D, 3) = v
  BY DEF Rewritten
<1>6. CASE n = 0
  BY <1>5, <1>6
<1>7. CASE n = 1
  BY <1>3, <1>5, <1>7
<1>8. CASE n = 2
  BY <1>2, <1>5, <1>8
<1>9. QED
  BY <1>4, <1>6, <1>7, <1>8

LEMMA TailDistinct ==
    ASSUME NEW s \in Seq(Components), s # <<>>, Distinct(s)
    PROVE  Distinct(Tail(s)) /\ Head(s) \notin ToSet(Tail(s))
<1>1. /\ Len(s) \in Nat /\ Len(s) >= 1 /\ Head(s) = s[1] /\ Tail(s) \in Seq(Components)
      /\ Len(Tail(s)) = Len(s) - 1 /\ \A i \in 1..(Len(s) - 1) : Tail(s)[i] = s[i + 1]
  OBVIOUS
<1> PICK n \in Nat, t \in Seq(Components) : n = Len(s) /\ t = Tail(s)
  BY <1>1
<1>2. DOMAIN s = 1..n /\ DOMAIN t = 1..(n - 1) /\ n >= 1
  BY <1>1
<1>3. ASSUME NEW i \in 1..(n - 1) PROVE t[i] = s[i + 1] /\ i + 1 \in 1..n /\ 1 \in 1..n /\ i + 1 # 1
  BY <1>1, <1>2
<1>4. Distinct(t)
  <2> SUFFICES ASSUME NEW i \in 1..(n - 1), NEW j \in 1..(n - 1), t[i] = t[j] PROVE i = j
    BY <1>2 DEF Distinct
  <2>1. s[i + 1] = s[j + 1] /\ i + 1 \in 1..n /\ j + 1 \in 1..n
    BY <1>3
  <2>2. i + 1 = j + 1
    BY <1>2, <2>1 DEF Distinct
  <2>3. QED
    BY <2>2
<1>5. s[1] \notin ToSet(t)
  <2> SUFFICES ASSUME NEW i \in 1..(n - 1), t[i] = s[1] PROVE FALSE
    BY <1>2 DEF ToSet
  <2>1. s[i + 1] = s[1] /\ i + 1 \in 1..n /\ 1 \in 1..n
    BY <1>3
  <2>2. i + 1 = 1
    BY <1>2, <2>1 DEF Distinct
  <2>3. QED
    BY <2>2
<1>6. QED
  BY <1>1, <1>4, <1>5

LEMMA FirstRunStays ==
    ASSUME refs' = refs, NEW n, NEW h, NEW deps, FirstRun(h, n, deps)
    PROVE  FirstRun(h, n, deps)'
<1>1. ASSUME NEW k \in 1..(n - 1) PROVE h[k + 1] = Follows(h[k])'
  <2> PICK x : x = h[k]
    OBVIOUS
  <2>1. h[k + 1] = Follows(x)
    BY DEF FirstRun
  <2>2. Follows(x)' = Follows(x)
    BY FollowsStays
  <2>3. QED
    BY <2>1, <2>2
<1>2. Beginning' = Beginning
  BY DEF Beginning, Components, InOrder
<1>3. QED
  BY <1>1, <1>2 DEF FirstRun, WritesFrom

\* The first run goes on, and more (or the same) is known of the dependencies.
LEMMA FirstRunGoesOn ==
    ASSUME ResolveComponent \/ Visit \/ Return \/ WriteComponent,
           runs = 0, NEW n, NEW h, NEW deps, Repeats(h, n, deps),
           NEW new \in [Components -> SUBSET Components],
           \A k \in 1..(n - 1) : WritesFrom(h[k]) => new[Head(h[k].todo)] = deps[Head(h[k].todo)],
           WritesFrom(Now) => new[Head(todo)] = cache[Head(todo)] /\ Head(todo) \notin ToSet(todo'),
           ToSet(todo') \subseteq ToSet(todo)
    PROVE  \E g : Repeats(g, n + 1, new)'
<1>1. refs' = refs /\ runs' = 0 /\ Now' = Follows(h[n]) /\ h[n] = Now
  BY StepFollows DEF Repeats
<1>2. FirstRun(h, n, deps)' /\ FirstRun(h, n, deps) /\ n \in Nat \ {0}
  <2>1. FirstRun(h, n, deps)
    BY DEF Repeats
  <2>2. FirstRun(h, n, deps)'
    BY <1>1, <2>1, FirstRunStays
  <2>3. n \in Nat \ {0}
    BY <2>1 DEF FirstRun
  <2>4. QED
    BY <2>1, <2>2, <2>3
<1> PICK y : y = Follows(h[n])
  OBVIOUS
<1> PICK g : g = [k \in 1..(n + 1) |-> IF k = n + 1 THEN y ELSE h[k]]
  OBVIOUS
<1>3. /\ g[n + 1] = y /\ \A k \in 1..n : g[k] = h[k]
  BY <1>2
<1>4. g[1] = Beginning'
  BY <1>2, <1>3 DEF FirstRun
<1> PICK now : now = Now
  OBVIOUS
<1>5. now.todo = todo /\ now.cache = cache /\ h[n] = now
  BY <1>1 DEF Now
<1>6. ASSUME NEW k \in 1..n
      PROVE  /\ g[k + 1] = Follows(g[k])'
             /\ WritesFrom(g[k]) => /\ g[k].cache[Head(g[k].todo)] = new[Head(g[k].todo)]
                                /\ Head(g[k].todo) \notin ToSet(todo')
  <2>1. g[k] = h[k]
    BY <1>3
  <2> PICK x : x = h[k]
    OBVIOUS
  <2>2. Follows(x)' = Follows(x)
    BY <1>1, FollowsStays
  <2>3. CASE k = n
    BY <1>3, <1>5, <2>1, <2>2, <2>3
  <2>4. CASE k # n
    <3>1. k \in 1..(n - 1) /\ k + 1 \in 1..n
      BY <1>2, <2>4
    <3>2. h[k + 1] = Follows(h[k])'
      BY <1>2, <3>1 DEF FirstRun
    <3>3. WritesFrom(h[k]) => h[k].cache[Head(h[k].todo)] = deps[Head(h[k].todo)]
                          /\ Head(h[k].todo) \notin ToSet(todo)
      BY <1>2, <3>1 DEF FirstRun, Repeats
    <3>4. QED
      BY <1>3, <2>1, <3>1, <3>2, <3>3
  <2>5. QED
    BY <2>3, <2>4
<1>7. n + 1 \in Nat \ {0} /\ (n + 1) - 1 = n
  BY <1>2
<1>8. FirstRun(g, n + 1, new)'
  BY <1>4, <1>6, <1>7 DEF FirstRun, WritesFrom
<1>9. g[n + 1] = Now'
  BY <1>1, <1>3
<1>10. new \in [Components -> SUBSET Components]'
  BY DEF Components
<1>11. Repeats(g, n + 1, new)'
  BY <1>1, <1>6, <1>7, <1>8, <1>9, <1>10 DEF Repeats, WritesFrom
<1>12. QED
  BY <1>11

\* A later run comes to the same states.
LEMMA LaterRunGoesOn ==
    ASSUME WalkIsRight, ResolveComponent \/ Visit \/ Return \/ WriteComponent,
           runs # 0, NEW n, NEW h, NEW deps, Repeats(h, n, deps)
    PROVE  /\ Repeats(h, n, deps)'
           /\ WritesFrom(Now) => cache[Head(todo)] = deps[Head(todo)]
<1>1. refs' = refs /\ runs' = runs /\ Now' = Follows(Now)
  BY StepFollows
<1>2. FirstRun(h, n, deps)' /\ FirstRun(h, n, deps) /\ n \in Nat \ {0}
  <2>1. FirstRun(h, n, deps)
    BY DEF Repeats
  <2>2. FirstRun(h, n, deps)'
    BY <1>1, <2>1, FirstRunStays
  <2>3. n \in Nat \ {0}
    BY <2>1 DEF FirstRun
  <2>4. QED
    BY <2>1, <2>2, <2>3
<1>3. todo # <<>>
  BY DEF ResolveComponent, Visit, Return, WriteComponent, WalkIsRight
<1> PICK now : now = Now
  OBVIOUS
<1>4. now.todo = todo /\ now.cache = cache
  BY DEF Now
<1> PICK k \in 1..n : h[k] = now
  BY DEF Repeats
<1>5. h[n].todo = <<>> /\ k # n
  BY <1>3, <1>4 DEF Repeats
<1>6. k \in 1..(n - 1) /\ k + 1 \in 1..n
  BY <1>2, <1>5
<1>7. h[k + 1] = Now' /\ (WritesFrom(now) => cache[Head(todo)] = deps[Head(todo)])
  BY <1>1, <1>2, <1>4, <1>6 DEF FirstRun
<1>8. deps \in [Components -> SUBSET Components]'
  BY DEF Components, Repeats
<1>9. Repeats(h, n, deps)'
  BY <1>1, <1>2, <1>5, <1>6, <1>7, <1>8 DEF Repeats
<1>10. QED
  BY <1>7, <1>9

LEMMA WriteRepeats ==
    ASSUME CssTypeOK, WalkIsRight, WriteComponent, RunsRepeat
    PROVE  RunsRepeat'
<1> PICK c : c = Head(todo)
  OBVIOUS
<1> PICK updated : updated = WithDependencies(css[c], cache[c])
  OBVIOUS
<1>1. /\ todo # <<>> /\ stack = <<>> /\ c \in DOMAIN cache
      /\ css' = [css EXCEPT ![c] = updated] /\ runs' = runs /\ written' = written
      /\ changed' = changed \cup (IF updated = css[c] THEN {} ELSE {c})
      /\ todo' = Tail(todo)
  BY DEF WriteComponent
<1>2. /\ c \in Components /\ css[c] \in ComponentTexts /\ cache[c] \subseteq Components
      /\ written \in [Components -> ComponentTexts] /\ runs \in 0..2
      /\ todo \in Seq(Components)
  BY <1>1, CssAssumption DEF CssTypeOK
<1>3. Distinct(todo') /\ c \notin ToSet(todo') /\ ToSet(todo) = {c} \cup ToSet(todo')
  BY <1>1, <1>2, TailDistinct, TailOf DEF RunsRepeat
<1> PICK n, h, deps : Repeats(h, n, deps) /\ TextsAre(deps)
  BY DEF RunsRepeat
<1>4. WritesFrom(Now)
  BY <1>1, <1>2 DEF WritesFrom, Now
<1>5. deps \in [Components -> SUBSET Components]
  BY DEF Repeats
<1> PICK new : new = [deps EXCEPT ![c] = cache[c]]
  OBVIOUS
<1>6. /\ new \in [Components -> SUBSET Components] /\ new[c] = cache[c]
      /\ \A d \in Components \ {c} : new[d] = deps[d]
  BY <1>2, <1>5
<1>7. \E m, g : Repeats(g, m, new)'
  <2>1. CASE runs = 0
    <3>1. \A k \in 1..(n - 1) : WritesFrom(h[k]) => Head(h[k].todo) # c
      BY <1>3, <2>1 DEF Repeats
    <3>2. \A k \in 1..(n - 1) : WritesFrom(h[k]) => new[Head(h[k].todo)] = deps[Head(h[k].todo)]
      <4> SUFFICES ASSUME NEW k \in 1..(n - 1), WritesFrom(h[k])
                   PROVE  new[Head(h[k].todo)] = deps[Head(h[k].todo)]
        OBVIOUS
      <4>1. Head(h[k].todo) # c
        BY <3>1
      <4>2. Head(h[k].todo) \in Components
        BY DEF WritesFrom
      <4>3. QED
        BY <1>6, <4>1, <4>2
    <3>3. ToSet(todo') \subseteq ToSet(todo) /\ Head(todo) \notin ToSet(todo')
      BY <1>3
    <3>4. WritesFrom(Now) => new[Head(todo)] = cache[Head(todo)] /\ Head(todo) \notin ToSet(todo')
      BY <1>6, <3>3
    <3>5. Repeats(h, n, deps) /\ new \in [Components -> SUBSET Components]
      BY <1>6
    <3>6. ResolveComponent \/ Visit \/ Return \/ WriteComponent
      OBVIOUS
    <3>7. \E g : Repeats(g, n + 1, new)'
      BY ONLY <2>1, <3>2, <3>3, <3>4, <3>5, <3>6, FirstRunGoesOn
    <3>8. QED
      BY <3>7
  <2>2. CASE runs # 0
    <3>1. Repeats(h, n, deps)' /\ cache[c] = deps[c]
      BY <1>4, <2>2, LaterRunGoesOn
    <3>2. new = deps
      BY <1>5, <3>1
    <3>3. QED
      BY <3>1, <3>2
  <2>3. QED
    BY <2>1, <2>2
<1>8. css[c] = Rewritten(written[c], new[c], runs)
  <2>1. Times(c) = runs
    BY <1>2, <1>3 DEF Times
  <2>2. css[c] = Rewritten(written[c], deps[c], runs)
    BY <1>2, <2>1 DEF TextsAre
  <2>3. CASE runs = 0
    BY <2>2, <2>3 DEF Rewritten
  <2>4. CASE runs # 0
    <3>1. cache[c] = deps[c]
      BY <1>4, <2>4, LaterRunGoesOn
    <3>2. QED
      BY <1>6, <2>2, <3>1
  <2>5. QED
    BY <2>3, <2>4
<1>9. /\ updated = Rewritten(written[c], new[c], runs + 1)
      /\ runs = 1 /\ ~Untidy(written[c]) => updated = css[c]
      /\ runs = 2 => updated = css[c]
  <2>1. written[c] \in ComponentTexts
    BY <1>2
  <2>2. QED
    BY <1>2, <1>6, <1>8, <2>1, NextWriting
<1>10. TextsAre(new)'
  <2> SUFFICES ASSUME NEW d \in Components
               PROVE  css'[d] = Rewritten(written[d], new[d], Times(d))'
    BY DEF TextsAre, Components
  <2>1. \A t, D, m : Rewritten(t, D, m)' = Rewritten(t, D, m)
    OBVIOUS
  <2>2. CASE d = c
    <3>1. Times(d)' = runs + 1
      BY <1>1, <1>3, <2>2 DEF Times
    <3>2. css'[d] = updated
      BY <1>1, <1>2, <2>2 DEF CssTypeOK
    <3>3. QED
      BY <1>1, <1>9, <2>2, <3>1, <3>2
  <2>3. CASE d # c
    <3>1. Times(d)' = Times(d)
      BY <1>1, <1>3, <2>3 DEF Times
    <3>2. css'[d] = css[d] /\ new[d] = deps[d]
      BY <1>1, <1>2, <1>6, <2>3 DEF CssTypeOK
    <3>3. css[d] = Rewritten(written[d], deps[d], Times(d))
      BY DEF TextsAre
    <3>4. QED
      BY <1>1, <3>1, <3>2, <3>3
  <2>4. QED
    BY <2>2, <2>3
<1>11. RunsSettle'
  <2>1. \A t : Untidy(t)' = Untidy(t)
    OBVIOUS
  <2>2. {d \in Components : Untidy(written[d])}' = {d \in Components : Untidy(written[d])}
    BY <1>1 DEF Components
  <2>3. runs = 1 => changed' \subseteq {d \in Components : Untidy(written[d])}
    BY <1>1, <1>2, <1>9 DEF RunsRepeat, RunsSettle
  <2>4. runs = 2 => changed' = {}
    BY <1>1, <1>9 DEF RunsRepeat, RunsSettle
  <2>5. QED
    BY <1>1, <2>2, <2>3, <2>4 DEF RunsSettle
<1>12. QED
  BY <1>3, <1>7, <1>10, <1>11 DEF RunsRepeat

LEMMA WalkRepeats ==
    ASSUME CssTypeOK, WalkIsRight, ResolveComponent \/ Visit \/ Return, RunsRepeat
    PROVE  RunsRepeat'
<1>1. UNCHANGED <<css, written, changed, todo, runs>>
  BY DEF ResolveComponent, Visit, Return, tree
<1> PICK n, h, deps : Repeats(h, n, deps) /\ TextsAre(deps)
  BY DEF RunsRepeat
<1>2. ~WritesFrom(Now)
  BY DEF ResolveComponent, Visit, Return, WritesFrom, Now
<1>3. deps \in [Components -> SUBSET Components]
  BY DEF Repeats
<1>4. \E m, g : Repeats(g, m, deps)'
  BY <1>1, <1>2, <1>3, FirstRunGoesOn, LaterRunGoesOn
<1>5. TextsAre(deps)'
  BY <1>1 DEF TextsAre, Times, Components
<1>6. Distinct(todo)' /\ RunsSettle'
  BY <1>1 DEF RunsRepeat, RunsSettle, Distinct, Components
<1>7. QED
  BY <1>4, <1>5, <1>6 DEF RunsRepeat

LEMMA RunsGoOn ==
    ASSUME CssTypeOK, WalkIsRight, RunsRepeat, [CssNext]_cssVars
    PROVE  RunsRepeat'
<1>1. CASE RunAgain
  <2>1. /\ todo = <<>> /\ runs < 2 /\ runs' = runs + 1 /\ changed' = {}
        /\ UNCHANGED <<refs, written, css>>
        /\ stack' = <<>> /\ todo' = InOrder(Components) /\ cache' = <<>>
    BY <1>1 DEF RunAgain, tree, WalkIsRight
  <2> PICK n, h, deps : Repeats(h, n, deps) /\ TextsAre(deps)
    BY DEF RunsRepeat
  <2>2. FirstRun(h, n, deps)' /\ n \in Nat \ {0} /\ h[1] = Beginning
    <3>1. FirstRun(h, n, deps)
      BY DEF Repeats
    <3>2. FirstRun(h, n, deps)'
      BY <2>1, <3>1, FirstRunStays
    <3>3. n \in Nat \ {0} /\ h[1] = Beginning
      BY <3>1 DEF FirstRun
    <3>4. QED
      BY <3>2, <3>3
  <2>3. h[n].todo = <<>>
    BY <2>1 DEF Repeats, Now
  <2>4. h[1] = Now' /\ 1 \in 1..n
    BY <2>1, <2>2 DEF Beginning, Now
  <2>5. runs' # 0 /\ runs \in 0..1
    BY <2>1 DEF CssTypeOK
  <2>6. Repeats(h, n, deps)'
    BY <2>2, <2>3, <2>4, <2>5 DEF Repeats, Components
  <2>7. TextsAre(deps)'
    <3>1. ToSet(todo) = {} /\ ToSet(todo') = Components
      BY <2>1, EmptyList, ComponentsInOrder
    <3>2. \A c \in Components : Times(c)' = Times(c)
      BY <2>1, <2>5, <3>1 DEF Times
    <3>3. QED
      BY <2>1, <3>2 DEF TextsAre, Components
  <2>8. Distinct(todo)' /\ RunsSettle'
    <3>1. Distinct(InOrder(Components))
      BY ComponentsInOrder
    <3>2. QED
      BY <2>1, <3>1 DEF Distinct, RunsSettle
  <2>9. QED
    BY <2>6, <2>7, <2>8 DEF RunsRepeat
<1>2. CASE UNCHANGED cssVars
  <2>1. UNCHANGED <<refs, written, css, cache, stack, todo, runs, changed>>
    BY <1>2 DEF cssVars
  <2> PICK n, h, deps : Repeats(h, n, deps) /\ TextsAre(deps)
    BY DEF RunsRepeat
  <2>2. FirstRun(h, n, deps)'
    BY <2>1, FirstRunStays DEF Repeats
  <2>3. Now' = Now
    BY <2>1 DEF Now
  <2>4. Repeats(h, n, deps)'
    BY <2>1, <2>2, <2>3 DEF Repeats, WritesFrom, Components
  <2>5. TextsAre(deps)' /\ Distinct(todo)' /\ RunsSettle'
    BY <2>1 DEF TextsAre, Times, Distinct, RunsSettle, RunsRepeat, Components
  <2>6. QED
    BY <2>4, <2>5 DEF RunsRepeat
<1>3. QED
  BY <1>1, <1>2, WriteRepeats, WalkRepeats DEF CssNext

LEMMA RunsStart == CssInit => RunsRepeat
<1> SUFFICES ASSUME CssInit PROVE RunsRepeat
  OBVIOUS
<1>1. runs = 0 /\ Now = Beginning /\ css = written /\ changed = {}
  BY DEF CssInit, Now, Beginning
<1> PICK h : h = <<Now>>
  OBVIOUS
<1>2. h[1] = Now
  OBVIOUS
<1> PICK deps : deps = [c \in Components |-> {}]
  OBVIOUS
<1>3. Repeats(h, 1, deps)
  BY <1>1, <1>2 DEF Repeats, FirstRun
<1>4. Distinct(todo) /\ ToSet(todo) = Components
  BY ComponentsInOrder DEF CssInit
<1>5. TextsAre(deps)
  BY <1>1, <1>4 DEF TextsAre, Times, Rewritten
<1>6. RunsSettle
  BY <1>1 DEF RunsSettle
<1>7. QED
  BY <1>3, <1>4, <1>5, <1>6 DEF RunsRepeat

\* Whatever components there are, and whatever they refer to: a page that does
\* not render itself gets the style sheet of everything it renders, and no page
\* gets another.  A second run of the hook changes nothing but directives that
\* the first has inserted into untidy texts, and a third changes nothing: also
\* where components render each other and the cache has only a part of what is
\* below them.
THEOREM StylesAreSynchronized == CssSpec => [](CssTypeOK /\ StylesSynchronized)
<1> DEFINE I == CssTypeOK /\ WalkIsRight /\ RunsRepeat
<1>1. CssInit => I
  BY CssStartsTyped, WalkStartsRight, RunsStart
<1>2. I /\ [CssNext]_cssVars => I'
  BY CssTypeStep, WalkStaysRight, RunsGoOn
<1>3. I => StylesSynchronized
  <2> SUFFICES ASSUME I PROVE StylesSynchronized
    OBVIOUS
  <2>1. AllStylesListed
    <3>1. todo = <<>> => ToSet(todo) = {}
      BY DEF ToSet
    <3>2. QED
      BY <3>1 DEF AllStylesListed, WalkIsRight, DirectiveIsRight, Sheets
  <2>2. OnlyStylesAdded
    BY DEF OnlyStylesAdded, WalkIsRight, DirectiveIsRight, CacheIsRight, Sheets
  <2>3. RunsSettle
    BY DEF RunsRepeat
  <2>4. QED
    BY <2>1, <2>2, <2>3 DEF StylesSynchronized
<1>4. QED
  <2>1. I => CssTypeOK
    OBVIOUS
  <2>2. QED
    BY <1>1, <1>2, <1>3, <2>1, PTL DEF CssSpec

=============================================================================
