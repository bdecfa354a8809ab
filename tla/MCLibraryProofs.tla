--------------------------- MODULE MCLibraryProofs ---------------------------
(***************************************************************************)
(* The parts that MCLibrary runs side by side keep the types of their       *)
(* variables in it, also the hooks that a behaviour does not run.           *)
(***************************************************************************)
EXTENDS MCLibrary, LibraryProofs, HooksProofs

LEMMA ServerPartsAreThemselves == Spec => LibrarySpec /\ ScrollSpec /\ PagesSpec
<1>1. Init => LibraryInit /\ ScrollInit /\ PagesInit
  BY DEF Init
<1>2. [Next]_<<server, hooks, part>> =>
        [LibraryNext]_libraryVars /\ [ScrollNext]_scrollVars /\ [PagesNext]_pagesVars
  BY DEF Next, server, hooks
<1> QED
  BY <1>1, <1>2, PTL DEF Spec, LibrarySpec, ScrollSpec, PagesSpec

LEMMA HooksStep ==
  [Next]_<<server, hooks, part>> =>
     /\ [CssNext]_cssVars /\ [NamesNext]_namesVars /\ [GuardNext]_guardVars
     /\ [RegistryNext]_registryVars /\ [TemplatesNext]_templateVars
BY DEF Next, server, hooks

LEMMA NamesTypeStep ==
  ASSUME NamesTypeOK, [NamesNext]_namesVars
  PROVE  NamesTypeOK'
<1>0. ClassCount \in Nat /\ FileCount \in Nat /\ RootNames \subseteq ClassNames
  BY ExceptionNamesAssumption
<1>1. CASE OpenFile
  <2>1. unchecked' \in 0..FileCount /\ at' \in 0..(ClassCount + 1)
    BY <1>0, <1>1 DEF OpenFile, NamesTypeOK
  <2> QED
    BY <1>0, <1>1, <2>1 DEF OpenFile, NamesTypeOK
<1>2. CASE SkipFile
  <2>1. unchecked' \in 0..FileCount
    BY <1>0, <1>2 DEF SkipFile, NamesTypeOK
  <2> QED
    BY <1>2, <2>1 DEF SkipFile, NamesTypeOK
<1>3. CASE LookAtClass
  <2>1. at \in Classes /\ at' \in 0..(ClassCount + 1)
    BY <1>0, <1>3 DEF LookAtClass, Classes
  <2>2. className[at] \in ClassNames
    BY <2>1 DEF NamesTypeOK
  <2> QED
    BY <1>3, <2>1, <2>2 DEF LookAtClass, file, NamesTypeOK
<1>4. CASE PassAgain
  <2>1. at' \in 0..(ClassCount + 1)
    BY <1>0, <1>4 DEF PassAgain
  <2> QED
    BY <1>4, <2>1 DEF PassAgain, file, NamesTypeOK
<1>5. CASE CloseFile
  <2>1. at' \in 0..(ClassCount + 1)
    BY <1>0, <1>5 DEF CloseFile
  <2>2. complaint' \in BOOLEAN
    BY <1>5 DEF CloseFile, NamesTypeOK
  <2> QED
    BY <1>5, <2>1, <2>2 DEF CloseFile, file, NamesTypeOK
<1>6. CASE UNCHANGED namesVars
  BY <1>6 DEF namesVars, NamesTypeOK
<1> QED
  BY <1>1, <1>2, <1>3, <1>4, <1>5, <1>6 DEF NamesNext

LEMMA GuardTypeStep ==
  ASSUME GuardTypeOK, [GuardNext]_guardVars
  PROVE  GuardTypeOK'
<1>1. CASE ChooseFiles
  BY <1>1 DEF ChooseFiles, GuardTypeOK
<1>2. ASSUME NEW p \in Positions, ScanFile(p)
      PROVE  GuardTypeOK'
  <2>1. /\ UNCHANGED <<staged, grepWorks, queue>> /\ parsed' \subseteq Positions
        /\ exit' \in {"running", "usage"}
        /\ violations' \subseteq violations \cup ({p} \X ForbiddenCalls(staged[p]))
    BY <1>2 DEF ScanFile, GuardTypeOK
  <2>2. ForbiddenCalls(staged[p]) \subseteq staged[p].calls
    BY DEF ForbiddenCalls
  <2>3. \A v \in {p} \X ForbiddenCalls(staged[p]) : v[1] \in Positions /\ v[2] \in staged[v[1]].calls
    BY <2>2
  <2> QED
    BY <2>1, <2>3 DEF GuardTypeOK
<1>3. CASE EndGuard
  BY <1>3 DEF EndGuard, GuardTypeOK
<1>4. CASE UNCHANGED guardVars
  BY <1>4 DEF guardVars, GuardTypeOK
<1> QED
  BY <1>1, <1>2, <1>3, <1>4 DEF GuardNext

HooksInv ==
    CssTypeOK /\ NamesTypeOK /\ GuardTypeOK /\ RegistryTypeOK /\ RegistryInvariant /\ TemplatesInv

\* A hook that is not run is in a state of its own.
LEMMA HooksStart == Init => HooksInv
<1> SUFFICES ASSUME Init PROVE HooksInv
  OBVIOUS
<1>1. CssTypeOK
  <2>1. CASE CssInit
    BY <2>1, CssStartsTyped
  <2>2. CASE CssRests
    <3>1. refs \in [Components -> References]
      BY <2>2, RestAssumption DEF CssRests
    <3>2. written \in StartingTexts /\ css = written
      BY <2>2, RestAssumption DEF CssRests
    <3>3. css \in [Components -> ComponentTexts]
      BY <3>2, CssAssumption
    <3>4. todo \in Seq(Components) /\ DOMAIN cache = {} /\ stack \in Seq(Frames)
      BY <2>2, ComponentsInOrder DEF CssRests
    <3>5. runs \in 0..2 /\ changed = {}
      BY <2>2 DEF CssRests
    <3> QED
      BY <3>1, <3>2, <3>3, <3>4, <3>5 DEF CssTypeOK
  <2> QED
    BY <2>1, <2>2 DEF Init
<1>2. NamesTypeOK
  <2>1. /\ FileCount \in Nat /\ ClassCount \in Nat /\ RootNames \subseteq ClassNames
        /\ "E" \in ClassNames /\ (CHOOSE n \in ClassNames : TRUE) \in ClassNames
    BY ExceptionNamesAssumption, RestAssumption
  <2>2. 0 \in 0..FileCount /\ FileCount \in 0..FileCount /\ 0 \in 0..(ClassCount + 1)
    BY <2>1
  <2>3. NamesInit => NamesTypeOK
    BY <2>1, <2>2 DEF NamesInit, NamesTypeOK
  <2>4. NamesRest => NamesTypeOK
    BY <2>1, <2>2 DEF NamesRest, NamesTypeOK
  <2> QED
    BY <2>3, <2>4 DEF Init
<1>3. GuardTypeOK
  <2>1. GuardInit => GuardTypeOK
    BY DEF GuardInit, GuardTypeOK
  <2>2. GuardRests => GuardTypeOK
    <3>1. (CHOOSE f \in PythonFiles : f.calls = {}) \in PythonFiles
      BY RestAssumption
    <3> QED
      BY <3>1 DEF GuardRests, GuardTypeOK
  <2> QED
    BY <2>1, <2>2 DEF Init
<1>4. RegistryTypeOK /\ RegistryInvariant
  <2>1. RegistryInit => RegistryTypeOK /\ RegistryInvariant
    BY RegistryAssumption DEF RegistryInit, RegistryTypeOK, RegistryInvariant, RegistrySettles,
                              CommittedIsComplete, RewritingSettles, Imported
  <2>2. RegistryRests => RegistryTypeOK /\ RegistryInvariant
    BY DEF RegistryRests, RegistryTypeOK, RegistryInvariant, RegistrySettles,
           CommittedIsComplete, RewritingSettles, Imported
  <2> QED
    BY <2>1, <2>2 DEF Init
<1>5. TemplatesInv
  <2>1. TemplatesInit => TemplatesInv
    BY TemplatesInitially
  <2>2. ASSUME TemplatesRest PROVE TemplatesInv
    <3>1. frames = <<>> /\ Len(frames) = 0 /\ mode = "done" /\ missing = {} /\ reported = {}
          /\ cyclic = FALSE /\ visited = {}
      BY <2>2 DEF TemplatesRest
    <3>2. text \in [Templates -> Texts] /\ context \in Contexts
      BY <2>2, RestAssumption DEF TemplatesRest
    <3>3. TemplatesTypeOK
      <4>1. frames \in Seq([kind : BlockKinds \cup {"template"}, template : Templates,
                            at : Nat, scope : SUBSET STRING])
        BY <3>1
      <4> QED
        BY <3>1, <3>2, <4>1 DEF TemplatesTypeOK
    <3>4. Nested /\ MissingIsReported
      BY <3>1 DEF Nested, MissingIsReported
    <3> QED
      BY <3>1, <3>3, <3>4 DEF TemplatesInv
  <2> QED
    BY <2>1, <2>2 DEF Init
<1> QED
  BY <1>1, <1>2, <1>3, <1>4, <1>5 DEF HooksInv

\* Every variable of the sources, the pages and the hooks has its type: for any
\* number of requests, tabs, files, components, classes, models and templates.
THEOREM LibraryTypesCorrect == Spec => []TypeOK
<1>1. LibrarySpec => []LibraryTypeOK
  BY LibraryInvariantHolds, PTL
<1>2. ScrollSpec => []ScrollTypeOK
  BY ScrollTypeCorrect
<1>3. PagesSpec => []PagesTypeOK
  <2>1. PagesInv => PagesTypeOK
    BY DEF PagesInv
  <2> QED
    BY <2>1, PagesInvariance, PTL
<1>4. Spec => []HooksInv
  <2>1. HooksInv /\ [Next]_<<server, hooks, part>> => HooksInv'
    BY HooksStep, CssTypeStep, NamesTypeStep, GuardTypeStep, RegistryStep,
       TemplatesInvIsInductive DEF HooksInv
  <2> QED
    BY <2>1, HooksStart, PTL DEF Spec
<1>5. HooksInv => CssTypeOK /\ NamesTypeOK /\ GuardTypeOK /\ RegistryTypeOK /\ TemplatesTypeOK
  BY DEF HooksInv, TemplatesInv
<1> QED
  BY <1>1, <1>2, <1>3, <1>4, <1>5, ServerPartsAreThemselves, PTL DEF TypeOK

=============================================================================
