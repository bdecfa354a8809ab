--------------------------- MODULE TemplateProofs ---------------------------
(***************************************************************************)
(* Proofs about TemplateNames, for every set of templates, whatever blocks  *)
(* they nest and however they include each other.                           *)
(***************************************************************************)
EXTENDS TemplateNames, FiniteSetTheorems, WellFoundedInduction, TLAPS

\* A set of naturals has a least element.
LEMMA LeastExists ==
    ASSUME NEW S, S \subseteq Nat, S # {}
    PROVE  \E x \in S : \A y \in S : x <= y
<1>1. PICK x \in S : \A y \in S : ~ (<<y, x>> \in OpToRel(<, Nat))
  BY NatLessThanWellFounded, WFMin
<1>2. \A y \in S : ~ (y < x)
  BY <1>1 DEF OpToRel
<1>3. QED
  BY <1>2

LEMMA NotOne ==
    ASSUME NEW n \in Nat, n >= 1, n # 1
    PROVE  n >= 2
OBVIOUS

\* One more position adds one to a count, or nothing.
LEMMA CountStep ==
    ASSUME NEW K, NEW i \in Nat \ {0}
    PROVE  /\ Cardinality({k \in 1..i : k \in K}) \in Nat
           /\ Cardinality({k \in 1..(i - 1) : k \in K}) \in Nat
           /\ Cardinality({k \in 1..i : k \in K})
                = Cardinality({k \in 1..(i - 1) : k \in K}) + (IF i \in K THEN 1 ELSE 0)
<1> DEFINE S == {k \in 1..(i - 1) : k \in K}
           T == {k \in 1..i : k \in K}
<1>1. IsFiniteSet(S) /\ IsFiniteSet(T)
  <2>1. IsFiniteSet(1..(i - 1)) /\ IsFiniteSet(1..i)
    BY FS_Interval
  <2>2. S \subseteq 1..(i - 1) /\ T \subseteq 1..i
    OBVIOUS
  <2>3. QED
    BY <2>1, <2>2, FS_Subset
<1>2. Cardinality(S) \in Nat /\ Cardinality(T) \in Nat
  BY <1>1, FS_CardinalityType
<1>3. CASE i \in K
  <2>1. T = S \cup {i} /\ i \notin S
    BY <1>3
  <2>2. Cardinality(T) = Cardinality(S) + 1
    BY <2>1, <1>1, FS_AddElement
  <2>3. QED
    BY <2>2, <1>2, <1>3
<1>4. CASE i \notin K
  <2>1. T = S
    BY <1>4
  <2>2. Cardinality(T) = Cardinality(S)
    BY <2>1
  <2> HIDE DEF S, T
  <2>3. Cardinality(T) = Cardinality(S) + (IF i \in K THEN 1 ELSE 0)
    BY <2>2, <1>2, <1>4
  <2>4. QED
    BY <2>3, <1>2 DEF S, T
<1>5. QED
  BY <1>3, <1>4

\* The tokens of a text.
LEMMA TokensAreTyped ==
    ASSUME NEW s \in Texts
    PROVE  /\ s \in Seq(TokenKinds \X STRING) /\ Len(s) \in Nat
           /\ \A i \in 1..Len(s) : s[i][1] \in TokenKinds /\ s[i][2] \in STRING
           /\ \A i \in 1..Len(s) : s[i][1] \in {"include", "bare"} => s[i][2] \in Templates
<1>1. s \in Seq(TokenKinds \X STRING)
  BY TemplatesAssumption
<1>2. \A i \in 1..Len(s) : s[i] \in TokenKinds \X STRING
  BY <1>1
<1>3. QED
  BY <1>1, <1>2, TemplatesAssumption

\* The level rises after a token that opens a block, and falls after an end.
LEMMA LevelStep ==
    ASSUME NEW s \in Texts, NEW i \in 1..Len(s)
    PROVE  Level(s, i + 1) = IF s[i][1] \in BlockKinds THEN Level(s, i) + 1
                             ELSE IF s[i][1] = "end" THEN Level(s, i) - 1
                             ELSE Level(s, i)
<1> DEFINE O == {k \in 1..Len(s) : s[k][1] \in BlockKinds}
           E == {k \in 1..Len(s) : s[k][1] = "end"}
<1>1. Len(s) \in Nat /\ i \in Nat \ {0} /\ (i + 1) - 1 = i
  BY TokensAreTyped
<1>2. /\ {k \in 1..(i - 1) : s[k][1] \in BlockKinds} = {k \in 1..(i - 1) : k \in O}
      /\ {k \in 1..i : s[k][1] \in BlockKinds} = {k \in 1..i : k \in O}
      /\ {k \in 1..(i - 1) : s[k][1] = "end"} = {k \in 1..(i - 1) : k \in E}
      /\ {k \in 1..i : s[k][1] = "end"} = {k \in 1..i : k \in E}
  BY <1>1
<1>3. /\ Level(s, i) = Cardinality({k \in 1..(i - 1) : k \in O}) - Cardinality({k \in 1..(i - 1) : k \in E})
      /\ Level(s, i + 1) = Cardinality({k \in 1..i : k \in O}) - Cardinality({k \in 1..i : k \in E})
  BY <1>1, <1>2 DEF Level
<1>4. /\ i \in O <=> s[i][1] \in BlockKinds
      /\ i \in E <=> s[i][1] = "end"
      /\ ~ (i \in O /\ i \in E)
  BY DEF BlockKinds
<1> HIDE DEF O, E
<1>5. /\ Cardinality({k \in 1..i : k \in O}) \in Nat
      /\ Cardinality({k \in 1..(i - 1) : k \in O}) \in Nat
      /\ Cardinality({k \in 1..i : k \in O})
           = Cardinality({k \in 1..(i - 1) : k \in O}) + (IF i \in O THEN 1 ELSE 0)
  BY <1>1, CountStep
<1>6. /\ Cardinality({k \in 1..i : k \in E}) \in Nat
      /\ Cardinality({k \in 1..(i - 1) : k \in E}) \in Nat
      /\ Cardinality({k \in 1..i : k \in E})
           = Cardinality({k \in 1..(i - 1) : k \in E}) + (IF i \in E THEN 1 ELSE 0)
  BY <1>1, CountStep
<1>7. QED
  BY <1>3, <1>4, <1>5, <1>6

LEMMA LevelIsNat ==
    ASSUME NEW s \in Texts
    PROVE  /\ \A i \in 1..(Len(s) + 1) : Level(s, i) \in Nat
           /\ Level(s, 1) = 0
           /\ Level(s, Len(s) + 1) = 0
<1>1. Len(s) \in Nat
  BY TokensAreTyped
<1>2. Level(s, 1) = 0
  <2>1. {k \in 1..(1 - 1) : s[k][1] \in BlockKinds} = {} /\ {k \in 1..(1 - 1) : s[k][1] = "end"} = {}
    OBVIOUS
  <2>2. QED
    BY <2>1, FS_EmptySet DEF Level
<1>3. ASSUME NEW i \in 1..(Len(s) + 1) PROVE Level(s, i) \in Nat
  <2>1. IsFiniteSet(1..(i - 1))
    BY <1>1, FS_Interval
  <2>2. /\ IsFiniteSet({k \in 1..(i - 1) : s[k][1] \in BlockKinds})
        /\ IsFiniteSet({k \in 1..(i - 1) : s[k][1] = "end"})
    <3>1. /\ {k \in 1..(i - 1) : s[k][1] \in BlockKinds} \subseteq 1..(i - 1)
          /\ {k \in 1..(i - 1) : s[k][1] = "end"} \subseteq 1..(i - 1)
      OBVIOUS
    <3>2. QED
      BY <2>1, <3>1, FS_Subset
  <2>3. Level(s, i) \in Int
    <3>1. /\ Cardinality({k \in 1..(i - 1) : s[k][1] \in BlockKinds}) \in Nat
          /\ Cardinality({k \in 1..(i - 1) : s[k][1] = "end"}) \in Nat
      BY <2>2, FS_CardinalityType
    <3>2. QED
      BY <3>1 DEF Level
  <2>4. Level(s, i) >= 0
    BY TemplatesAssumption DEF Parses
  <2>5. QED
    BY <2>3, <2>4
<1>4. QED
  BY <1>2, <1>3, TemplatesAssumption DEF Parses

\* What `Matching` finds is in the block.
LEMMA MatchingIsInBlock ==
    ASSUME NEW s \in Texts, NEW b \in 1..Len(s), s[b][1] \in BlockKinds,
           NEW kinds, "end" \in kinds
    PROVE  /\ Matching(s, b, kinds) \in 1..Len(s)
           /\ s[Matching(s, b, kinds)][1] \in kinds
           /\ InBlock(s, b, Matching(s, b, kinds))
<1> DEFINE Own(j) == s[j][1] \in kinds /\ Level(s, j) = Level(s, b) + 1
           P(j) == j > b /\ Own(j) /\ \A k \in (b + 1)..(j - 1) : ~Own(k)
           low == {i \in (b + 1)..(Len(s) + 1) : Level(s, i) <= Level(s, b)}
<1>1. Len(s) \in Nat /\ b \in Nat /\ b >= 1 /\ b <= Len(s) /\ DOMAIN s = 1..Len(s)
  BY TokensAreTyped
<1>2. \A i \in 1..(Len(s) + 1) : Level(s, i) \in Nat
  BY LevelIsNat
<1>3. Len(s) + 1 \in low
  BY <1>1, <1>2, LevelIsNat
<1>4. PICK e \in low : \A y \in low : e <= y
  <2>1. low \subseteq Nat
    BY <1>1
  <2> HIDE DEF low
  <2>2. QED
    BY <1>3, <2>1, LeastExists
<1>5. Level(s, b + 1) = Level(s, b) + 1
  BY LevelStep
<1>6. /\ e \in Nat /\ e - 1 \in (b + 1)..Len(s)
      /\ Level(s, e) <= Level(s, b)
  BY <1>1, <1>2, <1>4, <1>5
<1>7. \A j \in (b + 1)..(e - 1) : Level(s, j) > Level(s, b)
  <2> SUFFICES ASSUME NEW j \in (b + 1)..(e - 1), ~ (Level(s, j) > Level(s, b)) PROVE FALSE
    OBVIOUS
  <2>1. j \in low
    BY <1>1, <1>2, <1>6
  <2>2. QED
    BY <2>1, <1>4, <1>6
<1>8. Own(e - 1)
  <2>1. e - 1 \in 1..Len(s) /\ (e - 1) + 1 = e
    BY <1>1, <1>6
  <2>2. Level(s, e) = IF s[e - 1][1] \in BlockKinds THEN Level(s, e - 1) + 1
                      ELSE IF s[e - 1][1] = "end" THEN Level(s, e - 1) - 1
                      ELSE Level(s, e - 1)
    BY <2>1, LevelStep
  <2>3. Level(s, e - 1) > Level(s, b) /\ Level(s, e - 1) \in Nat /\ Level(s, b) \in Nat
    BY <1>1, <1>2, <1>6, <1>7
  <2>4. s[e - 1][1] = "end" /\ Level(s, e - 1) = Level(s, b) + 1
    BY <2>2, <2>3, <1>6
  <2>5. QED
    BY <2>4
<1>9. \E j \in DOMAIN s : P(j)
  <2> DEFINE J == {j \in (b + 1)..Len(s) : Own(j)}
  <2>1. J \subseteq Nat /\ e - 1 \in J
    BY <1>1, <1>6, <1>8
  <2>2. PICK j \in J : \A y \in J : j <= y
    <3> HIDE DEF J
    <3>1. QED
      BY <2>1, LeastExists
  <2>3. j \in DOMAIN s /\ j > b /\ Own(j)
    BY <1>1
  <2>4. ASSUME NEW k \in (b + 1)..(j - 1), Own(k) PROVE FALSE
    <3>1. k \in J
      BY <2>4, <1>1
    <3>2. QED
      BY <3>1, <2>2, <1>1
  <2>5. QED
    BY <2>3, <2>4
<1> DEFINE m == Matching(s, b, kinds)
<1>10. m \in DOMAIN s /\ P(m)
  <2>1. m = CHOOSE j \in DOMAIN s : P(j)
    BY DEF Matching
  <2>2. QED
    BY <1>9, <2>1
<1> HIDE DEF m
<1>11. m \in Nat /\ m <= e - 1
  <2>1. m \in Nat
    BY <1>10, <1>1
  <2>2. SUFFICES ASSUME m > e - 1 PROVE FALSE
    BY <2>1, <1>6
  <2>3. e - 1 \in (b + 1)..(m - 1)
    BY <2>1, <2>2, <1>6, <1>1
  <2>4. QED
    BY <2>3, <1>8, <1>10
<1>12. m \in 1..Len(s) /\ s[m][1] \in kinds /\ InBlock(s, b, m)
  BY <1>1, <1>6, <1>7, <1>10, <1>11 DEF InBlock
<1>13. QED
  BY <1>12 DEF m

-----------------------------------------------------------------------------
(* What is in scope *)

LEMMA NothingInScope ==
    ASSUME NEW s \in Texts
    PROVE  NamesAt(s, 1) = {}
BY DEF NamesAt

\* A token that neither ends a block nor begins a branch only adds its name.
LEMMA NamesAfter ==
    ASSUME NEW s \in Texts, NEW i \in 1..Len(s), s[i][1] \notin {"end", "else"}
    PROVE  NamesAt(s, i + 1) = NamesAt(s, i)
                \cup (IF s[i][1] \in {"set", "for", "with"} THEN {s[i][2]} ELSE {})
<1>1. Len(s) \in Nat /\ \A j \in 1..(Len(s) + 1) : Level(s, j) \in Nat
  BY TokensAreTyped, LevelIsNat
<1>2. Level(s, i + 1) >= Level(s, i)
  BY <1>1, LevelStep
<1>3. \A k \in 1..(i - 1) : InScopeAt(s, k, i + 1) <=> InScopeAt(s, k, i)
  <2> TAKE k \in 1..(i - 1)
  <2>1. \A j : j \in (k + 1)..(i + 1) <=> j \in (k + 1)..i \/ j = i + 1
    BY <1>1
  <2>2. \A j : j \in (k + 1)..((i + 1) - 1) <=> j \in (k + 1)..(i - 1) \/ j = i
    BY <1>1
  <2>3. i \in (k + 1)..i /\ k + 1 \in 1..(Len(s) + 1)
    BY <1>1
  <2>4. (\A j \in (k + 1)..i : Level(s, j) >= Level(s, k + 1))
            <=> (\A j \in (k + 1)..(i + 1) : Level(s, j) >= Level(s, k + 1))
    <3>1. /\ Level(s, k + 1) \in Nat /\ Level(s, i) \in Nat /\ Level(s, i + 1) \in Nat
          /\ (i + 1) \in (k + 1)..(i + 1)
      BY <1>1, <2>3
    <3>2. QED
      BY <3>1, <1>2, <2>1, <2>3
  <2>5. QED
    BY <2>2, <2>4 DEF InScopeAt
<1>4. InScopeAt(s, i, i + 1) <=> s[i][1] \in {"set", "for", "with"}
  <2>1. \A j \in (i + 1)..(i + 1) : Level(s, j) >= Level(s, i + 1)
    BY <1>1
  <2>2. QED
    BY <1>1, <2>1 DEF InScopeAt
<1>5. \A k : k \in 1..((i + 1) - 1) <=> k \in 1..(i - 1) \/ k = i
  BY <1>1
<1>6. QED
  BY <1>3, <1>4, <1>5 DEF NamesAt

\* After its end nothing of a block is in scope, nor of the branch before an
\* else.
LEMMA NamesAfterBlock ==
    ASSUME NEW s \in Texts, NEW b, NEW e \in 1..Len(s), InBlock(s, b, e),
           s[e][1] \in {"end", "else"}
    PROVE  NamesAt(s, e + 1) = NamesAt(s, b)
<1>1. /\ Len(s) \in Nat /\ \A j \in 1..(Len(s) + 1) : Level(s, j) \in Nat
      /\ b \in 1..Len(s) /\ b < e /\ s[b][1] \in BlockKinds
      /\ Level(s, e) = Level(s, b) + 1
      /\ \A j \in (b + 1)..e : Level(s, j) > Level(s, b)
  BY TokensAreTyped, LevelIsNat DEF InBlock
<1>2. Level(s, e + 1) = IF s[e][1] = "end" THEN Level(s, b) ELSE Level(s, b) + 1
  <2>1. Level(s, e + 1) = IF s[e][1] \in BlockKinds THEN Level(s, e) + 1
                          ELSE IF s[e][1] = "end" THEN Level(s, e) - 1
                          ELSE Level(s, e)
    BY LevelStep
  <2>2. s[e][1] \notin BlockKinds
    BY DEF BlockKinds
  <2>3. Level(s, b) \in Nat /\ Level(s, e) = Level(s, b) + 1
    BY <1>1
  <2>4. QED
    BY <2>1, <2>2, <2>3
<1>3. ASSUME NEW k \in 1..((e + 1) - 1), InScopeAt(s, k, e + 1) PROVE k \in 1..(b - 1) /\ InScopeAt(s, k, b)
  <2>1. k < b
    <3> SUFFICES ASSUME k >= b PROVE FALSE
      BY <1>1
    <3>1. k # e
      BY <1>3 DEF InScopeAt
    <3>2. k + 1 \in (b + 1)..e /\ e \in (k + 1)..e /\ e + 1 \in (k + 1)..(e + 1)
      BY <1>1, <3>1
    <3>3. Level(s, k + 1) > Level(s, b) /\ Level(s, e) >= Level(s, k + 1) /\ Level(s, e + 1) >= Level(s, k + 1)
      <4>1. e \in (k + 1)..(e + 1)
        BY <3>2
      <4>2. QED
        BY <1>1, <1>3, <3>2, <4>1 DEF InScopeAt
    <3>4. k + 1 \in 1..(Len(s) + 1)
      BY <1>1
    <3>5. CASE s[e][1] = "end"
      <4>1. Level(s, b) \in Nat /\ Level(s, k + 1) \in Nat
        BY <1>1, <3>4
      <4>2. QED
        BY <1>2, <3>3, <3>5, <4>1
    <3>6. CASE s[e][1] = "else"
      <4>1. Level(s, k + 1) = Level(s, e)
        BY <1>1, <3>3, <3>4
      <4>2. e \in (k + 1)..((e + 1) - 1)
        BY <3>2
      <4>3. QED
        BY <3>6, <4>1, <4>2, <1>3 DEF InScopeAt
    <3>7. QED
      BY <3>5, <3>6
  <2>2. \A j : /\ j \in (k + 1)..b => j \in (k + 1)..(e + 1)
               /\ j \in (k + 1)..(b - 1) => j \in (k + 1)..((e + 1) - 1)
    BY <1>1
  <2>3. QED
    BY <1>1, <1>3, <2>1, <2>2 DEF InScopeAt
<1>4. ASSUME NEW k \in 1..(b - 1), InScopeAt(s, k, b) PROVE k \in 1..((e + 1) - 1) /\ InScopeAt(s, k, e + 1)
  <2>1. Level(s, b) >= Level(s, k + 1) /\ Level(s, k + 1) \in Nat
    <3>1. b \in (k + 1)..b /\ k + 1 \in 1..(Len(s) + 1)
      BY <1>1
    <3>2. QED
      BY <3>1, <1>1, <1>4 DEF InScopeAt
  <2>2. ASSUME NEW j \in (k + 1)..(e + 1) PROVE Level(s, j) >= Level(s, k + 1)
    <3>1. j \in (k + 1)..b \/ j \in (b + 1)..e \/ j = e + 1
      <4>1. b \in Nat /\ e \in Nat /\ k \in Nat /\ b < e /\ k < b
        BY <1>1
      <4>2. QED
        BY <4>1
    <3>2. CASE j \in (k + 1)..b
      BY <3>2, <1>4 DEF InScopeAt
    <3>3. CASE j \in (b + 1)..e
      <4>1. Level(s, j) > Level(s, b) /\ Level(s, j) \in Nat
        BY <3>3, <1>1
      <4>2. QED
        BY <4>1, <2>1, <1>1
    <3>4. CASE j = e + 1
      BY <3>4, <1>1, <1>2, <2>1
    <3>5. QED
      BY <3>1, <3>2, <3>3, <3>4
  <2>3. ASSUME NEW j \in (k + 1)..((e + 1) - 1), s[j][1] = "else" PROVE Level(s, j) # Level(s, k + 1)
    <3>1. j \in (k + 1)..(b - 1) \/ j = b \/ j \in (b + 1)..e
      BY <1>1
    <3>2. CASE j \in (k + 1)..(b - 1)
      BY <3>2, <2>3, <1>4 DEF InScopeAt
    <3>3. CASE j = b
      BY <3>3, <2>3, <1>1 DEF BlockKinds
    <3>4. CASE j \in (b + 1)..e
      <4>1. Level(s, j) > Level(s, b) /\ Level(s, j) \in Nat
        BY <3>4, <1>1
      <4>2. QED
        BY <4>1, <2>1, <1>1
    <3>5. QED
      BY <3>1, <3>2, <3>3, <3>4
  <2>4. k \in 1..((e + 1) - 1)
    BY <1>1
  <2>5. QED
    BY <1>4, <2>2, <2>3, <2>4 DEF InScopeAt
<1>5. QED
  BY <1>3, <1>4 DEF NamesAt

-----------------------------------------------------------------------------
(* Where the frames stand *)

FrameSet == [kind : BlockKinds \cup {"template"}, template : Templates,
             at : Nat, scope : SUBSET STRING]

\* A step changes the top frame, enters a frame, or goes back to the frame
\* below.
MovesTo(f) ==
    /\ Len(frames) >= 1 /\ f.kind = frames[1].kind /\ f.template = frames[1].template
    /\ frames' \in Seq(FrameSet) /\ Len(frames') = Len(frames) /\ frames'[1] = f
    /\ \A n \in 2..Len(frames) : frames'[n] = frames[n]

Enters(f) ==
    /\ frames' \in Seq(FrameSet) /\ Len(frames') = Len(frames) + 1 /\ frames'[1] = f
    /\ \A n \in 2..(Len(frames) + 1) : frames'[n] = frames[n - 1]

BackTo(f) ==
    /\ Len(frames) >= 2 /\ f.kind = frames[2].kind /\ f.template = frames[2].template
    /\ frames' \in Seq(FrameSet) /\ Len(frames') = Len(frames) - 1 /\ frames'[1] = f
    /\ \A n \in 2..(Len(frames) - 1) : frames'[n] = frames[n + 1]

LEMMA MoveKeepsNested ==
    ASSUME Nested, text' = text, frames \in Seq(FrameSet), NEW f, MovesTo(f), Stands(f),
           Len(frames) > 1 => Over(f, frames[2])
    PROVE  Nested'
<1>1. Len(frames') = Len(frames) /\ Len(frames) \in Nat
  BY DEF MovesTo
<1>2. ASSUME NEW n \in 1..Len(frames)
      PROVE  /\ Stands(frames'[n])
             /\ n < Len(frames) => Over(frames'[n], frames'[n + 1])
             /\ n = Len(frames) => frames'[n].kind = "template"
  <2>1. /\ Stands(frames[n])
        /\ n < Len(frames) => Over(frames[n], frames[n + 1])
        /\ n = Len(frames) => frames[n].kind = "template"
    BY DEF Nested
  <2>2. CASE n = 1
    BY <2>1, <2>2, <1>1 DEF MovesTo
  <2>3. CASE n # 1
    BY <2>1, <2>3, <1>1 DEF MovesTo
  <2>4. QED
    BY <2>2, <2>3
<1>3. \A g, h : Stands(g)' = Stands(g) /\ Over(g, h)' = Over(g, h)
  BY DEF Stands, Over
<1>4. QED
  BY <1>1, <1>2 DEF Nested, Stands, Over

LEMMA EntryKeepsNested ==
    ASSUME Nested, text' = text, frames \in Seq(FrameSet), NEW f, Enters(f), Stands(f),
           Len(frames) >= 1 => Over(f, frames[1]), Len(frames) = 0 => f.kind = "template"
    PROVE  Nested'
<1>1. Len(frames') = Len(frames) + 1 /\ Len(frames) \in Nat
  BY DEF Enters
<1>2. ASSUME NEW n \in 1..(Len(frames) + 1)
      PROVE  /\ Stands(frames'[n])
             /\ n < Len(frames) + 1 => Over(frames'[n], frames'[n + 1])
             /\ n = Len(frames) + 1 => frames'[n].kind = "template"
  <2>1. CASE n = 1
    BY <2>1, <1>1 DEF Enters
  <2>2. CASE n # 1
    <3>1. n - 1 \in 1..Len(frames) /\ (n - 1) + 1 = n
      BY <2>2, <1>1
    <3>2. /\ Stands(frames[n - 1])
          /\ n - 1 < Len(frames) => Over(frames[n - 1], frames[n])
          /\ n - 1 = Len(frames) => frames[n - 1].kind = "template"
      BY <3>1 DEF Nested
    <3>3. frames'[n] = frames[n - 1]
      BY <3>1, <2>2, <1>1 DEF Enters
    <3>5. ASSUME n < Len(frames) + 1 PROVE frames'[n + 1] = frames[n]
      <4>1. n + 1 \in 2..(Len(frames) + 1) /\ (n + 1) - 1 = n
        BY <3>5, <1>1
      <4>2. QED
        BY <4>1 DEF Enters
    <3>4. QED
      BY <3>1, <3>2, <3>3, <3>5, <1>1
  <2>3. QED
    BY <2>1, <2>2
<1>3. QED
  BY <1>1, <1>2 DEF Nested, Stands, Over

LEMMA ReturnKeepsNested ==
    ASSUME Nested, text' = text, frames \in Seq(FrameSet), NEW f, BackTo(f), Stands(f),
           Len(frames) > 2 => Over(f, frames[3])
    PROVE  Nested'
<1>1. Len(frames') = Len(frames) - 1 /\ Len(frames) \in Nat /\ Len(frames) >= 2
  BY DEF BackTo
<1>2. ASSUME NEW n \in 1..(Len(frames) - 1)
      PROVE  /\ Stands(frames'[n])
             /\ n < Len(frames) - 1 => Over(frames'[n], frames'[n + 1])
             /\ n = Len(frames) - 1 => frames'[n].kind = "template"
  <2>1. n + 1 \in 1..Len(frames)
    BY <1>1
  <2>2. /\ Stands(frames[n + 1])
        /\ n + 1 < Len(frames) => Over(frames[n + 1], frames[n + 1 + 1])
        /\ n + 1 = Len(frames) => frames[n + 1].kind = "template"
    BY <2>1 DEF Nested
  <2>3. n < Len(frames) - 1 => frames'[n + 1] = frames[n + 2] /\ n + 1 + 1 = n + 2
    BY <1>1 DEF BackTo
  <2>4. CASE n = 1
    BY <2>2, <2>3, <2>4, <1>1 DEF BackTo
  <2>5. CASE n # 1
    <3>1. frames'[n] = frames[n + 1]
      BY <2>5, <1>1 DEF BackTo
    <3>2. QED
      BY <3>1, <2>2, <2>3, <1>1
  <2>6. QED
    BY <2>4, <2>5
<1>3. QED
  BY <1>1, <1>2 DEF Nested, Stands, Over

LEMMA TopGoesTo ==
    ASSUME NEW q \in Seq(FrameSet), q # <<>>, NEW i \in Nat, NEW sc \in SUBSET STRING
    PROVE  /\ GoTo(q, i, sc) \in Seq(FrameSet) /\ Len(GoTo(q, i, sc)) = Len(q)
           /\ GoTo(q, i, sc)[1] = FrameFor(q[1].kind, q[1].template, i, sc)
           /\ \A n \in 2..Len(q) : GoTo(q, i, sc)[n] = q[n]
<1> DEFINE h == [q[1] EXCEPT !.at = i, !.scope = sc]
<1>1. q[1] \in FrameSet /\ 1 \in DOMAIN q
  OBVIOUS
<1>2. h \in FrameSet /\ h = FrameFor(q[1].kind, q[1].template, i, sc)
  <2>1. h = FrameFor(q[1].kind, q[1].template, i, sc)
    <3> DEFINE y == [q[1] EXCEPT !.at = i]
    <3>1. y \in FrameSet /\ y = [kind |-> q[1].kind, template |-> q[1].template, at |-> i, scope |-> q[1].scope]
      BY <1>1 DEF FrameSet
    <3>2. y.kind = q[1].kind /\ y.template = q[1].template /\ y.at = i
      BY <3>1
    <3>3. h = [y EXCEPT !.scope = sc]
      OBVIOUS
    <3> HIDE DEF y
    <3>4. [y EXCEPT !.scope = sc] = [kind |-> y.kind, template |-> y.template, at |-> y.at, scope |-> sc]
      BY <3>1 DEF FrameSet
    <3>5. QED
      BY <3>2, <3>3, <3>4 DEF FrameFor
  <2>2. FrameFor(q[1].kind, q[1].template, i, sc) \in FrameSet
    BY <1>1 DEF FrameSet, FrameFor
  <2>3. QED
    BY <2>1, <2>2
<1>3. GoTo(q, i, sc) = [q EXCEPT ![1] = h]
  BY DEF GoTo
<1> HIDE DEF h
<1>4. QED
  BY <1>1, <1>2, <1>3

LEMMA MoveShape ==
    ASSUME frames \in Seq(FrameSet), frames # <<>>, NEW i \in Nat, NEW sc \in SUBSET STRING,
           frames' = GoTo(frames, i, sc)
    PROVE  MovesTo(FrameFor(frames[1].kind, frames[1].template, i, sc))
<1>1. Len(frames) \in Nat /\ Len(frames) >= 1
  OBVIOUS
<1>2. QED
  BY <1>1, TopGoesTo DEF MovesTo, FrameFor

LEMMA EntryShape ==
    ASSUME frames \in Seq(FrameSet), NEW f \in FrameSet, frames' = <<f>> \o frames
    PROVE  Enters(f)
BY DEF Enters

LEMMA ReturnShape ==
    ASSUME frames \in Seq(FrameSet), Len(frames) >= 2, NEW i \in Nat, NEW sc \in SUBSET STRING,
           Leave(i, sc)
    PROVE  BackTo(FrameFor(frames[2].kind, frames[2].template, i, sc))
<1> DEFINE below == Tail(frames)
<1>1. /\ below \in Seq(FrameSet) /\ Len(below) = Len(frames) - 1 /\ Len(frames) \in Nat
      /\ \A n \in 1..(Len(frames) - 1) : below[n] = frames[n + 1]
      /\ below[1] = frames[2] /\ frames[2] \in FrameSet
  BY SMT
<1>2. frames' = GoTo(below, i, sc)
  BY DEF Leave
<1> HIDE DEF below
<1>3. /\ frames' \in Seq(FrameSet) /\ Len(frames') = Len(below)
      /\ frames'[1] = FrameFor(below[1].kind, below[1].template, i, sc)
      /\ \A n \in 2..Len(below) : frames'[n] = below[n]
  <2>1. below # <<>>
    BY <1>1
  <2>2. QED
    BY <1>1, <1>2, <2>1, TopGoesTo
<1>4. QED
  BY <1>1, <1>3 DEF BackTo, FrameFor

\* A frame is at a token of its text, or at its end.
LEMMA FramesAreTyped ==
    ASSUME TemplatesTypeOK, NEW n \in 1..Len(frames)
    PROVE  /\ frames \in Seq(FrameSet) /\ Len(frames) \in Nat /\ frames[n] \in FrameSet
           /\ frames[n].kind \in BlockKinds \cup {"template"}
           /\ frames[n].template \in Templates /\ frames[n].at \in Nat
           /\ frames[n].scope \subseteq STRING
           /\ text[frames[n].template] \in Texts
<1>1. frames \in Seq(FrameSet)
  BY DEF TemplatesTypeOK, FrameSet
<1>2. frames[n] \in FrameSet
  BY <1>1
<1>3. QED
  BY <1>1, <1>2 DEF TemplatesTypeOK, FrameSet

\* A frame that goes on behind a block, or behind a token that is not of one,
\* stands where it stood.
LEMMA GoesOn ==
    ASSUME TemplatesTypeOK, Nested, NEW n \in 1..Len(frames),
           NEW i \in 1..(Len(text[frames[n].template]) + 1), frames[n].at <= i,
           \A j \in frames[n].at..i :
              Level(text[frames[n].template], j) >= Level(text[frames[n].template], frames[n].at),
           Level(text[frames[n].template], i) = Level(text[frames[n].template], frames[n].at),
           NEW f, f.kind = frames[n].kind, f.template = frames[n].template, f.at = i
    PROVE  Stands(f) /\ (n < Len(frames) => Over(f, frames[n + 1]))
<1> DEFINE s == text[frames[n].template]
           p == frames[n].at
<1>1. /\ s \in Texts /\ Len(s) \in Nat /\ \A j \in 1..(Len(s) + 1) : Level(s, j) \in Nat
  BY FramesAreTyped, TokensAreTyped, LevelIsNat
<1>2. /\ Stands(frames[n])
      /\ n < Len(frames) => Over(frames[n], frames[n + 1])
  BY DEF Nested
<1>3. p \in 1..(Len(s) + 1)
  BY <1>2 DEF Stands
<1>4. Stands(f)
  BY <1>2 DEF Stands
<1>5. ASSUME n < Len(frames) PROVE Over(f, frames[n + 1])
  <2>1. CASE f.kind = "template"
    BY <1>2, <1>5, <2>1 DEF Over
  <2>2. CASE f.kind # "template"
    <3> DEFINE b == frames[n + 1].at
    <3>1. frames[n].template = frames[n + 1].template /\ InBlock(s, b, p)
      BY <1>2, <1>5, <2>2 DEF Over
    <3>2. b \in 1..Len(s) /\ b < p /\ Level(s, p) = Level(s, b) + 1
      BY <3>1 DEF InBlock
    <3>3. ASSUME NEW j \in (b + 1)..i PROVE Level(s, j) > Level(s, b)
      <4>1. CASE j <= p
        BY <3>1, <3>2, <4>1, <1>1, <1>3 DEF InBlock
      <4>2. CASE j >= p
        <5>1. j \in p..i
          BY <4>2
        <5>2. b \in 1..(Len(s) + 1)
          BY <3>2, <1>1
        <5>3. i <= Len(s) + 1 /\ j \in Int /\ b \in Int /\ b < j /\ j <= i
          BY <3>2
        <5>4. j \in 1..(Len(s) + 1)
          BY <5>2, <5>3, <1>1
        <5>5. Level(s, j) >= Level(s, p)
          BY <5>1
        <5>6. Level(s, j) \in Nat /\ Level(s, b) \in Nat
          BY <5>2, <5>4, <1>1
        <5>7. QED
          BY <5>5, <5>6, <3>2
      <4>3. QED
        BY <4>1, <4>2, <3>2, <1>1, <1>3
    <3>4. InBlock(s, b, i)
      BY <3>1, <3>2, <3>3, <1>1, <1>3 DEF InBlock
    <3>5. QED
      BY <2>2, <3>1, <3>4 DEF Over
  <2>3. QED
    BY <2>1, <2>2
<1>6. QED
  BY <1>4, <1>5

\* Behind a token that is not of a block.
LEMMA GoesOnPlain ==
    ASSUME TemplatesTypeOK, Nested, NEW n \in 1..Len(frames),
           frames[n].at \in 1..Len(text[frames[n].template]),
           text[frames[n].template][frames[n].at][1] \notin BlockKinds \cup {"end"},
           NEW f, f.kind = frames[n].kind, f.template = frames[n].template, f.at = frames[n].at + 1
    PROVE  Stands(f) /\ (n < Len(frames) => Over(f, frames[n + 1]))
<1> DEFINE s == text[frames[n].template]
           p == frames[n].at
<1>1. /\ s \in Texts /\ Len(s) \in Nat /\ \A j \in 1..(Len(s) + 1) : Level(s, j) \in Nat
  BY FramesAreTyped, TokensAreTyped, LevelIsNat
<1>2. Level(s, p + 1) = Level(s, p)
  BY <1>1, LevelStep
<1>3. \A j \in p..(p + 1) : j = p \/ j = p + 1
  BY <1>1
<1>4. \A j \in p..(p + 1) : Level(s, j) >= Level(s, p)
  <2>1. Level(s, p) \in Nat
    BY <1>1
  <2>2. QED
    BY <2>1, <1>2, <1>3
<1>5. p + 1 \in 1..(Len(s) + 1) /\ p <= p + 1
  BY <1>1
<1>6. QED
  BY <1>2, <1>4, <1>5, GoesOn

\* Behind the block that the frame is at.
LEMMA GoesOnBehind ==
    ASSUME TemplatesTypeOK, Nested, NEW n \in 1..Len(frames),
           NEW e \in 1..Len(text[frames[n].template]),
           InBlock(text[frames[n].template], frames[n].at, e),
           text[frames[n].template][e][1] = "end",
           NEW f, f.kind = frames[n].kind, f.template = frames[n].template, f.at = e + 1
    PROVE  Stands(f) /\ (n < Len(frames) => Over(f, frames[n + 1]))
<1> DEFINE s == text[frames[n].template]
           p == frames[n].at
<1>1. /\ s \in Texts /\ Len(s) \in Nat /\ \A j \in 1..(Len(s) + 1) : Level(s, j) \in Nat
  BY FramesAreTyped, TokensAreTyped, LevelIsNat
<1>2. /\ p \in 1..Len(s) /\ p < e /\ Level(s, e) = Level(s, p) + 1
      /\ \A j \in (p + 1)..e : Level(s, j) > Level(s, p)
  BY DEF InBlock
<1>3. Level(s, e + 1) = Level(s, p)
  <2>1. "end" \notin BlockKinds
    BY DEF BlockKinds
  <2>2. Level(s, e + 1) = Level(s, e) - 1 /\ Level(s, p) \in Nat
    BY <1>1, <1>2, <2>1, LevelStep
  <2>3. QED
    BY <1>2, <2>2
<1>4. \A j \in p..(e + 1) : j = p \/ j \in (p + 1)..e \/ j = e + 1
  BY <1>1, <1>2
<1>5. \A j \in p..(e + 1) : Level(s, j) >= Level(s, p)
  <2> TAKE j \in p..(e + 1)
  <2>1. j \in 1..(Len(s) + 1) /\ p \in 1..(Len(s) + 1)
    BY <1>1, <1>2
  <2>2. Level(s, j) \in Nat /\ Level(s, p) \in Nat
    BY <1>1, <2>1
  <2>3. QED
    BY <1>2, <1>3, <1>4, <2>2
<1>6. e + 1 \in 1..(Len(s) + 1) /\ p <= e + 1
  BY <1>1, <1>2
<1>7. QED
  BY <1>3, <1>5, <1>6, GoesOn

LEMMA BlockBegins ==
    ASSUME NEW s \in Texts, NEW b \in 1..Len(s), s[b][1] \in BlockKinds
    PROVE  InBlock(s, b, b + 1)
<1>1. Len(s) \in Nat /\ \A j \in 1..(Len(s) + 1) : Level(s, j) \in Nat
  BY TokensAreTyped, LevelIsNat
<1>2. Level(s, b + 1) = Level(s, b) + 1 /\ Level(s, b) \in Nat
  BY <1>1, LevelStep
<1>3. \A j \in (b + 1)..(b + 1) : j = b + 1
  OBVIOUS
<1>4. QED
  BY <1>1, <1>2, <1>3 DEF InBlock

LEMMA BranchBegins ==
    ASSUME NEW s \in Texts, NEW b, NEW e \in 1..Len(s), InBlock(s, b, e), s[e][1] = "else"
    PROVE  InBlock(s, b, e + 1)
<1>1. Len(s) \in Nat /\ \A j \in 1..(Len(s) + 1) : Level(s, j) \in Nat
  BY TokensAreTyped, LevelIsNat
<1>2. Level(s, e + 1) = Level(s, e)
  BY LevelStep DEF BlockKinds
<1>3. b \in 1..Len(s) /\ b < e /\ Level(s, b) \in Nat /\ Level(s, e) = Level(s, b) + 1
  BY <1>1 DEF InBlock
<1>4. \A j \in (b + 1)..(e + 1) : j \in (b + 1)..e \/ j = e + 1
  BY <1>3
<1>5. QED
  BY <1>2, <1>3, <1>4 DEF InBlock

\* The top frame at a token.
LEMMA TopAtToken ==
    ASSUME TemplatesTypeOK, Nested, frames # <<>>, ~Finished
    PROVE  /\ Len(frames) >= 1 /\ Len(frames) \in Nat /\ Top = frames[1] /\ frames \in Seq(FrameSet)
           /\ Top.at \in 1..Len(text[Top.template])
           /\ text[Top.template] \in Texts /\ Top.template \in Templates
           /\ Top.kind \in BlockKinds \cup {"template"} /\ Top.scope \subseteq STRING
           /\ Token[1] \in TokenKinds /\ Token[2] \in STRING
           /\ Token[1] \in {"include", "bare"} => Token[2] \in Templates
           /\ Top.at \in Nat
<1>1. Len(frames) >= 1 /\ Len(frames) \in Nat /\ 1 \in 1..Len(frames)
  BY DEF TemplatesTypeOK
<1>2. /\ frames \in Seq(FrameSet) /\ frames[1] \in FrameSet /\ text[Top.template] \in Texts
      /\ Top.kind \in BlockKinds \cup {"template"} /\ Top.template \in Templates
      /\ Top.at \in Nat /\ Top.scope \subseteq STRING
  BY <1>1, FramesAreTyped DEF Top
<1>3. Top.at \in 1..Len(text[Top.template])
  <2>1. Stands(frames[1])
    BY <1>1 DEF Nested
  <2>2. Len(text[Top.template]) \in Nat
    BY <1>2, TokensAreTyped
  <2>3. QED
    BY <2>1, <2>2 DEF Stands, Finished, Top
<1>4. QED
  BY <1>1, <1>2, <1>3, TokensAreTyped DEF Token, Top

\* A frame at an end or an else is a block, and stands in it.
LEMMA TopInBlock ==
    ASSUME TemplatesTypeOK, Nested, frames # <<>>, ~Finished, Token[1] \in {"end", "else"}
    PROVE  /\ Len(frames) >= 2 /\ Top.kind \in BlockKinds
           /\ Top.template = frames[2].template
           /\ frames[2].at \in 1..Len(text[Top.template])
           /\ text[Top.template][frames[2].at][1] \in BlockKinds
           /\ InBlock(text[Top.template], frames[2].at, Top.at)
<1> DEFINE s == text[Top.template]
<1>1. /\ Len(frames) >= 1 /\ Len(frames) \in Nat /\ Top = frames[1] /\ s \in Texts
      /\ Top.at \in 1..Len(s) /\ Top.kind \in BlockKinds \cup {"template"}
  BY TopAtToken
<1>2. Len(s) \in Nat /\ \A j \in 1..(Len(s) + 1) : Level(s, j) \in Nat
  BY <1>1, TokensAreTyped, LevelIsNat
<1>3. Level(s, Top.at) > 0
  <2>1. CASE Token[1] = "else"
    BY <1>1, <2>1, TemplatesAssumption DEF Parses, Token
  <2>2. CASE Token[1] = "end"
    <3>1. Level(s, Top.at + 1) = Level(s, Top.at) - 1
      BY <1>1, <2>2, LevelStep DEF Token, BlockKinds
    <3>2. Top.at + 1 \in 1..(Len(s) + 1) /\ Top.at \in 1..(Len(s) + 1)
      BY <1>1, <1>2
    <3>3. QED
      BY <3>1, <3>2, <1>2
  <2>3. QED
    BY <2>1, <2>2
<1>4. Top.kind # "template" /\ Len(frames) # 1
  <2>1. Stands(frames[1]) /\ (1 = Len(frames) => frames[1].kind = "template")
    BY <1>1 DEF Nested
  <2>2. QED
    BY <2>1, <1>1, <1>3 DEF Stands
<1>5. Over(frames[1], frames[2])
  BY <1>1, <1>4 DEF Nested
<1>6. /\ Top.template = frames[2].template
      /\ InBlock(s, frames[2].at, Top.at)
  BY <1>1, <1>4, <1>5 DEF Over
<1>7. Top.kind \in BlockKinds /\ Len(frames) >= 2
  <2>1. Len(frames) >= 2
    <3>1. Len(frames) >= 1 /\ Len(frames) \in Nat
      BY <1>1
    <3>2. Len(frames) # 1
      BY <1>4
    <3>3. QED
      BY <3>1, <3>2, NotOne
  <2>2. Top.kind \in BlockKinds
    BY <1>1, <1>4, Zenon
  <2>3. QED
    BY <2>1, <2>2
<1>8. frames[2].at \in 1..Len(s) /\ s[frames[2].at][1] \in BlockKinds
  BY <1>6 DEF InBlock
<1>9. QED
  BY <1>6, <1>7, <1>8

\* A frame that has come to its end is a template.
LEMMA FinishedIsTemplate ==
    ASSUME TemplatesTypeOK, Nested, frames # <<>>, Finished
    PROVE  /\ Len(frames) \in Nat /\ Len(frames) >= 1 /\ Top.kind = "template"
           /\ text[Top.template] \in Texts /\ Top.at = Len(text[Top.template]) + 1
           /\ Len(frames) >= 2 => /\ frames[2].at \in 1..Len(text[frames[2].template])
                                  /\ text[frames[2].template][frames[2].at][1] \in {"include", "bare"}
<1> DEFINE s == text[Top.template]
<1>1. /\ Len(frames) >= 1 /\ Len(frames) \in Nat /\ Top = frames[1] /\ s \in Texts
      /\ Top.kind \in BlockKinds \cup {"template"} /\ Top.at \in Nat
  BY FramesAreTyped DEF Top, TemplatesTypeOK
<1>2. Len(s) \in Nat /\ Level(s, Len(s) + 1) = 0 /\ \A j \in 1..(Len(s) + 1) : Level(s, j) \in Nat
  BY <1>1, TokensAreTyped, LevelIsNat
<1>3. /\ Stands(frames[1]) /\ (Len(frames) = 1 => frames[1].kind = "template")
      /\ 1 < Len(frames) => Over(frames[1], frames[2])
  BY <1>1 DEF Nested
<1>4. Top.at = Len(s) + 1
  BY <1>1, <1>2, <1>3 DEF Stands, Finished
<1>5. Top.kind = "template"
  <2> SUFFICES ASSUME Top.kind # "template" PROVE FALSE
    OBVIOUS
  <2>0. Len(frames) >= 2
    <3>1. Len(frames) >= 1 /\ Len(frames) \in Nat
      BY <1>1
    <3>2. Len(frames) # 1
      BY <1>1, <1>3
    <3>3. QED
      BY <3>1, <3>2, NotOne
  <2>1. frames[1].template = frames[2].template /\ InBlock(s, frames[2].at, Len(s) + 1)
    <3>1. Over(frames[1], frames[2]) /\ frames[1].kind # "template" /\ frames[1].at = Len(s) + 1
      BY <1>1, <1>3, <1>4, <2>0
    <3>2. QED
      BY <1>1, <3>1 DEF Over
  <2>2. frames[2].at \in 1..Len(s) /\ Level(s, Len(s) + 1) = Level(s, frames[2].at) + 1
    BY <2>1 DEF InBlock
  <2>3. Level(s, frames[2].at) \in Nat
    BY <2>2, <1>2
  <2>4. QED
    BY <2>2, <2>3, <1>2
<1>6. QED
  BY <1>1, <1>3, <1>4, <1>5 DEF Over

\* Every step but the ones that begin or end a walk changes the frames in one of
\* three ways.  The frames stay nested.
LEMMA AdvanceIsNested ==
    ASSUME TemplatesTypeOK, Nested, text' = text, frames # <<>>, ~Finished,
           Token[1] \notin BlockKinds \cup {"end"}, NEW sc \in SUBSET STRING, Advance(sc)
    PROVE  /\ MovesTo(FrameFor(Top.kind, Top.template, Top.at + 1, sc))
           /\ Nested'
<1> DEFINE f == FrameFor(Top.kind, Top.template, Top.at + 1, sc)
<1>1. /\ Len(frames) >= 1 /\ Len(frames) \in Nat /\ Top = frames[1] /\ frames \in Seq(FrameSet)
      /\ Top.at \in 1..Len(text[Top.template]) /\ Top.at \in Nat /\ 1 \in 1..Len(frames)
  BY TopAtToken
<1>2. MovesTo(f)
  <2>1. frames' = GoTo(frames, Top.at + 1, sc) /\ Top.at + 1 \in Nat
    BY <1>1 DEF Advance
  <2>2. QED
    BY <1>1, <2>1, MoveShape
<1>3. f.kind = Top.kind /\ f.template = Top.template /\ f.at = Top.at + 1
  BY DEF FrameFor
<1>4. Stands(f) /\ (1 < Len(frames) => Over(f, frames[1 + 1]))
  <2> HIDE DEF f
  <2>1. text[Top.template][Top.at][1] \notin BlockKinds \cup {"end"}
    BY DEF Token
  <2>2. QED
    BY <1>1, <1>3, <2>1, GoesOnPlain
<1>5. Nested'
  BY <1>1, <1>2, <1>4, MoveKeepsNested
<1>6. QED
  BY <1>2, <1>5

LEMMA EntryIsNested ==
    ASSUME TemplatesTypeOK, Nested, text' = text, frames # <<>>, ~Finished,
           Token[1] \in BlockKinds, NEW k \in BlockKinds, NEW i \in Nat, NEW sc \in SUBSET STRING,
           InBlock(text[Top.template], Top.at, i), i \in 1..(Len(text[Top.template]) + 1),
           frames' = <<FrameFor(k, Top.template, i, sc)>> \o frames
    PROVE  /\ Enters(FrameFor(k, Top.template, i, sc))
           /\ Nested'
<1> DEFINE f == FrameFor(k, Top.template, i, sc)
<1>1. /\ Len(frames) >= 1 /\ Len(frames) \in Nat /\ Top = frames[1] /\ frames \in Seq(FrameSet)
      /\ Top.template \in Templates
  BY TopAtToken
<1>2. /\ f.kind = k /\ f.template = Top.template /\ f.at = i /\ f.kind # "template"
      /\ f \in FrameSet
  BY <1>1 DEF FrameFor, FrameSet, BlockKinds
<1>3. Enters(f)
  BY <1>1, <1>2, EntryShape
<1> HIDE DEF f
<1>4. Stands(f) /\ Over(f, frames[1])
  BY <1>1, <1>2 DEF Stands, Over
<1>5. Len(frames) # 0
  BY <1>1
<1>6. Nested'
  BY <1>1, <1>3, <1>4, <1>5, EntryKeepsNested
<1>7. QED
  BY <1>3, <1>6 DEF f

LEMMA InclusionIsNested ==
    ASSUME TemplatesTypeOK, Nested, text' = text, frames # <<>>, ~Finished,
           Token[1] \in {"include", "bare"}, NEW sc \in SUBSET STRING,
           frames' = <<FrameFor("template", Token[2], 1, sc)>> \o frames
    PROVE  /\ Enters(FrameFor("template", Token[2], 1, sc))
           /\ Nested'
<1> DEFINE f == FrameFor("template", Token[2], 1, sc)
<1>1. /\ Len(frames) >= 1 /\ Len(frames) \in Nat /\ Top = frames[1] /\ frames \in Seq(FrameSet)
      /\ Top.at \in 1..Len(text[Top.template]) /\ Token[2] \in Templates
  BY TopAtToken
<1>2. /\ f.kind = "template" /\ f.template = Token[2] /\ f.at = 1
      /\ f \in FrameSet
  BY <1>1 DEF FrameFor, FrameSet
<1>3. Enters(f)
  BY <1>1, <1>2, EntryShape
<1> HIDE DEF f
<1>4. text[Token[2]] \in Texts
  BY <1>1 DEF TemplatesTypeOK
<1>5. Level(text[Token[2]], 1) = 0 /\ 1 \in 1..(Len(text[Token[2]]) + 1)
  BY <1>4, LevelIsNat, TokensAreTyped
<1>6. Stands(f) /\ Over(f, frames[1])
  <2>1. Stands(f)
    BY <1>2, <1>5 DEF Stands
  <2>2. Over(f, frames[1])
    BY <1>1, <1>2 DEF Over, Token
  <2>3. QED
    BY <2>1, <2>2
<1>7. Len(frames) # 0
  BY <1>1
<1>8. Nested'
  BY <1>1, <1>3, <1>6, <1>7, EntryKeepsNested
<1>9. QED
  BY <1>3, <1>8 DEF f

LEMMA EndIsNested ==
    ASSUME TemplatesTypeOK, Nested, text' = text, frames # <<>>, ~Finished,
           Token[1] = "end", NEW sc \in SUBSET STRING, Leave(Top.at + 1, sc)
    PROVE  /\ BackTo(FrameFor(frames[2].kind, frames[2].template, Top.at + 1, sc))
           /\ Nested'
<1> DEFINE f == FrameFor(frames[2].kind, frames[2].template, Top.at + 1, sc)
<1>1. /\ Top = frames[1] /\ frames \in Seq(FrameSet) /\ Len(frames) \in Nat
      /\ Top.at \in 1..Len(text[Top.template]) /\ Top.at \in Nat
  BY TopAtToken
<1>2. /\ Len(frames) >= 2 /\ Top.template = frames[2].template
      /\ InBlock(text[Top.template], frames[2].at, Top.at)
  BY TopInBlock
<1>3. BackTo(f)
  <2>1. Top.at + 1 \in Nat
    BY <1>1
  <2>2. QED
    BY <1>1, <1>2, <2>1, ReturnShape
<1>4. f.kind = frames[2].kind /\ f.template = frames[2].template /\ f.at = Top.at + 1
  BY DEF FrameFor
<1> HIDE DEF f
<1>5. Stands(f) /\ (2 < Len(frames) => Over(f, frames[2 + 1]))
  <2>1. text[Top.template][Top.at][1] = "end" /\ 2 \in 1..Len(frames)
    BY <1>1, <1>2 DEF Token
  <2>2. QED
    BY <1>1, <1>2, <1>4, <2>1, GoesOnBehind
<1>6. Nested'
  BY <1>1, <1>3, <1>5, ReturnKeepsNested
<1>7. QED
  BY <1>3, <1>6 DEF f

LEMMA ReturnIsNested ==
    ASSUME TemplatesTypeOK, Nested, text' = text, frames # <<>>, Finished, Len(frames) # 1,
           Leave(frames[2].at + 1, frames[2].scope)
    PROVE  /\ Len(frames) >= 2
           /\ BackTo(FrameFor(frames[2].kind, frames[2].template, frames[2].at + 1, frames[2].scope))
           /\ Nested'
<1> DEFINE f == FrameFor(frames[2].kind, frames[2].template, frames[2].at + 1, frames[2].scope)
<1>1. Len(frames) \in Nat /\ Len(frames) >= 2
  BY FinishedIsTemplate, NotOne
<1>2. /\ frames[2].at \in 1..Len(text[frames[2].template])
      /\ text[frames[2].template][frames[2].at][1] \in {"include", "bare"}
  BY <1>1, FinishedIsTemplate
<1>3. frames \in Seq(FrameSet) /\ frames[2].at \in Nat /\ frames[2].scope \in SUBSET STRING /\ 2 \in 1..Len(frames)
  BY <1>1, FramesAreTyped
<1>4. BackTo(f)
  <2>1. frames[2].at + 1 \in Nat
    BY <1>3
  <2>2. QED
    BY <1>1, <1>3, <2>1, ReturnShape
<1>5. f.kind = frames[2].kind /\ f.template = frames[2].template /\ f.at = frames[2].at + 1
  BY DEF FrameFor
<1> HIDE DEF f
<1>6. Stands(f) /\ (2 < Len(frames) => Over(f, frames[2 + 1]))
  <2>1. text[frames[2].template][frames[2].at][1] \notin BlockKinds \cup {"end"}
    BY <1>2 DEF BlockKinds
  <2>2. QED
    BY <1>2, <1>3, <1>5, <2>1, GoesOnPlain
<1>7. Nested'
  BY <1>3, <1>4, <1>6, ReturnKeepsNested
<1>8. QED
  BY <1>1, <1>4, <1>7 DEF f

\* Within the block below: behind an else, at its end, or at its beginning again.
LEMMA JumpWithinIsNested ==
    ASSUME TemplatesTypeOK, Nested, text' = text, frames # <<>>, ~Finished,
           Token[1] \in {"end", "else"}, NEW i \in Nat, NEW sc \in SUBSET STRING,
           i \in 1..(Len(text[Top.template]) + 1),
           InBlock(text[Top.template], frames[2].at, i), frames' = GoTo(frames, i, sc)
    PROVE  /\ MovesTo(FrameFor(Top.kind, Top.template, i, sc))
           /\ Nested'
<1> DEFINE f == FrameFor(Top.kind, Top.template, i, sc)
<1>1. /\ Top = frames[1] /\ frames \in Seq(FrameSet) /\ Len(frames) \in Nat
  BY TopAtToken
<1>2. /\ Len(frames) >= 2 /\ Top.kind \in BlockKinds /\ Top.template = frames[2].template
  BY TopInBlock
<1>3. MovesTo(f)
  BY <1>1, MoveShape
<1>4. f.kind # "template" /\ f.template = Top.template /\ f.at = i
  BY <1>2 DEF FrameFor, BlockKinds
<1> HIDE DEF f
<1>5. Stands(f) /\ Over(f, frames[2])
  BY <1>2, <1>4 DEF Stands, Over
<1>6. Nested'
  BY <1>1, <1>3, <1>5, MoveKeepsNested
<1>7. QED
  BY <1>3, <1>6 DEF f

\* Past the block that the top frame is at.
LEMMA SkipIsNested ==
    ASSUME TemplatesTypeOK, Nested, text' = text, frames # <<>>, ~Finished,
           NEW e \in 1..Len(text[Top.template]), InBlock(text[Top.template], Top.at, e),
           text[Top.template][e][1] = "end", NEW sc \in SUBSET STRING,
           frames' = GoTo(frames, e + 1, sc)
    PROVE  /\ MovesTo(FrameFor(Top.kind, Top.template, e + 1, sc))
           /\ Nested'
<1> DEFINE f == FrameFor(Top.kind, Top.template, e + 1, sc)
<1>1. /\ Top = frames[1] /\ frames \in Seq(FrameSet) /\ Len(frames) \in Nat /\ Len(frames) >= 1
      /\ 1 \in 1..Len(frames) /\ text[Top.template] \in Texts
  BY TopAtToken
<1>2. e + 1 \in Nat
  BY <1>1, TokensAreTyped
<1>3. MovesTo(f)
  BY <1>1, <1>2, MoveShape
<1>4. f.kind = Top.kind /\ f.template = Top.template /\ f.at = e + 1
  BY DEF FrameFor
<1> HIDE DEF f
<1>5. Stands(f) /\ (1 < Len(frames) => Over(f, frames[1 + 1]))
  BY <1>1, <1>4, GoesOnBehind
<1>6. Nested'
  BY <1>1, <1>3, <1>5, MoveKeepsNested
<1>7. QED
  BY <1>3, <1>6 DEF f

-----------------------------------------------------------------------------
(* What the check has walked *)

\* A template is walked for the templates on the way to it, with the names that
\* it starts with.
Walks == [template : Templates, path : SUBSET Templates, scope : SUBSET STRING]

WalkOfPage == [template |-> "page", path |-> {"page"}, scope |-> context]

\* The walk of the template that the token i of the walk a, of the text s,
\* includes.
Included(s, a, i) ==
    [template |-> s[i][2], path |-> a.path \cup {s[i][2]},
     scope |-> IF s[i][1] = "include" THEN a.scope \cup NamesAt(s, i) ELSE {}]

\* The walks W leave nothing out at the token i of the walk a.
Seen(W, a, i) ==
    LET s == text[a.template] IN
    /\ s[i][1] = "use" =>
          \/ s[i][2] \in a.scope \cup NamesAt(s, i) \cup Excused(a.template)
          \/ <<a.template, i>> \in reported
    /\ s[i][1] \in {"include", "bare"} =>
          IF s[i][2] \in a.path THEN cyclic ELSE Included(s, a, i) \in W

Complete(W, a) == \A i \in 1..Len(text[a.template]) : Seen(W, a, i)

\* w has the walk that each frame belongs to.
WalkAt(w, n) ==
    /\ w[n].template = frames[n].template
    /\ w[n].path = {frames[m].template : m \in n..Len(frames)}
    /\ n = Len(frames) => w[n] = WalkOfPage
    /\ n < Len(frames) =>
          IF frames[n].kind = "template"
          THEN /\ w[n] = Included(text[w[n + 1].template], w[n + 1], frames[n + 1].at)
               /\ w[n].template \notin w[n + 1].path
          ELSE w[n] = w[n + 1]

WalksOfFrames(w) ==
    /\ w \in Seq(Walks) /\ Len(w) = Len(frames)
    /\ \A n \in 1..Len(frames) : WalkAt(w, n)

LEMMA MoveKeepsWalks ==
    ASSUME frames \in Seq(FrameSet), text' = text, context' = context,
           NEW w, WalksOfFrames(w), NEW f, MovesTo(f)
    PROVE  WalksOfFrames(w)'
<1>1. /\ Len(frames) \in Nat /\ Len(frames') = Len(frames)
      /\ \A n \in 1..Len(frames) : frames'[n].template = frames[n].template /\ frames'[n].kind = frames[n].kind
  BY DEF MovesTo
<1>2. \A n \in 1..Len(frames) : n < Len(frames) => frames'[n + 1] = frames[n + 1]
  BY <1>1 DEF MovesTo
<1>3. ASSUME NEW n \in 1..Len(frames) PROVE WalkAt(w, n)'
  <2>1. WalkAt(w, n)
    BY DEF WalksOfFrames
  <2>2. {frames'[m].template : m \in n..Len(frames')} = {frames[m].template : m \in n..Len(frames)}
    BY <1>1
  <2>3. WalkOfPage' = WalkOfPage
    BY DEF WalkOfPage
  <2>5. /\ w[n].template = frames'[n].template
        /\ w[n].path = {frames'[m].template : m \in n..Len(frames')}
        /\ n = Len(frames') => w[n] = WalkOfPage'
    BY <2>1, <2>2, <2>3, <1>1 DEF WalkAt
  <2>6. n < Len(frames') =>
          IF frames'[n].kind = "template"
          THEN w[n] = Included(text'[w[n + 1].template], w[n + 1], frames'[n + 1].at) /\ w[n].template \notin w[n + 1].path
          ELSE w[n] = w[n + 1]
    BY <2>1, <1>1, <1>2 DEF WalkAt
  <2>7. QED
    BY <2>5, <2>6 DEF WalkAt
<1>4. QED
  BY <1>1, <1>3 DEF WalksOfFrames

LEMMA EntryKeepsWalks ==
    ASSUME frames \in Seq(FrameSet), text' = text, context' = context,
           NEW w, WalksOfFrames(w), NEW f, Enters(f), Len(frames) >= 1,
           NEW c \in Walks, c.template = f.template, c.path = w[1].path \cup {f.template},
           IF f.kind = "template"
           THEN c = Included(text[w[1].template], w[1], frames[1].at) /\ c.template \notin w[1].path
           ELSE c = w[1]
    PROVE  WalksOfFrames(<<c>> \o w)'
<1> DEFINE v == <<c>> \o w
<1>1. /\ Len(frames) \in Nat /\ Len(frames') = Len(frames) + 1 /\ frames'[1] = f
      /\ \A n \in 2..(Len(frames) + 1) : frames'[n] = frames[n - 1]
  BY DEF Enters
<1>2. w \in Seq(Walks) /\ Len(w) = Len(frames) /\ \A n \in 1..Len(frames) : WalkAt(w, n)
  BY DEF WalksOfFrames
<1>3. /\ v \in Seq(Walks) /\ Len(v) = Len(frames) + 1 /\ v[1] = c
      /\ \A n \in 2..(Len(frames) + 1) : v[n] = w[n - 1]
  BY <1>2
<1> HIDE DEF v
<1>4. WalkOfPage' = WalkOfPage
  BY DEF WalkOfPage
<1>6. ASSUME NEW n \in 2..(Len(frames) + 1)
      PROVE  {frames'[m].template : m \in n..Len(frames')} = {frames[m].template : m \in (n - 1)..Len(frames)}
  <2>1. ASSUME NEW m \in n..Len(frames') PROVE frames'[m].template \in {frames[k].template : k \in (n - 1)..Len(frames)}
    <3>1. m - 1 \in (n - 1)..Len(frames) /\ frames'[m] = frames[m - 1]
      BY <1>1
    <3>2. QED
      BY <3>1
  <2>2. ASSUME NEW k \in (n - 1)..Len(frames) PROVE frames[k].template \in {frames'[m].template : m \in n..Len(frames')}
    <3>1. k + 1 \in n..Len(frames') /\ k + 1 \in 2..(Len(frames) + 1) /\ (k + 1) - 1 = k
      BY <1>1
    <3>2. frames'[k + 1] = frames[k]
      BY <3>1, <1>1
    <3>3. QED
      BY <3>1, <3>2
  <2>3. QED
    BY <2>1, <2>2
<1>7. ASSUME NEW n \in 2..(Len(frames) + 1) PROVE WalkAt(v, n)'
  <2>1. n - 1 \in 1..Len(frames) /\ v[n] = w[n - 1] /\ frames'[n] = frames[n - 1] /\ (n - 1) + 1 = n
    <3>1. n - 1 \in 1..Len(frames) /\ (n - 1) + 1 = n
      BY <1>1
    <3>2. v[n] = w[n - 1] /\ frames'[n] = frames[n - 1]
      BY <1>1, <1>3
    <3>3. QED
      BY <3>1, <3>2
  <2>2. WalkAt(w, n - 1)
    BY <2>1, <1>2
  <2>3. n < Len(frames') => v[n + 1] = w[n] /\ frames'[n + 1] = frames[n]
    <3>1. SUFFICES ASSUME n < Len(frames') PROVE v[n + 1] = w[n] /\ frames'[n + 1] = frames[n]
      OBVIOUS
    <3>2. n + 1 \in 2..(Len(frames) + 1) /\ (n + 1) - 1 = n
      BY <3>1, <1>1
    <3>3. QED
      BY <3>2, <1>1, <1>3
  <2>4. /\ v[n].template = frames'[n].template
        /\ v[n].path = {frames'[m].template : m \in n..Len(frames')}
        /\ n = Len(frames') => v[n] = WalkOfPage'
    <3>1. n = Len(frames') => n - 1 = Len(frames)
      BY <1>1
    <3>2. QED
      BY <2>1, <2>2, <1>4, <1>6, <3>1 DEF WalkAt
  <2>5. n < Len(frames') =>
          IF frames'[n].kind = "template"
          THEN v[n] = Included(text'[v[n + 1].template], v[n + 1], frames'[n + 1].at) /\ v[n].template \notin v[n + 1].path
          ELSE v[n] = v[n + 1]
    <3>1. n < Len(frames') => n - 1 < Len(frames)
      BY <1>1
    <3>2. QED
      BY <2>1, <2>2, <2>3, <3>1 DEF WalkAt
  <2>6. QED
    BY <2>4, <2>5 DEF WalkAt
<1>8. WalkAt(v, 1)'
  <2>1. v[2] = w[1] /\ frames'[2] = frames[1] /\ WalkAt(w, 1)
    BY <1>1, <1>2, <1>3
  <2>2. {frames'[m].template : m \in 1..Len(frames')} = w[1].path \cup {f.template}
    <3>1. \A m : m \in 1..Len(frames') <=> m = 1 \/ m \in 2..Len(frames')
      BY <1>1
    <3>2. {frames'[m].template : m \in 1..Len(frames')} = {frames'[m].template : m \in 2..Len(frames')} \cup {frames'[1].template}
      BY <3>1
    <3>3. {frames'[m].template : m \in 2..Len(frames')} = {frames[m].template : m \in 1..Len(frames)}
      <4>1. 2 \in 2..(Len(frames) + 1) /\ 2 - 1 = 1
        BY <1>1
      <4>2. {frames'[m].template : m \in 2..Len(frames')} = {frames[m].template : m \in (2 - 1)..Len(frames)}
        BY <4>1, <1>6
      <4>3. QED
        BY <4>1, <4>2
    <3>4. QED
      BY <3>2, <3>3, <2>1, <1>1 DEF WalkAt
  <2>3. 1 # Len(frames')
    BY <1>1
  <2>4. IF f.kind = "template"
        THEN v[1] = Included(text'[v[2].template], v[2], frames'[2].at) /\ v[1].template \notin v[2].path
        ELSE v[1] = v[2]
    BY <2>1, <1>3
  <2>5. QED
    BY <2>2, <2>3, <2>4, <1>1, <1>3 DEF WalkAt
<1>9. \A n \in 1..Len(frames') : n = 1 \/ n \in 2..(Len(frames) + 1)
  BY <1>1
<1>10. \A n \in 1..Len(frames') : WalkAt(v, n)'
  BY <1>7, <1>8, <1>9
<1>11. WalksOfFrames(v)'
  BY <1>1, <1>3, <1>10 DEF WalksOfFrames
<1>12. QED
  BY <1>11 DEF v

LEMMA ReturnKeepsWalks ==
    ASSUME frames \in Seq(FrameSet), text' = text, context' = context,
           NEW w, WalksOfFrames(w), NEW f, BackTo(f)
    PROVE  WalksOfFrames(Tail(w))'
<1> DEFINE v == Tail(w)
<1>1. /\ Len(frames) \in Nat /\ Len(frames) >= 2 /\ Len(frames') = Len(frames) - 1
      /\ \A n \in 1..(Len(frames) - 1) : /\ frames'[n].template = frames[n + 1].template
                                         /\ frames'[n].kind = frames[n + 1].kind
      /\ \A n \in 2..(Len(frames) - 1) : frames'[n] = frames[n + 1]
  BY DEF BackTo
<1>2. w \in Seq(Walks) /\ Len(w) = Len(frames) /\ \A n \in 1..Len(frames) : WalkAt(w, n)
  BY DEF WalksOfFrames
<1>3. /\ v \in Seq(Walks) /\ Len(v) = Len(frames) - 1
      /\ \A n \in 1..(Len(frames) - 1) : v[n] = w[n + 1]
  BY <1>1, <1>2
<1> HIDE DEF v
<1>4. WalkOfPage' = WalkOfPage
  BY DEF WalkOfPage
<1>6. ASSUME NEW n \in 1..(Len(frames) - 1)
      PROVE  {frames'[m].template : m \in n..Len(frames')} = {frames[m].template : m \in (n + 1)..Len(frames)}
  <2>1. ASSUME NEW m \in n..Len(frames') PROVE frames'[m].template \in {frames[k].template : k \in (n + 1)..Len(frames)}
    <3>1. m + 1 \in (n + 1)..Len(frames) /\ m \in 1..(Len(frames) - 1)
      BY <1>1
    <3>2. QED
      BY <3>1, <1>1
  <2>2. ASSUME NEW k \in (n + 1)..Len(frames) PROVE frames[k].template \in {frames'[m].template : m \in n..Len(frames')}
    <3>1. k - 1 \in n..Len(frames') /\ k - 1 \in 1..(Len(frames) - 1) /\ (k - 1) + 1 = k
      BY <1>1
    <3>2. frames'[k - 1].template = frames[k].template
      BY <3>1, <1>1
    <3>3. QED
      BY <3>1, <3>2
  <2>3. QED
    BY <2>1, <2>2
<1>7. ASSUME NEW n \in 1..(Len(frames) - 1) PROVE WalkAt(v, n)'
  <2>1. /\ n + 1 \in 1..Len(frames) /\ v[n] = w[n + 1]
        /\ frames'[n].template = frames[n + 1].template /\ frames'[n].kind = frames[n + 1].kind
    BY <1>1, <1>3
  <2>2. WalkAt(w, n + 1)
    BY <2>1, <1>2
  <2>3. n < Len(frames') => v[n + 1] = w[n + 1 + 1] /\ frames'[n + 1] = frames[n + 1 + 1]
    <3>1. SUFFICES ASSUME n < Len(frames') PROVE v[n + 1] = w[n + 1 + 1] /\ frames'[n + 1] = frames[n + 1 + 1]
      OBVIOUS
    <3>2. n + 1 \in 2..(Len(frames) - 1) /\ n + 1 \in 1..(Len(frames) - 1)
      BY <3>1, <1>1
    <3>3. QED
      BY <3>2, <1>1, <1>3
  <2>4. /\ v[n].template = frames'[n].template
        /\ v[n].path = {frames'[m].template : m \in n..Len(frames')}
        /\ n = Len(frames') => v[n] = WalkOfPage'
    <3>1. n = Len(frames') => n + 1 = Len(frames)
      BY <1>1
    <3>2. QED
      BY <2>1, <2>2, <1>4, <1>6, <3>1 DEF WalkAt
  <2>5. n < Len(frames') =>
          IF frames'[n].kind = "template"
          THEN v[n] = Included(text'[v[n + 1].template], v[n + 1], frames'[n + 1].at) /\ v[n].template \notin v[n + 1].path
          ELSE v[n] = v[n + 1]
    <3>1. n < Len(frames') => n + 1 < Len(frames)
      BY <1>1
    <3>2. QED
      BY <2>1, <2>2, <2>3, <3>1 DEF WalkAt
  <2>6. QED
    BY <2>4, <2>5 DEF WalkAt
<1>8. WalksOfFrames(v)'
  BY <1>1, <1>3, <1>7 DEF WalksOfFrames
<1>9. QED
  BY <1>8 DEF v

\* The walks W are from the page, of templates that were visited.
Covers(W) ==
    /\ W \subseteq Walks /\ WalkOfPage \in W
    /\ \A a \in W : a.path \subseteq visited

CheckedAt(W, w, n) ==
    /\ frames[n].scope = w[n].scope \cup NamesAt(text[frames[n].template], frames[n].at)
    /\ \A i \in 1..(frames[n].at - 1) : Seen(W, w[n], i)

\* The check has every walk under way in a frame, or has ended it.
Checking(W, w) ==
    /\ Covers(W) /\ w \in Seq(W) /\ WalksOfFrames(w)
    /\ \A n \in 1..Len(frames) : CheckedAt(W, w, n)
    /\ \A a \in W : Complete(W, a) \/ \E n \in 1..Len(frames) : a = w[n]

\* Templates stay, and what was seen stays seen.
Keeps ==
    /\ text' = text /\ context' = context
    /\ visited \subseteq visited' /\ reported \subseteq reported' /\ (cyclic => cyclic')

LEMMA SeenStays ==
    ASSUME Keeps, NEW W, NEW V, W \subseteq V, NEW a, NEW i, Seen(W, a, i)
    PROVE  Seen(V, a, i)'
<1>1. Excused(a.template)' = Excused(a.template)
  BY DEF Keeps, Excused, Optional
<1>2. text'[a.template] = text[a.template]
  BY DEF Keeps
<1> DEFINE s == text[a.template]
<1>3. s[i][1] = "use" =>
          \/ s[i][2] \in a.scope \cup NamesAt(s, i) \cup Excused(a.template)
          \/ <<a.template, i>> \in reported'
  BY DEF Seen, Keeps
<1>4. s[i][1] \in {"include", "bare"} =>
          IF s[i][2] \in a.path THEN cyclic' ELSE Included(s, a, i) \in V
  BY DEF Seen, Keeps
<1>5. QED
  BY <1>1, <1>2, <1>3, <1>4 DEF Seen

LEMMA CompleteStays ==
    ASSUME Keeps, NEW W, NEW V, W \subseteq V, NEW a, Complete(W, a)
    PROVE  Complete(V, a)'
<1>1. text'[a.template] = text[a.template]
  BY DEF Keeps
<1>2. \A i \in 1..Len(text[a.template]) : Seen(V, a, i)'
  BY SeenStays DEF Complete
<1>3. QED
  BY <1>1, <1>2 DEF Complete

LEMMA CoverStays ==
    ASSUME Keeps, NEW W, Covers(W)
    PROVE  Covers(W)'
BY DEF Keeps, Covers, WalkOfPage

LEMMA CheckMoves ==
    ASSUME frames \in Seq(FrameSet), Keeps, NEW W, NEW w, Checking(W, w), NEW f, MovesTo(f),
           f.scope = w[1].scope \cup NamesAt(text[f.template], f.at),
           \A i \in 1..(f.at - 1) : Seen(W, w[1], i)'
    PROVE  Checking(W, w)'
<1>1. /\ Covers(W) /\ w \in Seq(W) /\ WalksOfFrames(w)
      /\ \A n \in 1..Len(frames) : CheckedAt(W, w, n)
      /\ \A a \in W : Complete(W, a) \/ \E n \in 1..Len(frames) : a = w[n]
  BY DEF Checking
<1>2. /\ Len(frames') = Len(frames) /\ Len(frames) \in Nat /\ frames'[1] = f
      /\ \A n \in 2..Len(frames) : frames'[n] = frames[n]
  BY DEF MovesTo
<1>3. WalksOfFrames(w)'
  BY <1>1, MoveKeepsWalks DEF Keeps
<1>4. text' = text
  BY DEF Keeps
<1>5. ASSUME NEW n \in 1..Len(frames) PROVE CheckedAt(W, w, n)'
  <2>1. CASE n = 1
    BY <2>1, <1>2, <1>4 DEF CheckedAt
  <2>2. CASE n # 1
    <3>1. frames'[n] = frames[n] /\ CheckedAt(W, w, n)
      BY <1>1, <1>2, <2>2
    <3>2. \A i \in 1..(frames[n].at - 1) : Seen(W, w[n], i)'
      BY <3>1, SeenStays DEF CheckedAt
    <3>3. QED
      BY <3>1, <3>2, <1>4 DEF CheckedAt
  <2>3. QED
    BY <2>1, <2>2
<1>6. \A a \in W : Complete(W, a)' \/ \E n \in 1..Len(frames) : a = w[n]
  BY <1>1, CompleteStays
<1>7. Covers(W)'
  BY <1>1, CoverStays
<1>8. QED
  BY <1>1, <1>2, <1>3, <1>5, <1>6, <1>7 DEF Checking

LEMMA CheckEnters ==
    ASSUME frames \in Seq(FrameSet), Keeps, NEW W, NEW w, Checking(W, w), NEW f, Enters(f),
           NEW c \in Walks, WalksOfFrames(<<c>> \o w)', c.path \subseteq visited',
           f.scope = c.scope \cup NamesAt(text[f.template], f.at),
           \A i \in 1..(f.at - 1) : Seen(W, c, i)
    PROVE  Checking(W \cup {c}, <<c>> \o w)'
<1> DEFINE V == W \cup {c}
           v == <<c>> \o w
<1>1. /\ Covers(W) /\ w \in Seq(W) /\ WalksOfFrames(w)
      /\ \A n \in 1..Len(frames) : CheckedAt(W, w, n)
      /\ \A a \in W : Complete(W, a) \/ \E n \in 1..Len(frames) : a = w[n]
  BY DEF Checking
<1>2. /\ Len(frames) \in Nat /\ Len(frames') = Len(frames) + 1 /\ frames'[1] = f
      /\ \A n \in 2..(Len(frames) + 1) : frames'[n] = frames[n - 1]
      /\ Len(w) = Len(frames)
  BY <1>1 DEF Enters, WalksOfFrames
<1>3. /\ v \in Seq(V) /\ v[1] = c
      /\ \A n \in 2..(Len(frames) + 1) : v[n] = w[n - 1]
  <2>1. w \in Seq(V)
    BY <1>1
  <2>2. QED
    BY <1>2, <2>1
<1>4. text' = text /\ W \subseteq V
  BY DEF Keeps
<1>5. Covers(V)'
  <2>1. Covers(W)'
    BY <1>1, CoverStays
  <2>2. QED
    BY <2>1 DEF Covers, WalkOfPage
<1> HIDE DEF v, V
<1>6. ASSUME NEW n \in 1..Len(frames') PROVE CheckedAt(V, v, n)'
  <2>1. CASE n = 1
    <3>1. \A i \in 1..(f.at - 1) : Seen(V, c, i)'
      BY <1>4, SeenStays
    <3>2. QED
      BY <2>1, <3>1, <1>2, <1>3, <1>4 DEF CheckedAt
  <2>2. CASE n # 1
    <3>1. n - 1 \in 1..Len(frames) /\ n \in 2..(Len(frames) + 1)
      BY <2>2, <1>2
    <3>2. frames'[n] = frames[n - 1] /\ v[n] = w[n - 1] /\ CheckedAt(W, w, n - 1)
      BY <3>1, <1>1, <1>2, <1>3
    <3>3. \A i \in 1..(frames[n - 1].at - 1) : Seen(V, w[n - 1], i)'
      BY <3>2, <1>4, SeenStays DEF CheckedAt
    <3>4. QED
      BY <3>2, <3>3, <1>4 DEF CheckedAt
  <2>3. QED
    BY <2>1, <2>2
<1>7. ASSUME NEW a \in V PROVE Complete(V, a)' \/ \E n \in 1..Len(frames') : a = v[n]
  <2>1. CASE a = c
    <3>1. 1 \in 1..Len(frames') /\ a = v[1]
      BY <2>1, <1>2, <1>3
    <3>2. QED
      BY <3>1
  <2>2. CASE a \in W /\ Complete(W, a)
    BY <2>2, <1>4, CompleteStays
  <2>3. ASSUME NEW n \in 1..Len(frames), a = w[n] PROVE \E m \in 1..Len(frames') : a = v[m]
    <3>1. n + 1 \in 2..(Len(frames) + 1) /\ n + 1 \in 1..Len(frames') /\ (n + 1) - 1 = n
      BY <1>2
    <3>2. a = v[n + 1]
      BY <3>1, <2>3, <1>3
    <3>3. QED
      BY <3>1, <3>2
  <2>4. a = c \/ a \in W
    BY DEF V
  <2>5. QED
    BY <2>1, <2>2, <2>3, <2>4, <1>1
<1>8. WalksOfFrames(v)'
  BY DEF v
<1>9. Checking(V, v)'
  BY <1>3, <1>5, <1>6, <1>7, <1>8 DEF Checking
<1>10. QED
  BY <1>9 DEF V, v

LEMMA CheckReturns ==
    ASSUME frames \in Seq(FrameSet), Keeps, NEW W, NEW w, Checking(W, w), NEW f, BackTo(f),
           f.scope = w[2].scope \cup NamesAt(text[f.template], f.at),
           \A i \in 1..(f.at - 1) : Seen(W, w[2], i)',
           Complete(W, w[1]) \/ w[1] = w[2]
    PROVE  Checking(W, Tail(w))'
<1> DEFINE v == Tail(w)
<1>1. /\ Covers(W) /\ w \in Seq(W) /\ WalksOfFrames(w)
      /\ \A n \in 1..Len(frames) : CheckedAt(W, w, n)
      /\ \A a \in W : Complete(W, a) \/ \E n \in 1..Len(frames) : a = w[n]
  BY DEF Checking
<1>2. /\ Len(frames) \in Nat /\ Len(frames) >= 2 /\ Len(frames') = Len(frames) - 1 /\ frames'[1] = f
      /\ \A n \in 2..(Len(frames) - 1) : frames'[n] = frames[n + 1]
      /\ Len(w) = Len(frames)
  BY <1>1 DEF BackTo, WalksOfFrames
<1>3. /\ v \in Seq(W) /\ v[1] = w[2]
      /\ \A n \in 1..(Len(frames) - 1) : v[n] = w[n + 1]
  BY <1>1, <1>2
<1> HIDE DEF v
<1>4. text' = text
  BY DEF Keeps
<1>5. Covers(W)' /\ WalksOfFrames(v)'
  BY <1>1, CoverStays, ReturnKeepsWalks DEF v, Keeps
<1>6. ASSUME NEW n \in 1..Len(frames') PROVE CheckedAt(W, v, n)'
  <2>1. CASE n = 1
    BY <2>1, <1>2, <1>3, <1>4 DEF CheckedAt
  <2>2. CASE n # 1
    <3>1. n + 1 \in 1..Len(frames) /\ n \in 2..(Len(frames) - 1) /\ n \in 1..(Len(frames) - 1)
      BY <2>2, <1>2
    <3>2. frames'[n] = frames[n + 1] /\ v[n] = w[n + 1] /\ CheckedAt(W, w, n + 1)
      BY <3>1, <1>1, <1>2, <1>3
    <3>3. \A i \in 1..(frames[n + 1].at - 1) : Seen(W, w[n + 1], i)'
      BY <3>2, SeenStays DEF CheckedAt
    <3>4. QED
      BY <3>2, <3>3, <1>4 DEF CheckedAt
  <2>3. QED
    BY <2>1, <2>2
<1>7. ASSUME NEW a \in W PROVE Complete(W, a)' \/ \E n \in 1..Len(frames') : a = v[n]
  <2>1. CASE Complete(W, a)
    BY <2>1, CompleteStays
  <2>2. ASSUME NEW n \in 1..Len(frames), a = w[n], ~Complete(W, a) PROVE \E m \in 1..Len(frames') : a = v[m]
    <3>1. CASE n = 1
      <4>1. a = v[1] /\ 1 \in 1..Len(frames')
        BY <2>2, <3>1, <1>2, <1>3
      <4>2. QED
        BY <4>1
    <3>2. CASE n # 1
      <4>1. n - 1 \in 1..(Len(frames) - 1) /\ n - 1 \in 1..Len(frames') /\ (n - 1) + 1 = n
        BY <3>2, <1>2
      <4>2. a = v[n - 1]
        BY <4>1, <2>2, <1>3
      <4>3. QED
        BY <4>1, <4>2
    <3>3. QED
      BY <3>1, <3>2
  <2>3. QED
    BY <2>1, <2>2, <1>1
<1>8. Checking(W, v)'
  BY <1>3, <1>5, <1>6, <1>7 DEF Checking
<1>9. QED
  BY <1>8 DEF v

\* The walk of the top frame, while the check is at a token.
LEMMA TopIsChecked ==
    ASSUME TemplatesTypeOK, Nested, frames # <<>>, NEW W, NEW w, Checking(W, w)
    PROVE  /\ w[1] \in W /\ w[1] \in Walks /\ w[1].template = Top.template /\ w[1].path = Path
           /\ w[1].path \subseteq visited /\ w[1].scope \subseteq STRING
           /\ Top.scope = w[1].scope \cup NamesAt(text[Top.template], Top.at)
           /\ \A i \in 1..(Top.at - 1) : Seen(W, w[1], i)
<1>1. 1 \in 1..Len(frames) /\ Len(frames) \in Nat /\ DOMAIN frames = 1..Len(frames)
  BY DEF TemplatesTypeOK
<1>2. /\ w \in Seq(W) /\ W \subseteq Walks /\ Len(w) = Len(frames) /\ WalkAt(w, 1) /\ CheckedAt(W, w, 1)
  BY <1>1 DEF Checking, Covers, WalksOfFrames
<1>3. w[1] \in W /\ w[1] \in Walks
  BY <1>1, <1>2
<1>4. w[1].template = Top.template /\ w[1].path = Path
  BY <1>1, <1>2 DEF WalkAt, Path, Top
<1>5. w[1].path \subseteq visited /\ w[1].scope \subseteq STRING
  BY <1>3 DEF Checking, Covers, Walks
<1>6. QED
  BY <1>2, <1>3, <1>4, <1>5 DEF CheckedAt, Top

\* A token that only adds a name, or nothing, is seen and passed.
LEMMA CheckAdvances ==
    ASSUME TemplatesTypeOK, Nested, frames # <<>>, ~Finished, Keeps,
           NEW W, NEW w, Checking(W, w), Token[1] \notin BlockKinds \cup {"end", "else"},
           NEW sc, sc = Top.scope \cup (IF Token[1] = "set" THEN {Token[2]} ELSE {}),
           Advance(sc), NEW p, p = Top.at, Seen(W, w[1], p)'
    PROVE  Nested' /\ Checking(W, w)'
<1> DEFINE f == FrameFor(Top.kind, Top.template, Top.at + 1, sc)
           s == text[Top.template]
<1>1. /\ frames \in Seq(FrameSet) /\ Top.at \in 1..Len(s) /\ Top.at \in Nat /\ s \in Texts
      /\ Token[2] \in STRING /\ Top.scope \subseteq STRING /\ Token = s[Top.at]
  BY TopAtToken DEF Token
<1>2. sc \in SUBSET STRING
  BY <1>1
<1>3. MovesTo(f) /\ Nested'
  BY <1>2, AdvanceIsNested DEF Keeps
<1>4. f.scope = sc /\ f.template = Top.template /\ f.at = Top.at + 1
  BY DEF FrameFor
<1>5. NamesAt(s, Top.at + 1) = NamesAt(s, Top.at) \cup (IF Token[1] = "set" THEN {Token[2]} ELSE {})
  <2>1. Token[1] \in {"set", "for", "with"} <=> Token[1] = "set"
    BY DEF BlockKinds
  <2>2. QED
    BY <1>1, <2>1, NamesAfter
<1>6. f.scope = w[1].scope \cup NamesAt(text[f.template], f.at)
  BY <1>4, <1>5, TopIsChecked
<1>7. \A i \in 1..(f.at - 1) : Seen(W, w[1], i)'
  <2>1. \A i \in 1..(Top.at - 1) : Seen(W, w[1], i)'
    BY TopIsChecked, SeenStays
  <2>2. \A i \in 1..(f.at - 1) : i \in 1..(Top.at - 1) \/ i = p
    BY <1>1, <1>4
  <2>3. QED
    BY <2>1, <2>2
<1> HIDE DEF f
<1>8. Checking(W, w)'
  BY <1>1, <1>3, <1>6, <1>7, CheckMoves
<1>9. QED
  BY <1>3, <1>8

\* Tokens at which there is nothing to see.
LEMMA NothingToSee ==
    ASSUME NEW W, NEW a, NEW i, text[a.template][i][1] \notin {"use", "include", "bare"}
    PROVE  Seen(W, a, i)
BY DEF Seen

LEMMA CheckUsesName ==
    ASSUME TemplatesTypeOK, Nested, mode = "check", NEW W, NEW w, Checking(W, w), UseName
    PROVE  Nested' /\ Checking(W, w)'
<1>1. /\ frames # <<>> /\ ~Finished /\ Token[1] = "use" /\ Advance(Top.scope)
      /\ text' = text /\ context' = context /\ visited' = visited /\ cyclic' = cyclic
      /\ reported' = IF Token[2] \notin Top.scope /\ Token[2] \notin Excused(Top.template)
                     THEN reported \cup {<<Top.template, Top.at>>} ELSE reported
  BY DEF UseName, AtToken, input
<1>2. Keeps
  BY <1>1 DEF Keeps
<1> PICK p, t : p = Top.at /\ t = Top.template
  OBVIOUS
<1>3. Seen(W, w[1], p)'
  <2>1. Excused(t)' = Excused(t)
    BY <1>1 DEF Excused, Optional
  <2>2. /\ w[1].template = t
        /\ Top.scope = w[1].scope \cup NamesAt(text[t], p)
    BY <1>1, TopIsChecked
  <2> DEFINE s == text[t]
  <2>3. s[p] = Token
    BY DEF Token
  <2>4. \/ s[p][2] \in w[1].scope \cup NamesAt(s, p) \cup Excused(t)
        \/ <<t, p>> \in reported'
    BY <1>1, <2>2, <2>3
  <2>5. /\ s[p][1] = "use" =>
             \/ s[p][2] \in w[1].scope \cup NamesAt(s, p) \cup Excused(t)
             \/ <<t, p>> \in reported'
        /\ s[p][1] \in {"include", "bare"} =>
             IF s[p][2] \in w[1].path THEN cyclic' ELSE Included(s, w[1], p) \in W
    BY <1>1, <2>3, <2>4
  <2>6. QED
    BY <1>1, <2>1, <2>2, <2>5 DEF Seen
<1>4. QED
  <2>1. Token[1] \notin BlockKinds \cup {"end", "else"} /\ Token[1] # "set"
    BY <1>1 DEF BlockKinds
  <2>2. Top.scope = Top.scope \cup (IF Token[1] = "set" THEN {Token[2]} ELSE {})
    BY <2>1
  <2>3. QED
    BY <1>1, <1>2, <1>3, <2>1, <2>2, CheckAdvances

LEMMA CheckPasses ==
    ASSUME TemplatesTypeOK, Nested, mode = "check", NEW W, NEW w, Checking(W, w), UseDefault \/ SetName
    PROVE  Nested' /\ Checking(W, w)'
<1>1. /\ frames # <<>> /\ ~Finished /\ Token[1] \in {"default", "set"}
      /\ Advance(Top.scope \cup (IF Token[1] = "set" THEN {Token[2]} ELSE {}))
      /\ UNCHANGED <<text, context, visited, cyclic, reported>>
  <2>1. CASE UseDefault
    <3>1. Token[1] = "default" /\ Advance(Top.scope)
      BY <2>1 DEF UseDefault, AtToken
    <3>2. Top.scope \cup (IF Token[1] = "set" THEN {Token[2]} ELSE {}) = Top.scope
      BY <3>1
    <3>3. QED
      BY <2>1, <3>1, <3>2 DEF UseDefault, AtToken, input
  <2>2. CASE SetName
    <3>1. Token[1] = "set" /\ Advance(Top.scope \cup {Token[2]})
      BY <2>2 DEF SetName, AtToken
    <3>2. QED
      BY <2>2, <3>1 DEF SetName, AtToken, input
  <2>3. QED
    BY <2>1, <2>2
<1>2. Keeps
  BY <1>1 DEF Keeps
<1> PICK p : p = Top.at
  OBVIOUS
<1>3. Seen(W, w[1], p)'
  <2>1. text[w[1].template][p][1] \notin {"use", "include", "bare"}
    BY <1>1, TopIsChecked DEF Token
  <2>2. QED
    BY <1>2, <2>1, NothingToSee, SeenStays
<1>4. Token[1] \notin BlockKinds \cup {"end", "else"}
  BY <1>1 DEF BlockKinds
<1>5. QED
  BY <1>1, <1>2, <1>3, <1>4, CheckAdvances

LEMMA CheckEntersBlock ==
    ASSUME TemplatesTypeOK, Nested, mode = "check", NEW W, NEW w, Checking(W, w), EnterBlock
    PROVE  Nested' /\ Checking(W, <<w[1]>> \o w)'
<1> DEFINE sc == Top.scope \cup (IF Token[1] = "if" THEN {} ELSE {Token[2]})
           f == FrameFor(Token[1], Top.template, Top.at + 1, sc)
           s == text[Top.template]
<1>1. /\ frames # <<>> /\ ~Finished /\ Token[1] \in BlockKinds /\ frames' = <<f>> \o frames
      /\ UNCHANGED <<text, context, visited, cyclic, reported>>
  BY DEF EnterBlock, AtToken, input
<1>2. Keeps
  BY <1>1 DEF Keeps
<1>3. /\ frames \in Seq(FrameSet) /\ Len(frames) >= 1 /\ Top.at \in 1..Len(s) /\ Top.at \in Nat /\ s \in Texts
      /\ Token[2] \in STRING /\ Top.scope \subseteq STRING /\ Token = s[Top.at] /\ Top = frames[1]
  BY <1>1, TopAtToken DEF Token
<1>4. Enters(f) /\ Nested'
  <2>1. InBlock(s, Top.at, Top.at + 1) /\ Top.at + 1 \in Nat /\ Top.at + 1 \in 1..(Len(s) + 1)
    BY <1>1, <1>3, BlockBegins
  <2>2. sc \in SUBSET STRING
    BY <1>3
  <2>3. QED
    BY <1>1, <1>2, <1>3, <2>1, <2>2, EntryIsNested DEF Keeps
<1>5. f.scope = sc /\ f.template = Top.template /\ f.at = Top.at + 1 /\ f.kind # "template"
  BY <1>1 DEF FrameFor, BlockKinds
<1>6. /\ w[1] \in W /\ w[1] \in Walks /\ w[1].template = Top.template /\ w[1].path = Path
      /\ w[1].path \subseteq visited
      /\ Top.scope = w[1].scope \cup NamesAt(text[Top.template], Top.at)
      /\ \A i \in 1..(Top.at - 1) : Seen(W, w[1], i)
  BY <1>1, TopIsChecked
<1>7. f.scope = w[1].scope \cup NamesAt(text[f.template], f.at)
  <2>1. Token[1] \in {"set", "for", "with"} <=> Token[1] # "if"
    BY <1>1 DEF BlockKinds
  <2>2. Token[1] \notin {"end", "else"}
    BY <1>1 DEF BlockKinds
  <2>3. NamesAt(s, Top.at + 1) = NamesAt(s, Top.at)
                \cup (IF s[Top.at][1] \in {"set", "for", "with"} THEN {s[Top.at][2]} ELSE {})
    BY <1>3, <2>2, NamesAfter
  <2>4. QED
    BY <1>3, <1>5, <1>6, <2>1, <2>3
<1>8. \A i \in 1..(f.at - 1) : Seen(W, w[1], i)
  <2>1. Seen(W, w[1], Top.at)
    <3>1. text[w[1].template][Top.at][1] \notin {"use", "include", "bare"}
      BY <1>1, <1>3, <1>6 DEF BlockKinds
    <3>2. QED
      BY <3>1, NothingToSee
  <2>2. \A i \in 1..(f.at - 1) : i \in 1..(Top.at - 1) \/ i = Top.at
    <3>1. f.at = Top.at + 1 /\ Top.at \in Nat
      BY <1>3, <1>5
    <3> HIDE DEF f
    <3>2. QED
      BY <3>1
  <2>3. QED
    BY <1>6, <2>1, <2>2
<1>9. Top.template \in Path
  BY <1>3 DEF Path
<1>10. WalksOfFrames(<<w[1]>> \o w)'
  <2>1. w[1].path = w[1].path \cup {f.template} /\ w[1].template = f.template
    BY <1>5, <1>6, <1>9
  <2>2. WalksOfFrames(w)
    BY DEF Checking
  <2> HIDE DEF f
  <2>3. QED
    BY <1>2, <1>3, <1>4, <1>5, <1>6, <2>1, <2>2, EntryKeepsWalks DEF Keeps
<1>11. Checking(W \cup {w[1]}, <<w[1]>> \o w)'
  <2>1. w[1].path \subseteq visited'
    BY <1>1, <1>6
  <2> HIDE DEF f
  <2>2. QED
    BY <1>2, <1>3, <1>4, <1>6, <1>7, <1>8, <1>10, <2>1, CheckEnters
<1>12. W \cup {w[1]} = W
  BY <1>6
<1>13. QED
  BY <1>4, <1>11, <1>12

LEMMA CheckIncludes ==
    ASSUME TemplatesTypeOK, Nested, mode = "check", NEW W, NEW w, Checking(W, w), Include
    PROVE  Nested' /\ \E V, v : Checking(V, v)'
<1> DEFINE s == text[Top.template]
<1>1. /\ frames # <<>> /\ ~Finished /\ Token[1] \in {"include", "bare"}
      /\ UNCHANGED <<text, context, reported>>
      /\ IF Token[2] \in Path
         THEN cyclic' = TRUE /\ Advance(Top.scope) /\ visited' = visited
         ELSE /\ frames' = <<FrameFor("template", Token[2], 1,
                                IF Token[1] = "include" THEN Top.scope ELSE {})>> \o frames
              /\ visited' = visited \cup {Token[2]} /\ cyclic' = cyclic
  BY DEF Include, AtToken, input
<1>2. Keeps
  BY <1>1 DEF Keeps
<1>3. /\ frames \in Seq(FrameSet) /\ Len(frames) >= 1 /\ Top.at \in 1..Len(s) /\ Top.at \in Nat /\ s \in Texts
      /\ Token[2] \in STRING /\ Top.scope \subseteq STRING /\ Token = s[Top.at] /\ Top = frames[1]
      /\ Token[2] \in Templates
  BY <1>1, TopAtToken DEF Token
<1>4. /\ w[1] \in W /\ w[1] \in Walks /\ w[1].template = Top.template /\ w[1].path = Path
      /\ w[1].path \subseteq visited
      /\ Top.scope = w[1].scope \cup NamesAt(text[Top.template], Top.at)
      /\ \A i \in 1..(Top.at - 1) : Seen(W, w[1], i)
  BY <1>1, TopIsChecked
<1>5. CASE Token[2] \in Path
  <2> PICK p : p = Top.at
    OBVIOUS
  <2>1. Seen(W, w[1], p)'
    <3>1. text' = text /\ cyclic'
      BY <1>1, <1>5
    <3>2. text[w[1].template][p] = Token
      BY <1>3, <1>4
    <3>3. QED
      BY <1>1, <1>4, <1>5, <3>1, <3>2 DEF Seen
  <2>2. Token[1] \notin BlockKinds \cup {"end", "else"} /\ Token[1] # "set"
    BY <1>1 DEF BlockKinds
  <2>3. Top.scope = Top.scope \cup (IF Token[1] = "set" THEN {Token[2]} ELSE {})
    BY <2>2
  <2>4. Nested' /\ Checking(W, w)'
    BY <1>1, <1>2, <1>5, <2>1, <2>2, <2>3, CheckAdvances
  <2>5. QED
    BY <2>4
<1>6. CASE Token[2] \notin Path
  <2> DEFINE sc == IF Token[1] = "include" THEN Top.scope ELSE {}
             f == FrameFor("template", Token[2], 1, sc)
  <2> PICK c : c = Included(s, w[1], Top.at)
    OBVIOUS
  <2>1. Enters(f) /\ Nested'
    <3>1. sc \in SUBSET STRING /\ frames' = <<f>> \o frames
      BY <1>1, <1>3, <1>6
    <3>2. QED
      BY <1>1, <1>2, <3>1, InclusionIsNested DEF Keeps
  <2>2. f.kind = "template" /\ f.template = Token[2] /\ f.at = 1 /\ f.scope = sc
    BY DEF FrameFor
  <2>3. /\ c.template = Token[2] /\ c.path = w[1].path \cup {Token[2]} /\ c.scope = sc
        /\ c = [template |-> c.template, path |-> c.path, scope |-> c.scope]
    BY <1>3, <1>4 DEF Included
  <2>4. c \in Walks
    <3>1. w[1].path \subseteq Templates
      BY <1>4 DEF Walks
    <3>2. sc \subseteq STRING
      BY <1>3
    <3> HIDE DEF sc
    <3>3. QED
      BY <1>3, <2>3, <3>1, <3>2 DEF Walks
  <2>5. f.scope = c.scope \cup NamesAt(text[f.template], f.at)
    <3>1. text[Token[2]] \in Texts
      BY <1>3 DEF TemplatesTypeOK
    <3>2. NamesAt(text[Token[2]], 1) = {}
      BY <3>1, NothingInScope
    <3>3. QED
      BY <2>2, <2>3, <3>2
  <2>6. \A i \in 1..(f.at - 1) : Seen(W, c, i)
    BY <2>2
  <2>7. c.path \subseteq visited'
    BY <1>1, <1>4, <1>6, <2>3
  <2>8. c = Included(text[w[1].template], w[1], frames[1].at) /\ c.template \notin w[1].path
    BY <1>3, <1>4, <1>6, <2>3
  <2>9. WalksOfFrames(<<c>> \o w)'
    <3>1. WalksOfFrames(w)
      BY DEF Checking
    <3> HIDE DEF f
    <3>2. c.template = f.template /\ c.path = w[1].path \cup {f.template}
      BY <2>2, <2>3
    <3>3. IF f.kind = "template"
          THEN c = Included(text[w[1].template], w[1], frames[1].at) /\ c.template \notin w[1].path
          ELSE c = w[1]
      BY <2>2, <2>8
    <3>4. text' = text /\ context' = context
      BY <1>1
    <3>5. QED
      BY <1>3, <2>1, <2>4, <3>1, <3>2, <3>3, <3>4, EntryKeepsWalks
  <2>10. Checking(W \cup {c}, <<c>> \o w)'
    <3> HIDE DEF f
    <3>1. QED
      BY <1>2, <1>3, <2>1, <2>4, <2>5, <2>6, <2>7, <2>9, CheckEnters
  <2>11. QED
    BY <2>1, <2>10
<1>7. QED
  BY <1>5, <1>6

LEMMA CheckEndsTemplate ==
    ASSUME TemplatesTypeOK, Nested, mode = "check", NEW W, NEW w, Checking(W, w), EndTemplate
    PROVE  Nested' /\ \E V, v : Checking(V, v)'
<1>1. /\ frames # <<>> /\ Finished
      /\ IF Len(frames) = 1 THEN frames' = <<>> ELSE Leave(frames[2].at + 1, frames[2].scope)
      /\ UNCHANGED <<text, context, visited, reported, cyclic>>
  BY DEF EndTemplate, input
<1>2. Keeps
  BY <1>1 DEF Keeps
<1>3. /\ w[1] \in W /\ w[1].template = Top.template
      /\ \A i \in 1..(Top.at - 1) : Seen(W, w[1], i)
  BY <1>1, TopIsChecked
<1>4. Complete(W, w[1])
  <2>1. Top.at = Len(text[Top.template]) + 1 /\ Len(text[Top.template]) \in Nat
    BY <1>1, FinishedIsTemplate, TokensAreTyped
  <2>2. Top.at - 1 = Len(text[w[1].template])
    BY <2>1, <1>3
  <2>3. QED
    BY <2>2, <1>3 DEF Complete
<1>5. CASE Len(frames) = 1
  <2>1. frames' = <<>>
    BY <1>1, <1>5
  <2>2. Nested'
    BY <2>1 DEF Nested
  <2>3. WalksOfFrames(<<>>)'
    BY <2>1 DEF WalksOfFrames
  <2>4. Covers(W)'
    BY <1>2, CoverStays DEF Checking
  <2>5. \A a \in W : Complete(W, a)
    <3>1. \A a \in W : Complete(W, a) \/ \E n \in 1..Len(frames) : a = w[n]
      BY DEF Checking
    <3>2. \A n \in 1..Len(frames) : n = 1
      BY <1>5
    <3>3. QED
      BY <3>1, <3>2, <1>4
  <2>6. \A a \in W : Complete(W, a)'
    BY <1>2, <2>5, CompleteStays
  <2>7. Checking(W, <<>>)'
    <3>1. <<>> \in Seq(W) /\ Len(frames') = 0
      BY <2>1
    <3>2. QED
      BY <2>3, <2>4, <2>6, <3>1 DEF Checking
  <2>8. QED
    BY <2>2, <2>7
<1>6. CASE Len(frames) # 1
  <2> DEFINE f == FrameFor(frames[2].kind, frames[2].template, frames[2].at + 1, frames[2].scope)
             s == text[frames[2].template]
  <2>1. Leave(frames[2].at + 1, frames[2].scope)
    BY <1>1, <1>6
  <2>2. Len(frames) >= 2 /\ BackTo(f) /\ Nested'
    BY <1>1, <1>6, <2>1, ReturnIsNested
  <2>3. /\ f.template = frames[2].template /\ f.at = frames[2].at + 1 /\ f.scope = frames[2].scope
    BY DEF FrameFor
  <2>4. /\ frames[2].at \in 1..Len(s) /\ s[frames[2].at][1] \in {"include", "bare"}
        /\ Top.kind = "template"
    BY <1>1, <2>2, FinishedIsTemplate
  <2>5. 2 \in 1..Len(frames) /\ frames \in Seq(FrameSet) /\ s \in Texts /\ 1 \in 1..Len(frames) /\ 1 < Len(frames)
        /\ frames[2].at \in Nat
    BY <1>1, <2>2, FramesAreTyped, FinishedIsTemplate
  <2>6. /\ WalkAt(w, 1) /\ WalkAt(w, 2) /\ CheckedAt(W, w, 2)
    BY <2>5 DEF Checking, WalksOfFrames
  <2>7. /\ w[1] = Included(text[w[2].template], w[2], frames[2].at)
        /\ w[1].template \notin w[2].path /\ w[2].template = frames[2].template
    BY <2>4, <2>5, <2>6 DEF WalkAt, Top
  <2>8. Seen(W, w[2], frames[2].at)
    <3>1. w[1].template = s[frames[2].at][2]
      BY <2>7 DEF Included
    <3>2. s[frames[2].at][1] # "use"
      BY <2>4
    <3>3. QED
      BY <1>3, <2>7, <3>1, <3>2 DEF Seen
  <2>9. \A i \in 1..(f.at - 1) : Seen(W, w[2], i)'
    <3>1. \A i \in 1..(f.at - 1) : i \in 1..(frames[2].at - 1) \/ i = frames[2].at
      <4> HIDE DEF f
      <4>1. QED
        BY <2>3, <2>5
    <3>2. \A i \in 1..(f.at - 1) : Seen(W, w[2], i)
      BY <3>1, <2>6, <2>8 DEF CheckedAt
    <3>3. QED
      BY <3>2, <1>2, SeenStays
  <2>10. f.scope = w[2].scope \cup NamesAt(text[f.template], f.at)
    <3>1. NamesAt(s, frames[2].at + 1) = NamesAt(s, frames[2].at)
      <4>1. s[frames[2].at][1] \notin {"end", "else"} /\ s[frames[2].at][1] \notin {"set", "for", "with"}
        BY <2>4
      <4>2. QED
        BY <2>4, <2>5, <4>1, NamesAfter
    <3>2. QED
      BY <2>3, <2>6, <3>1 DEF CheckedAt
  <2>11. Checking(W, Tail(w))'
    <3> HIDE DEF f
    <3>1. QED
      BY <1>2, <1>4, <2>2, <2>5, <2>9, <2>10, CheckReturns
  <2>12. QED
    BY <2>2, <2>11
<1>7. QED
  BY <1>5, <1>6

LEMMA CheckEndsBlock ==
    ASSUME TemplatesTypeOK, Nested, mode = "check", NEW W, NEW w, Checking(W, w), EndBlock
    PROVE  Nested' /\ Checking(W, Tail(w))'
<1>1. /\ frames # <<>> /\ ~Finished /\ Token[1] = "end" /\ Leave(Top.at + 1, frames[2].scope)
      /\ UNCHANGED <<text, context, visited, reported, cyclic>>
  BY DEF EndBlock, AtToken, input
<1>2. Keeps
  BY <1>1 DEF Keeps
<1> DEFINE s == text[Top.template]
           f == FrameFor(frames[2].kind, frames[2].template, Top.at + 1, frames[2].scope)
<1>3. /\ Len(frames) >= 2 /\ Top.kind \in BlockKinds /\ Top.template = frames[2].template
      /\ InBlock(s, frames[2].at, Top.at)
  BY <1>1, TopInBlock
<1>4. /\ frames \in Seq(FrameSet) /\ Len(frames) \in Nat /\ s \in Texts /\ Token = s[Top.at]
      /\ Top.at \in 1..Len(s) /\ Top.at \in Nat /\ Top = frames[1]
  BY <1>1, TopAtToken DEF Token
<1>5. BackTo(f) /\ Nested'
  <2>1. frames[2].scope \in SUBSET STRING
    BY <1>3, <1>4, FramesAreTyped
  <2>2. QED
    BY <1>1, <2>1, EndIsNested
<1>6. f.template = Top.template /\ f.at = Top.at + 1 /\ f.scope = frames[2].scope
  BY <1>3 DEF FrameFor
<1>7. /\ WalkAt(w, 1) /\ CheckedAt(W, w, 2)
  <2>1. 1 \in 1..Len(frames) /\ 2 \in 1..Len(frames)
    BY <1>3, <1>4
  <2>2. QED
    BY <2>1 DEF Checking, WalksOfFrames
<1>8. w[1] = w[2]
  <2>1. 1 < Len(frames) /\ frames[1].kind # "template"
    BY <1>3, <1>4 DEF BlockKinds
  <2>2. QED
    BY <2>1, <1>7 DEF WalkAt
<1>9. /\ w[1].template = Top.template /\ \A i \in 1..(Top.at - 1) : Seen(W, w[1], i)
  BY <1>1, TopIsChecked
<1>10. \A i \in 1..(f.at - 1) : Seen(W, w[2], i)'
  <2>1. Seen(W, w[1], Top.at)
    <3>1. text[w[1].template][Top.at][1] \notin {"use", "include", "bare"}
      BY <1>1, <1>4, <1>9
    <3>2. QED
      BY <3>1, NothingToSee
  <2>2. \A i \in 1..(f.at - 1) : i \in 1..(Top.at - 1) \/ i = Top.at
    <3> HIDE DEF f
    <3>1. QED
      BY <1>4, <1>6
  <2>3. \A i \in 1..(f.at - 1) : Seen(W, w[2], i)
    BY <1>8, <1>9, <2>1, <2>2
  <2>4. QED
    BY <2>3, <1>2, SeenStays
<1>11. f.scope = w[2].scope \cup NamesAt(text[f.template], f.at)
  <2>1. NamesAt(s, Top.at + 1) = NamesAt(s, frames[2].at)
    BY <1>1, <1>3, <1>4, NamesAfterBlock
  <2>2. QED
    BY <2>1, <1>3, <1>6, <1>7 DEF CheckedAt
<1>12. Checking(W, Tail(w))'
  <2> HIDE DEF f
  <2>1. QED
    BY <1>2, <1>4, <1>5, <1>8, <1>10, <1>11, CheckReturns
<1>13. QED
  BY <1>5, <1>12

LEMMA CheckBranches ==
    ASSUME TemplatesTypeOK, Nested, mode = "check", NEW W, NEW w, Checking(W, w), Else
    PROVE  Nested' /\ Checking(W, w)'
<1>1. /\ frames # <<>> /\ ~Finished /\ Token[1] = "else" /\ Advance(frames[2].scope)
      /\ UNCHANGED <<text, context, visited, reported, cyclic>>
  BY DEF Else, AtToken, input
<1>2. Keeps
  BY <1>1 DEF Keeps
<1> DEFINE s == text[Top.template]
           f == FrameFor(Top.kind, Top.template, Top.at + 1, frames[2].scope)
<1>3. /\ Len(frames) >= 2 /\ Top.kind \in BlockKinds /\ Top.template = frames[2].template
      /\ InBlock(s, frames[2].at, Top.at)
  BY <1>1, TopInBlock
<1>4. /\ frames \in Seq(FrameSet) /\ Len(frames) \in Nat /\ s \in Texts /\ Token = s[Top.at]
      /\ Top.at \in 1..Len(s) /\ Top.at \in Nat /\ Top = frames[1]
  BY <1>1, TopAtToken DEF Token
<1>5. MovesTo(f) /\ Nested'
  <2>1. frames[2].scope \in SUBSET STRING
    BY <1>3, <1>4, FramesAreTyped
  <2>2. Token[1] \notin BlockKinds \cup {"end"}
    BY <1>1 DEF BlockKinds
  <2>3. QED
    BY <1>1, <2>1, <2>2, AdvanceIsNested
<1>6. f.template = Top.template /\ f.at = Top.at + 1 /\ f.scope = frames[2].scope
  BY <1>3 DEF FrameFor
<1>7. /\ WalkAt(w, 1) /\ CheckedAt(W, w, 2)
  <2>1. 1 \in 1..Len(frames) /\ 2 \in 1..Len(frames)
    BY <1>3, <1>4
  <2>2. QED
    BY <2>1 DEF Checking, WalksOfFrames
<1>8. w[1] = w[2]
  <2>1. 1 < Len(frames) /\ frames[1].kind # "template"
    BY <1>3, <1>4 DEF BlockKinds
  <2>2. QED
    BY <2>1, <1>7 DEF WalkAt
<1>9. /\ w[1].template = Top.template /\ \A i \in 1..(Top.at - 1) : Seen(W, w[1], i)
  BY <1>1, TopIsChecked
<1>10. \A i \in 1..(f.at - 1) : Seen(W, w[1], i)'
  <2>1. Seen(W, w[1], Top.at)
    <3>1. text[w[1].template][Top.at][1] \notin {"use", "include", "bare"}
      BY <1>1, <1>4, <1>9
    <3>2. QED
      BY <3>1, NothingToSee
  <2>2. \A i \in 1..(f.at - 1) : i \in 1..(Top.at - 1) \/ i = Top.at
    <3> HIDE DEF f
    <3>1. QED
      BY <1>4, <1>6
  <2>3. \A i \in 1..(f.at - 1) : Seen(W, w[1], i)
    BY <1>9, <2>1, <2>2
  <2>4. QED
    BY <2>3, <1>2, SeenStays
<1>11. f.scope = w[1].scope \cup NamesAt(text[f.template], f.at)
  <2>1. NamesAt(s, Top.at + 1) = NamesAt(s, frames[2].at)
    BY <1>1, <1>3, <1>4, NamesAfterBlock
  <2>2. QED
    BY <2>1, <1>3, <1>6, <1>7, <1>8 DEF CheckedAt
<1>12. Checking(W, w)'
  <2> HIDE DEF f
  <2>1. QED
    BY <1>2, <1>4, <1>5, <1>10, <1>11, CheckMoves
<1>13. QED
  BY <1>5, <1>12

-----------------------------------------------------------------------------
(* What a rendering finds *)

\* What the check took to be in scope has a value, unless the frame leaves its
\* block here.
Provided(a, f) ==
    LET s == text[f.template] IN
    \/ f.at \in 1..Len(s) /\ s[f.at][1] = "end"
    \/ a.scope \cup NamesAt(s, f.at) \subseteq f.scope

RenderedAt(w, n) ==
    /\ Provided(w[n], frames[n])
    /\ n < Len(frames) /\ frames[n].kind # "template" => frames[n + 1].scope \subseteq frames[n].scope

\* Every frame repeats a walk of the check, which left nothing out.
Rendering(W, w) ==
    /\ Covers(W) /\ w \in Seq(W) /\ WalksOfFrames(w)
    /\ \A n \in 1..Len(frames) : RenderedAt(w, n)
    /\ (\A a \in W : Complete(W, a)) /\ ~cyclic

LEMMA RenderingStays ==
    ASSUME Keeps, cyclic' = cyclic, NEW W, NEW w, Rendering(W, w)
    PROVE  Covers(W)' /\ (\A a \in W : Complete(W, a)') /\ ~cyclic'
BY CoverStays, CompleteStays DEF Rendering

LEMMA RenderMoves ==
    ASSUME frames \in Seq(FrameSet), Keeps, cyclic' = cyclic, NEW W, NEW w, Rendering(W, w),
           NEW f, MovesTo(f), Provided(w[1], f),
           Len(frames) >= 2 /\ f.kind # "template" => frames[2].scope \subseteq f.scope
    PROVE  Rendering(W, w)'
<1>1. /\ Covers(W) /\ w \in Seq(W) /\ WalksOfFrames(w)
      /\ \A n \in 1..Len(frames) : RenderedAt(w, n)
  BY DEF Rendering
<1>2. /\ Len(frames') = Len(frames) /\ Len(frames) \in Nat /\ frames'[1] = f
      /\ \A n \in 2..Len(frames) : frames'[n] = frames[n]
  BY DEF MovesTo
<1>3. WalksOfFrames(w)'
  BY <1>1, MoveKeepsWalks DEF Keeps
<1>4. text' = text
  BY DEF Keeps
<1>5. ASSUME NEW n \in 1..Len(frames) PROVE RenderedAt(w, n)'
  <2>1. n < Len(frames) => frames'[n + 1] = frames[n + 1]
    BY <1>2
  <2>2. CASE n = 1
    <3>1. Provided(w[1], frames'[1])
      BY <1>2
    <3>2. 1 < Len(frames) /\ f.kind # "template" => frames[2].scope \subseteq f.scope
      BY <1>2
    <3>3. QED
      BY <2>1, <2>2, <3>1, <3>2, <1>2, <1>4 DEF RenderedAt, Provided
  <2>3. CASE n # 1
    <3>1. frames'[n] = frames[n] /\ RenderedAt(w, n)
      BY <1>1, <1>2, <2>3
    <3>2. QED
      BY <3>1, <2>1, <1>2, <1>4 DEF RenderedAt, Provided
  <2>4. QED
    BY <2>2, <2>3
<1>6. QED
  BY <1>1, <1>2, <1>3, <1>5, RenderingStays DEF Rendering

LEMMA RenderEnters ==
    ASSUME frames \in Seq(FrameSet), Keeps, cyclic' = cyclic, NEW W, NEW w, Rendering(W, w),
           NEW f, Enters(f), NEW c \in W, WalksOfFrames(<<c>> \o w)', Provided(c, f),
           Len(frames) >= 1 /\ f.kind # "template" => frames[1].scope \subseteq f.scope
    PROVE  Rendering(W, <<c>> \o w)'
<1> DEFINE v == <<c>> \o w
<1>1. /\ Covers(W) /\ w \in Seq(W) /\ WalksOfFrames(w)
      /\ \A n \in 1..Len(frames) : RenderedAt(w, n)
  BY DEF Rendering
<1>2. /\ Len(frames) \in Nat /\ Len(frames') = Len(frames) + 1 /\ frames'[1] = f
      /\ \A n \in 2..(Len(frames) + 1) : frames'[n] = frames[n - 1]
      /\ Len(w) = Len(frames)
  BY <1>1 DEF Enters, WalksOfFrames
<1>3. /\ v \in Seq(W) /\ v[1] = c
      /\ \A n \in 2..(Len(frames) + 1) : v[n] = w[n - 1]
  BY <1>1, <1>2
<1>4. text' = text
  BY DEF Keeps
<1> HIDE DEF v
<1>5. ASSUME NEW n \in 1..Len(frames') PROVE RenderedAt(v, n)'
  <2>1. n < Len(frames') => frames'[n + 1] = frames[n]
    <3>1. n < Len(frames') => n + 1 \in 2..(Len(frames) + 1) /\ (n + 1) - 1 = n
      BY <1>2
    <3>2. QED
      BY <3>1, <1>2
  <2>2. CASE n = 1
    <3>1. frames'[1] = f /\ v[1] = c /\ (1 < Len(frames') => Len(frames) >= 1)
      BY <1>2, <1>3
    <3>2. QED
      BY <2>1, <2>2, <3>1, <1>4 DEF RenderedAt, Provided
  <2>3. CASE n # 1
    <3>1. n - 1 \in 1..Len(frames) /\ n \in 2..(Len(frames) + 1) /\ (n - 1) + 1 = n
          /\ (n < Len(frames') => n - 1 < Len(frames))
      BY <2>3, <1>2
    <3>2. frames'[n] = frames[n - 1] /\ v[n] = w[n - 1] /\ RenderedAt(w, n - 1)
      BY <3>1, <1>1, <1>2, <1>3
    <3>3. QED
      BY <3>1, <3>2, <2>1, <1>4 DEF RenderedAt, Provided
  <2>4. QED
    BY <2>2, <2>3
<1>6. WalksOfFrames(v)'
  BY DEF v
<1>7. Rendering(W, v)'
  BY <1>3, <1>5, <1>6, RenderingStays DEF Rendering
<1>8. QED
  BY <1>7 DEF v

LEMMA RenderReturns ==
    ASSUME frames \in Seq(FrameSet), Keeps, cyclic' = cyclic, NEW W, NEW w, Rendering(W, w),
           NEW f, BackTo(f), Provided(w[2], f),
           Len(frames) >= 3 /\ f.kind # "template" => frames[3].scope \subseteq f.scope
    PROVE  Rendering(W, Tail(w))'
<1> DEFINE v == Tail(w)
<1>1. /\ Covers(W) /\ w \in Seq(W) /\ WalksOfFrames(w)
      /\ \A n \in 1..Len(frames) : RenderedAt(w, n)
  BY DEF Rendering
<1>2. /\ Len(frames) \in Nat /\ Len(frames) >= 2 /\ Len(frames') = Len(frames) - 1 /\ frames'[1] = f
      /\ \A n \in 2..(Len(frames) - 1) : frames'[n] = frames[n + 1]
      /\ Len(w) = Len(frames)
  BY <1>1 DEF BackTo, WalksOfFrames
<1>3. /\ v \in Seq(W) /\ v[1] = w[2]
      /\ \A n \in 1..(Len(frames) - 1) : v[n] = w[n + 1]
  BY <1>1, <1>2
<1> HIDE DEF v
<1>4. text' = text
  BY DEF Keeps
<1>5. WalksOfFrames(v)'
  BY <1>1, ReturnKeepsWalks DEF v, Keeps
<1>6. ASSUME NEW n \in 1..Len(frames') PROVE RenderedAt(v, n)'
  <2>1. n < Len(frames') => frames'[n + 1] = frames[n + 1 + 1]
    <3>1. n < Len(frames') => n + 1 \in 2..(Len(frames) - 1)
      BY <1>2
    <3>2. QED
      BY <3>1, <1>2
  <2>2. CASE n = 1
    <3>1. frames'[1] = f /\ v[1] = w[2] /\ (1 < Len(frames') => Len(frames) >= 3)
      BY <1>2, <1>3
    <3>2. 1 < Len(frames') => frames'[2] = frames[3]
      BY <1>2
    <3>3. QED
      BY <2>2, <3>1, <3>2, <1>4 DEF RenderedAt, Provided
  <2>3. CASE n # 1
    <3>1. n + 1 \in 1..Len(frames) /\ n \in 2..(Len(frames) - 1) /\ n \in 1..(Len(frames) - 1)
          /\ (n < Len(frames') => n + 1 < Len(frames))
      BY <2>3, <1>2
    <3>2. frames'[n] = frames[n + 1] /\ v[n] = w[n + 1] /\ RenderedAt(w, n + 1)
      BY <3>1, <1>1, <1>2, <1>3
    <3>3. QED
      BY <3>1, <3>2, <2>1, <1>4 DEF RenderedAt, Provided
  <2>4. QED
    BY <2>2, <2>3
<1>7. Rendering(W, v)'
  BY <1>3, <1>5, <1>6, RenderingStays DEF Rendering
<1>8. QED
  BY <1>7 DEF v

\* The walk of the top frame, while a template is rendered.
LEMMA TopIsRendered ==
    ASSUME TemplatesTypeOK, Nested, frames # <<>>, NEW W, NEW w, Rendering(W, w)
    PROVE  /\ w[1] \in W /\ w[1] \in Walks /\ w[1].template = Top.template /\ w[1].path = Path
           /\ Complete(W, w[1]) /\ Provided(w[1], Top)
           /\ Len(frames) >= 2 /\ Top.kind # "template" => frames[2].scope \subseteq Top.scope
<1>1. 1 \in 1..Len(frames) /\ Len(frames) \in Nat /\ DOMAIN frames = 1..Len(frames)
  BY DEF TemplatesTypeOK
<1>2. /\ w \in Seq(W) /\ W \subseteq Walks /\ Len(w) = Len(frames) /\ WalkAt(w, 1) /\ RenderedAt(w, 1)
  BY <1>1 DEF Rendering, Covers, WalksOfFrames
<1>3. w[1] \in W /\ w[1] \in Walks
  BY <1>1, <1>2
<1>4. w[1].template = Top.template /\ w[1].path = Path
  BY <1>1, <1>2 DEF WalkAt, Path, Top
<1>5. Complete(W, w[1])
  BY <1>3 DEF Rendering
<1>6. Len(frames) >= 2 /\ Top.kind # "template" => frames[2].scope \subseteq Top.scope
  BY <1>1, <1>2 DEF RenderedAt, Top
<1>7. QED
  BY <1>2, <1>3, <1>4, <1>5, <1>6 DEF RenderedAt, Top

LEMMA RenderAdvances ==
    ASSUME TemplatesTypeOK, Nested, frames # <<>>, ~Finished, Keeps, cyclic' = cyclic,
           NEW W, NEW w, Rendering(W, w), Token[1] \notin BlockKinds \cup {"end", "else"},
           NEW sc, sc = Top.scope \cup (IF Token[1] = "set" THEN {Token[2]} ELSE {}),
           Advance(sc)
    PROVE  Nested' /\ Rendering(W, w)'
<1> DEFINE f == FrameFor(Top.kind, Top.template, Top.at + 1, sc)
           s == text[Top.template]
<1>1. /\ frames \in Seq(FrameSet) /\ Top.at \in 1..Len(s) /\ Top.at \in Nat /\ s \in Texts
      /\ Token[2] \in STRING /\ Top.scope \subseteq STRING /\ Token = s[Top.at]
  BY TopAtToken DEF Token
<1>2. sc \in SUBSET STRING
  BY <1>1
<1>3. MovesTo(f) /\ Nested'
  BY <1>2, AdvanceIsNested DEF Keeps
<1>4. f.scope = sc /\ f.template = Top.template /\ f.at = Top.at + 1 /\ f.kind = Top.kind
  BY DEF FrameFor
<1>5. NamesAt(s, Top.at + 1) = NamesAt(s, Top.at) \cup (IF Token[1] = "set" THEN {Token[2]} ELSE {})
  <2>1. Token[1] \in {"set", "for", "with"} <=> Token[1] = "set"
    BY DEF BlockKinds
  <2>2. QED
    BY <1>1, <2>1, NamesAfter
<1>6. Provided(w[1], f)
  <2>1. w[1].scope \cup NamesAt(s, Top.at) \subseteq Top.scope
    BY <1>1, TopIsRendered DEF Provided
  <2>2. w[1].scope \cup NamesAt(s, Top.at + 1) \subseteq sc
    BY <2>1, <1>5
  <2>3. QED
    BY <2>2, <1>4 DEF Provided
<1>7. Len(frames) >= 2 /\ f.kind # "template" => frames[2].scope \subseteq f.scope
  BY <1>4, TopIsRendered
<1> HIDE DEF f
<1>8. Rendering(W, w)'
  BY <1>1, <1>3, <1>6, <1>7, RenderMoves
<1>9. QED
  BY <1>3, <1>8

LEMMA RenderUsesName ==
    ASSUME TemplatesTypeOK, Nested, mode = "render", NEW W, NEW w, Rendering(W, w),
           MissingIsReported, UseName
    PROVE  Nested' /\ Rendering(W, w)' /\ MissingIsReported'
<1> DEFINE s == text[Top.template]
           place == <<Top.template, Top.at>>
<1>1. /\ frames # <<>> /\ ~Finished /\ Token[1] = "use" /\ Advance(Top.scope)
      /\ UNCHANGED <<text, context, visited, cyclic, reported>>
      /\ \/ Token[2] \notin Top.scope /\ missing' = missing \cup {place}
         \/ missing' = missing
  BY DEF UseName, AtToken, input
<1>2. Keeps
  BY <1>1 DEF Keeps
<1>3. Nested' /\ Rendering(W, w)'
  <2>1. Token[1] \notin BlockKinds \cup {"end", "else"} /\ Token[1] # "set"
    BY <1>1 DEF BlockKinds
  <2>2. Top.scope = Top.scope \cup (IF Token[1] = "set" THEN {Token[2]} ELSE {})
    BY <2>1
  <2>3. QED
    BY <1>1, <1>2, <2>1, <2>2, RenderAdvances
<1>4. Token[2] \in Top.scope \/ Token[2] \in Excused(Top.template) \/ place \in reported
  <2>1. /\ Top.at \in 1..Len(s) /\ Token = s[Top.at]
    BY <1>1, TopAtToken DEF Token
  <2>2. /\ w[1].template = Top.template /\ Complete(W, w[1]) /\ Provided(w[1], Top)
    BY <1>1, TopIsRendered
  <2>3. w[1].scope \cup NamesAt(s, Top.at) \subseteq Top.scope
    BY <1>1, <2>1, <2>2 DEF Provided
  <2>4. Seen(W, w[1], Top.at)
    BY <2>1, <2>2 DEF Complete
  <2>5. \/ Token[2] \in w[1].scope \cup NamesAt(s, Top.at) \cup Excused(Top.template)
        \/ place \in reported
    BY <1>1, <2>1, <2>2, <2>4 DEF Seen
  <2>6. QED
    BY <2>3, <2>5
<1>5. MissingIsReported'
  <2>1. \A t : Excused(t)' = Excused(t)
    BY <1>1 DEF Excused, Optional
  <2>2. ASSUME NEW q \in missing' PROVE q \in reported \/ text[q[1]][q[2]][2] \in Excused(q[1])
    <3>1. CASE q \in missing
      BY <3>1 DEF MissingIsReported
    <3>2. CASE q \notin missing
      <4>1. q = place /\ Token[2] \notin Top.scope
        BY <1>1, <2>2, <3>2
      <4>2. q[1] = Top.template /\ q[2] = Top.at /\ text[q[1]][q[2]][2] = Token[2]
        BY <4>1 DEF Token
      <4>3. QED
        BY <4>1, <4>2, <1>4
    <3>3. QED
      BY <3>1, <3>2
  <2>3. \A q \in missing' : q \in reported' \/ text'[q[1]][q[2]][2] \in Excused(q[1])'
    BY <1>1, <2>1, <2>2
  <2>4. QED
    BY <2>3 DEF MissingIsReported
<1>6. QED
  BY <1>3, <1>5

LEMMA RenderPasses ==
    ASSUME TemplatesTypeOK, Nested, mode = "render", NEW W, NEW w, Rendering(W, w), UseDefault \/ SetName
    PROVE  Nested' /\ Rendering(W, w)'
<1>1. /\ frames # <<>> /\ ~Finished /\ Token[1] \in {"default", "set"}
      /\ Advance(Top.scope \cup (IF Token[1] = "set" THEN {Token[2]} ELSE {}))
      /\ UNCHANGED <<text, context, visited, cyclic, reported>>
  <2>1. CASE UseDefault
    <3>1. Token[1] = "default" /\ Advance(Top.scope)
      BY <2>1 DEF UseDefault, AtToken
    <3>2. Top.scope \cup (IF Token[1] = "set" THEN {Token[2]} ELSE {}) = Top.scope
      BY <3>1
    <3>3. QED
      BY <2>1, <3>1, <3>2 DEF UseDefault, AtToken, input
  <2>2. CASE SetName
    <3>1. Token[1] = "set" /\ Advance(Top.scope \cup {Token[2]})
      BY <2>2 DEF SetName, AtToken
    <3>2. QED
      BY <2>2, <3>1 DEF SetName, AtToken, input
  <2>3. QED
    BY <2>1, <2>2
<1>2. Keeps
  BY <1>1 DEF Keeps
<1>3. Token[1] \notin BlockKinds \cup {"end", "else"}
  BY <1>1 DEF BlockKinds
<1>4. QED
  BY <1>1, <1>2, <1>3, RenderAdvances

\* A block that the top frame is at begins with its names, wherever the
\* rendering enters it.
LEMMA RenderEntersAt ==
    ASSUME TemplatesTypeOK, Nested, NEW W, NEW w, Rendering(W, w), Keeps, cyclic' = cyclic,
           frames # <<>>, ~Finished, Token[1] \in BlockKinds, NEW k \in BlockKinds, NEW i \in Nat,
           i \in 1..(Len(text[Top.template]) + 1), InBlock(text[Top.template], Top.at, i),
           NEW sc \in SUBSET STRING, Top.scope \subseteq sc,
           w[1].scope \cup NamesAt(text[Top.template], i) \subseteq sc,
           frames' = <<FrameFor(k, Top.template, i, sc)>> \o frames
    PROVE  Nested' /\ Rendering(W, <<w[1]>> \o w)'
<1> DEFINE f == FrameFor(k, Top.template, i, sc)
           s == text[Top.template]
<1>1. /\ frames \in Seq(FrameSet) /\ Len(frames) >= 1 /\ Top = frames[1]
  BY TopAtToken
<1>2. Enters(f) /\ Nested'
  BY EntryIsNested DEF Keeps
<1>3. f.scope = sc /\ f.template = Top.template /\ f.at = i /\ f.kind # "template"
  BY DEF FrameFor, BlockKinds
<1>4. /\ w[1] \in W /\ w[1] \in Walks /\ w[1].template = Top.template /\ w[1].path = Path
  BY TopIsRendered
<1>5. Top.template \in Path
  BY <1>1 DEF Path
<1>6. WalksOfFrames(<<w[1]>> \o w)'
  <2>1. w[1].path = w[1].path \cup {f.template} /\ w[1].template = f.template
    BY <1>3, <1>4, <1>5
  <2>2. WalksOfFrames(w)
    BY DEF Rendering
  <2> HIDE DEF f
  <2>3. QED
    BY <1>1, <1>2, <1>3, <1>4, <2>1, <2>2, EntryKeepsWalks DEF Keeps
<1>7. Provided(w[1], f)
  BY <1>3 DEF Provided
<1>8. frames[1].scope \subseteq f.scope
  BY <1>1, <1>3
<1> HIDE DEF f
<1>9. Rendering(W, <<w[1]>> \o w)'
  BY <1>1, <1>2, <1>4, <1>6, <1>7, <1>8, RenderEnters
<1>10. QED
  BY <1>2, <1>9

LEMMA RenderEntersBlock ==
    ASSUME TemplatesTypeOK, Nested, mode = "render", NEW W, NEW w, Rendering(W, w), EnterBlock
    PROVE  Nested' /\ Rendering(W, <<w[1]>> \o w)'
<1> DEFINE sc == Top.scope \cup (IF Token[1] = "if" THEN {} ELSE {Token[2]})
           s == text[Top.template]
<1>1. /\ frames # <<>> /\ ~Finished /\ Token[1] \in BlockKinds
      /\ frames' = <<FrameFor(Token[1], Top.template, Top.at + 1, sc)>> \o frames
      /\ UNCHANGED <<text, context, visited, cyclic, reported>>
  BY DEF EnterBlock, AtToken, input
<1>2. Keeps
  BY <1>1 DEF Keeps
<1>3. /\ Top.at \in 1..Len(s) /\ Top.at \in Nat /\ s \in Texts
      /\ Token[2] \in STRING /\ Top.scope \subseteq STRING /\ Token = s[Top.at]
  BY <1>1, TopAtToken DEF Token
<1>4. InBlock(s, Top.at, Top.at + 1) /\ Top.at + 1 \in Nat /\ Top.at + 1 \in 1..(Len(s) + 1)
  BY <1>1, <1>3, BlockBegins
<1>5. sc \in SUBSET STRING /\ Top.scope \subseteq sc
  BY <1>3
<1>6. w[1].scope \cup NamesAt(s, Top.at + 1) \subseteq sc
  <2>1. Token[1] \notin {"end", "else"} /\ (Token[1] \in {"set", "for", "with"} <=> Token[1] # "if")
    BY <1>1 DEF BlockKinds
  <2>2. NamesAt(s, Top.at + 1) = NamesAt(s, Top.at)
                \cup (IF s[Top.at][1] \in {"set", "for", "with"} THEN {s[Top.at][2]} ELSE {})
    BY <1>3, <2>1, NamesAfter
  <2>3. w[1].scope \cup NamesAt(s, Top.at) \subseteq Top.scope
    BY <1>1, <1>3, <2>1, TopIsRendered DEF Provided
  <2>4. QED
    BY <1>3, <2>1, <2>2, <2>3
<1> HIDE DEF sc
<1>7. QED
  BY <1>1, <1>2, <1>4, <1>5, <1>6, RenderEntersAt

LEMMA RenderIncludes ==
    ASSUME TemplatesTypeOK, Nested, mode = "render", NEW W, NEW w, Rendering(W, w), Include
    PROVE  Nested' /\ \E v : Rendering(W, v)'
<1> DEFINE s == text[Top.template]
           sc == IF Token[1] = "include" THEN Top.scope ELSE {}
           f == FrameFor("template", Token[2], 1, sc)
<1>1. /\ frames # <<>> /\ ~Finished /\ Token[1] \in {"include", "bare"}
      /\ UNCHANGED <<text, context, reported, visited, cyclic>>
      /\ frames' = <<f>> \o frames
  BY DEF Include, AtToken, input
<1>2. Keeps
  BY <1>1 DEF Keeps
<1>3. /\ frames \in Seq(FrameSet) /\ Len(frames) >= 1 /\ Top.at \in 1..Len(s) /\ s \in Texts
      /\ Top.scope \subseteq STRING /\ Token = s[Top.at] /\ Top = frames[1]
      /\ Token[2] \in Templates
  BY <1>1, TopAtToken DEF Token
<1>4. /\ w[1].template = Top.template /\ Complete(W, w[1]) /\ Provided(w[1], Top) /\ W \subseteq Walks
  BY <1>1, TopIsRendered DEF Rendering, Covers
<1> PICK c : c = Included(s, w[1], Top.at)
  OBVIOUS
<1>5. c \in W /\ Token[2] \notin w[1].path
  <2>1. Seen(W, w[1], Top.at) /\ ~cyclic
    BY <1>3, <1>4 DEF Complete, Rendering
  <2>2. QED
    BY <1>1, <1>3, <1>4, <2>1 DEF Seen
<1>6. Enters(f) /\ Nested'
  <2>1. sc \in SUBSET STRING
    BY <1>3
  <2>2. QED
    BY <1>1, <2>1, InclusionIsNested
<1>7. f.kind = "template" /\ f.template = Token[2] /\ f.at = 1 /\ f.scope = sc
  BY DEF FrameFor
<1>8. /\ c.template = Token[2] /\ c.path = w[1].path \cup {Token[2]}
      /\ c.scope = IF Token[1] = "include" THEN w[1].scope \cup NamesAt(s, Top.at) ELSE {}
  BY <1>3 DEF Included
<1>9. Provided(c, f)
  <2>1. text[Token[2]] \in Texts
    BY <1>3 DEF TemplatesTypeOK
  <2>2. NamesAt(text[Token[2]], 1) = {}
    BY <2>1, NothingInScope
  <2>3. w[1].scope \cup NamesAt(s, Top.at) \subseteq Top.scope
    BY <1>1, <1>3, <1>4 DEF Provided
  <2>4. c.scope \subseteq sc
    BY <1>8, <2>3
  <2>5. QED
    BY <1>7, <2>2, <2>4 DEF Provided
<1> HIDE DEF f
<1>10. WalksOfFrames(<<c>> \o w)'
  <2>1. WalksOfFrames(w)
    BY DEF Rendering
  <2>2. c.template = f.template /\ c.path = w[1].path \cup {f.template} /\ c \in Walks
    BY <1>4, <1>5, <1>7, <1>8
  <2>3. IF f.kind = "template"
        THEN c = Included(text[w[1].template], w[1], frames[1].at) /\ c.template \notin w[1].path
        ELSE c = w[1]
    BY <1>3, <1>4, <1>5, <1>7, <1>8
  <2>4. text' = text /\ context' = context
    BY <1>1
  <2>5. QED
    BY <1>3, <1>6, <2>1, <2>2, <2>3, <2>4, EntryKeepsWalks
<1>11. Rendering(W, <<c>> \o w)'
  BY <1>1, <1>2, <1>3, <1>5, <1>6, <1>7, <1>9, <1>10, RenderEnters
<1>12. QED
  BY <1>6, <1>11

LEMMA RenderEndsTemplate ==
    ASSUME TemplatesTypeOK, Nested, mode = "render", NEW W, NEW w, Rendering(W, w), EndTemplate
    PROVE  Nested' /\ \E v : Rendering(W, v)'
<1>1. /\ frames # <<>> /\ Finished
      /\ IF Len(frames) = 1 THEN frames' = <<>> ELSE Leave(frames[2].at + 1, frames[2].scope)
      /\ UNCHANGED <<text, context, visited, reported, cyclic>>
  BY DEF EndTemplate, input
<1>2. Keeps
  BY <1>1 DEF Keeps
<1>3. CASE Len(frames) = 1
  <2>1. frames' = <<>>
    BY <1>1, <1>3
  <2>2. Nested'
    BY <2>1 DEF Nested
  <2>3. WalksOfFrames(<<>>)'
    BY <2>1 DEF WalksOfFrames
  <2>4. Rendering(W, <<>>)'
    <3>1. <<>> \in Seq(W) /\ Len(frames') = 0
      BY <2>1
    <3>2. QED
      BY <1>1, <1>2, <2>3, <3>1, RenderingStays DEF Rendering
  <2>5. QED
    BY <2>2, <2>4
<1>4. CASE Len(frames) # 1
  <2> DEFINE f == FrameFor(frames[2].kind, frames[2].template, frames[2].at + 1, frames[2].scope)
             s == text[frames[2].template]
  <2>1. Leave(frames[2].at + 1, frames[2].scope)
    BY <1>1, <1>4
  <2>2. Len(frames) >= 2 /\ BackTo(f) /\ Nested'
    BY <1>1, <1>4, <2>1, ReturnIsNested
  <2>3. /\ f.template = frames[2].template /\ f.at = frames[2].at + 1 /\ f.scope = frames[2].scope
        /\ f.kind = frames[2].kind
    BY DEF FrameFor
  <2>4. /\ frames[2].at \in 1..Len(s) /\ s[frames[2].at][1] \in {"include", "bare"}
    BY <1>1, <2>2, FinishedIsTemplate
  <2>5. 2 \in 1..Len(frames) /\ frames \in Seq(FrameSet) /\ s \in Texts /\ Len(frames) \in Nat
    BY <1>1, <2>2, FramesAreTyped, FinishedIsTemplate
  <2>6. RenderedAt(w, 2)
    BY <2>5 DEF Rendering
  <2>7. Provided(w[2], f)
    <3>1. w[2].scope \cup NamesAt(s, frames[2].at) \subseteq frames[2].scope
      BY <2>4, <2>6 DEF RenderedAt, Provided
    <3>2. NamesAt(s, frames[2].at + 1) = NamesAt(s, frames[2].at)
      <4>1. s[frames[2].at][1] \notin {"end", "else"} /\ s[frames[2].at][1] \notin {"set", "for", "with"}
        BY <2>4
      <4>2. QED
        BY <2>4, <2>5, <4>1, NamesAfter
    <3>3. QED
      BY <2>3, <3>1, <3>2 DEF Provided
  <2>8. Len(frames) >= 3 /\ f.kind # "template" => frames[3].scope \subseteq f.scope
    BY <2>3, <2>5, <2>6 DEF RenderedAt
  <2>9. Rendering(W, Tail(w))'
    <3> HIDE DEF f
    <3>1. QED
      BY <1>1, <1>2, <2>2, <2>5, <2>7, <2>8, RenderReturns
  <2>10. QED
    BY <2>2, <2>9
<1>5. QED
  BY <1>3, <1>4

\* A block that ends leaves at least what was there before it.
LEMMA RenderLeavesBlock ==
    ASSUME TemplatesTypeOK, Nested, NEW W, NEW w, Rendering(W, w), Keeps, cyclic' = cyclic,
           frames # <<>>, ~Finished, Token[1] = "end",
           NEW sc \in SUBSET STRING, frames[2].scope \subseteq sc, Leave(Top.at + 1, sc)
    PROVE  Nested' /\ Rendering(W, Tail(w))'
<1> DEFINE s == text[Top.template]
           f == FrameFor(frames[2].kind, frames[2].template, Top.at + 1, sc)
<1>1. /\ Len(frames) >= 2 /\ Top.template = frames[2].template
      /\ frames[2].at \in 1..Len(s) /\ s[frames[2].at][1] \in BlockKinds
      /\ InBlock(s, frames[2].at, Top.at)
  BY TopInBlock
<1>2. /\ frames \in Seq(FrameSet) /\ Len(frames) \in Nat /\ s \in Texts /\ Token = s[Top.at]
      /\ Top.at \in 1..Len(s)
  BY TopAtToken DEF Token
<1>3. BackTo(f) /\ Nested'
  BY EndIsNested DEF Keeps
<1>4. f.template = Top.template /\ f.at = Top.at + 1 /\ f.scope = sc /\ f.kind = frames[2].kind
  BY <1>1 DEF FrameFor
<1>5. RenderedAt(w, 2)
  <2>1. 2 \in 1..Len(frames)
    BY <1>1, <1>2
  <2>2. QED
    BY <2>1 DEF Rendering
<1>6. Provided(w[2], f)
  <2>1. w[2].scope \cup NamesAt(s, frames[2].at) \subseteq frames[2].scope
    <3>1. s[frames[2].at][1] # "end"
      BY <1>1 DEF BlockKinds
    <3>2. QED
      BY <1>1, <1>5, <3>1 DEF RenderedAt, Provided
  <2>2. NamesAt(s, Top.at + 1) = NamesAt(s, frames[2].at)
    BY <1>1, <1>2, NamesAfterBlock
  <2>3. QED
    BY <1>4, <2>1, <2>2 DEF Provided
<1>7. Len(frames) >= 3 /\ f.kind # "template" => frames[3].scope \subseteq f.scope
  BY <1>2, <1>4, <1>5 DEF RenderedAt
<1> HIDE DEF f
<1>8. Rendering(W, Tail(w))'
  BY <1>2, <1>3, <1>6, <1>7, RenderReturns
<1>9. QED
  BY <1>3, <1>8

\* Within a block a rendering may go to another place, where what was there
\* before the block is enough.
LEMMA RenderJumpsWithin ==
    ASSUME TemplatesTypeOK, Nested, NEW W, NEW w, Rendering(W, w), Keeps, cyclic' = cyclic,
           frames # <<>>, ~Finished, Token[1] \in {"end", "else"}, NEW i \in Nat,
           i \in 1..(Len(text[Top.template]) + 1),
           InBlock(text[Top.template], frames[2].at, i),
           NEW sc \in SUBSET STRING, frames[2].scope \subseteq sc,
           \/ i \in 1..Len(text[Top.template]) /\ text[Top.template][i][1] = "end"
           \/ w[1].scope \cup NamesAt(text[Top.template], i) \subseteq sc,
           frames' = GoTo(frames, i, sc)
    PROVE  Nested' /\ Rendering(W, w)'
<1> DEFINE f == FrameFor(Top.kind, Top.template, i, sc)
<1>1. frames \in Seq(FrameSet)
  BY TopAtToken
<1>2. MovesTo(f) /\ Nested'
  BY JumpWithinIsNested DEF Keeps
<1>3. f.template = Top.template /\ f.at = i /\ f.scope = sc
  BY DEF FrameFor
<1>4. Provided(w[1], f)
  BY <1>3 DEF Provided
<1>5. Len(frames) >= 2 /\ f.kind # "template" => frames[2].scope \subseteq f.scope
  BY <1>3
<1> HIDE DEF f
<1>6. Rendering(W, w)'
  BY <1>1, <1>2, <1>4, <1>5, RenderMoves
<1>7. QED
  BY <1>2, <1>6

LEMMA RenderEndsBlock ==
    ASSUME TemplatesTypeOK, Nested, mode = "render", NEW W, NEW w, Rendering(W, w), EndBlock
    PROVE  Nested' /\ \E v : Rendering(W, v)'
<1> DEFINE s == text[Top.template]
<1>1. /\ frames # <<>> /\ ~Finished /\ Token[1] = "end"
      /\ UNCHANGED <<text, context, visited, reported, cyclic>>
      /\ \/ Leave(Top.at + 1, IF Top.kind = "if" THEN Top.scope ELSE frames[2].scope)
         \/ frames' = GoTo(frames, frames[2].at + 1, frames[2].scope \cup {s[frames[2].at][2]})
  BY DEF EndBlock, AtToken, input
<1>2. Keeps
  BY <1>1 DEF Keeps
<1>3. /\ Len(frames) >= 2 /\ Top.kind \in BlockKinds /\ Top.template = frames[2].template
      /\ frames[2].at \in 1..Len(s) /\ s[frames[2].at][1] \in BlockKinds
      /\ InBlock(s, frames[2].at, Top.at)
  BY <1>1, TopInBlock
<1>4. /\ Len(frames) \in Nat /\ s \in Texts /\ Top.scope \subseteq STRING /\ Top = frames[1] /\ Len(s) \in Nat
  BY <1>1, TopAtToken, TokensAreTyped
<1>5. frames[2].scope \subseteq STRING
  <2>1. 2 \in 1..Len(frames)
    BY <1>3, <1>4
  <2>2. QED
    BY <2>1, FramesAreTyped
<1>6. frames[2].scope \subseteq Top.scope
  BY <1>1, <1>3, TopIsRendered DEF BlockKinds
<1>7. CASE Leave(Top.at + 1, IF Top.kind = "if" THEN Top.scope ELSE frames[2].scope)
  <2> DEFINE sc == IF Top.kind = "if" THEN Top.scope ELSE frames[2].scope
  <2>1. sc \in SUBSET STRING /\ frames[2].scope \subseteq sc
    BY <1>4, <1>5, <1>6
  <2> HIDE DEF sc
  <2>2. Leave(Top.at + 1, sc)
    BY <1>7 DEF sc
  <2>3. QED
    BY <1>1, <1>2, <2>1, <2>2, RenderLeavesBlock
<1>8. CASE frames' = GoTo(frames, frames[2].at + 1, frames[2].scope \cup {s[frames[2].at][2]})
  <2> DEFINE sc == frames[2].scope \cup {s[frames[2].at][2]}
             i == frames[2].at + 1
  <2>1. sc \in SUBSET STRING /\ frames[2].scope \subseteq sc
    BY <1>3, <1>4, <1>5, TokensAreTyped
  <2>2. i \in Nat /\ i \in 1..(Len(s) + 1) /\ InBlock(s, frames[2].at, i)
    BY <1>3, <1>4, BlockBegins
  <2>3. w[1].scope \cup NamesAt(s, i) \subseteq sc
    <3>1. 1 \in 1..Len(frames) /\ 2 \in 1..Len(frames) /\ 1 < Len(frames)
      BY <1>3, <1>4
    <3>2. WalkAt(w, 1) /\ RenderedAt(w, 2)
      BY <3>1 DEF Rendering, WalksOfFrames
    <3>3. w[1] = w[2]
      BY <1>3, <1>4, <3>1, <3>2 DEF WalkAt, BlockKinds
    <3>4. s[frames[2].at][1] \notin {"end", "else"}
      BY <1>3 DEF BlockKinds
    <3>5. w[2].scope \cup NamesAt(s, frames[2].at) \subseteq frames[2].scope
      BY <1>3, <3>2, <3>4 DEF RenderedAt, Provided
    <3>6. NamesAt(s, i) \subseteq NamesAt(s, frames[2].at) \cup {s[frames[2].at][2]}
      BY <1>3, <1>4, <3>4, NamesAfter
    <3>7. QED
      BY <3>3, <3>5, <3>6
  <2>4. frames' = GoTo(frames, i, sc)
    BY <1>8
  <2> HIDE DEF sc, i
  <2>5. QED
    BY <1>1, <1>2, <2>1, <2>2, <2>3, <2>4, RenderJumpsWithin
<1>9. QED
  BY <1>1, <1>7, <1>8

LEMMA RenderBranches ==
    ASSUME TemplatesTypeOK, Nested, mode = "render", NEW W, NEW w, Rendering(W, w), Else
    PROVE  Nested' /\ Rendering(W, w)'
<1> DEFINE s == text[Top.template]
           i == Matching(s, frames[2].at, {"end"})
<1>1. /\ frames # <<>> /\ ~Finished /\ Token[1] = "else" /\ frames' = GoTo(frames, i, Top.scope)
      /\ UNCHANGED <<text, context, visited, reported, cyclic>>
  BY DEF Else, AtToken, input
<1>2. Keeps
  BY <1>1 DEF Keeps
<1>3. /\ Len(frames) >= 2 /\ Top.kind \in BlockKinds /\ Top.template = frames[2].template
      /\ frames[2].at \in 1..Len(s) /\ s[frames[2].at][1] \in BlockKinds
  BY <1>1, TopInBlock
<1>4. /\ s \in Texts /\ Top.scope \in SUBSET STRING /\ Len(s) \in Nat
  BY <1>1, TopAtToken, TokensAreTyped
<1>5. i \in 1..Len(s) /\ s[i][1] \in {"end"} /\ InBlock(s, frames[2].at, i)
  BY <1>3, <1>4, MatchingIsInBlock
<1> HIDE DEF i
<1>6. i \in Nat /\ i \in 1..(Len(s) + 1)
  BY <1>4, <1>5
<1>7. frames[2].scope \subseteq Top.scope
  BY <1>1, <1>3, TopIsRendered DEF BlockKinds
<1>8. QED
  BY <1>1, <1>2, <1>4, <1>5, <1>6, <1>7, RenderJumpsWithin

LEMMA RenderSkips ==
    ASSUME TemplatesTypeOK, Nested, mode = "render", NEW W, NEW w, Rendering(W, w), SkipBlock
    PROVE  Nested' /\ \E v : Rendering(W, v)'
<1> DEFINE s == text[Top.template]
           j == Matching(s, Top.at, {"else", "end"})
           kind == IF Token[1] = "if" THEN "if" ELSE "with"
<1>1. /\ frames # <<>> /\ ~Finished /\ Token[1] \in BlockKinds
      /\ UNCHANGED <<text, context, visited, reported, cyclic>>
      /\ \/ s[j][1] = "end" /\ JumpTo(j + 1)
         \/ s[j][1] # "end" /\ frames' = <<FrameFor(kind, Top.template, j + 1, Top.scope)>> \o frames
  BY DEF SkipBlock, AtToken, input, BlockKinds
<1>2. Keeps
  BY <1>1 DEF Keeps
<1>3. /\ frames \in Seq(FrameSet) /\ Top = frames[1] /\ Top.at \in 1..Len(s) /\ s \in Texts /\ Token = s[Top.at]
      /\ Top.scope \in SUBSET STRING /\ Len(s) \in Nat
  BY <1>1, TopAtToken, TokensAreTyped DEF Token
<1>4. kind \in BlockKinds
  BY DEF BlockKinds
<1>5. /\ j \in 1..Len(s) /\ s[j][1] \in {"else", "end"} /\ InBlock(s, Top.at, j)
  BY <1>1, <1>3, MatchingIsInBlock
<1> HIDE DEF j, kind
<1>6. w[1].scope \cup NamesAt(s, Top.at) \subseteq Top.scope
  BY <1>1, <1>3, TopIsRendered DEF Provided, BlockKinds
<1>7. ASSUME NEW e \in 1..Len(s), InBlock(s, Top.at, e), s[e][1] = "end", JumpTo(e + 1)
      PROVE  Nested' /\ Rendering(W, w)'
  <2> DEFINE f == FrameFor(Top.kind, Top.template, e + 1, Top.scope)
  <2>1. MovesTo(f) /\ Nested'
    BY <1>1, <1>3, <1>7, SkipIsNested DEF JumpTo
  <2>2. f.kind = Top.kind /\ f.template = Top.template /\ f.at = e + 1 /\ f.scope = Top.scope
    BY DEF FrameFor
  <2>3. Provided(w[1], f)
    <3>1. NamesAt(s, e + 1) = NamesAt(s, Top.at)
      BY <1>3, <1>7, NamesAfterBlock
    <3>2. QED
      BY <1>6, <2>2, <3>1 DEF Provided
  <2>4. Len(frames) >= 2 /\ f.kind # "template" => frames[2].scope \subseteq f.scope
    BY <1>1, <2>2, TopIsRendered
  <2> HIDE DEF f
  <2>5. Rendering(W, w)'
    BY <1>1, <1>2, <1>3, <2>1, <2>3, <2>4, RenderMoves
  <2>6. QED
    BY <2>1, <2>5
<1>8. CASE s[j][1] = "end" /\ JumpTo(j + 1)
  BY <1>5, <1>7, <1>8
<1>9. CASE s[j][1] # "end" /\ frames' = <<FrameFor(kind, Top.template, j + 1, Top.scope)>> \o frames
  <2>1. s[j][1] = "else"
    BY <1>5, <1>9
  <2>2. InBlock(s, Top.at, j + 1) /\ j + 1 \in Nat /\ j + 1 \in 1..(Len(s) + 1)
    BY <1>3, <1>5, <2>1, BranchBegins
  <2>3. w[1].scope \cup NamesAt(s, j + 1) \subseteq Top.scope
    BY <1>3, <1>5, <1>6, <2>1, NamesAfterBlock
  <2>4. Nested' /\ Rendering(W, <<w[1]>> \o w)'
    BY <1>1, <1>2, <1>3, <1>4, <1>9, <2>2, <2>3, RenderEntersAt
  <2>5. QED
    BY <2>4
<1>10. QED
  BY <1>1, <1>8, <1>9

-----------------------------------------------------------------------------
(* The invariant *)

LEMMA FramesStayTyped ==
    ASSUME TemplatesTypeOK, Nested, TemplatesNext
    PROVE  frames' \in Seq(FrameSet)
<1>1. frames \in Seq(FrameSet)
  BY DEF TemplatesTypeOK, FrameSet
<1>2. ASSUME frames # <<>>, NEW i \in Nat, NEW sc \in SUBSET STRING, frames' = GoTo(frames, i, sc)
      PROVE  frames' \in Seq(FrameSet)
  BY <1>1, <1>2, TopGoesTo
<1>3. ASSUME Len(frames) >= 2, NEW i \in Nat, NEW sc \in SUBSET STRING, Leave(i, sc)
      PROVE  frames' \in Seq(FrameSet)
  BY <1>1, <1>3, ReturnShape DEF BackTo
<1>4. ASSUME NEW f \in FrameSet, frames' = <<f>> \o frames
      PROVE  frames' \in Seq(FrameSet)
  BY <1>1, <1>4
<1>5. ASSUME frames # <<>>, ~Finished
      PROVE  /\ Top.at \in Nat /\ Top.at + 1 \in Nat /\ Top.scope \in SUBSET STRING /\ Token[2] \in STRING
             /\ text[Top.template] \in Texts /\ Top.template \in Templates
             /\ Top.at \in 1..Len(text[Top.template]) /\ Len(text[Top.template]) \in Nat
  BY <1>5, TopAtToken, TokensAreTyped
<1>6. ASSUME Len(frames) >= 2
      PROVE  frames[2].scope \in SUBSET STRING /\ frames[2].at + 1 \in Nat
  <2>1. Len(frames) \in Nat
    BY <1>1
  <2>2. 2 \in 1..Len(frames)
    BY <1>6, <2>1
  <2>3. QED
    BY <2>2, FramesAreTyped
<1>7. CASE UseName \/ UseDefault
  BY <1>2, <1>5, <1>7 DEF UseName, UseDefault, AtToken, Advance
<1>8. CASE SetName
  BY <1>2, <1>5, <1>8 DEF SetName, AtToken, Advance
<1>9. CASE EnterBlock
  <2>1. frames # <<>> /\ ~Finished /\ Token[1] \in BlockKinds
    BY <1>9 DEF EnterBlock, AtToken
  <2> DEFINE sc == Top.scope \cup (IF Token[1] = "if" THEN {} ELSE {Token[2]})
  <2>2. sc \in SUBSET STRING
    BY <2>1, <1>5
  <2>3. frames' = <<FrameFor(Token[1], Top.template, Top.at + 1, sc)>> \o frames
    BY <1>9 DEF EnterBlock
  <2> HIDE DEF sc
  <2>4. FrameFor(Token[1], Top.template, Top.at + 1, sc) \in FrameSet
    BY <2>1, <2>2, <1>5 DEF FrameFor, FrameSet
  <2>5. QED
    BY <2>3, <2>4, <1>4
<1>10. CASE Include
  <2>1. frames # <<>> /\ ~Finished /\ Token[1] \in {"include", "bare"}
    BY <1>10 DEF Include, AtToken
  <2> DEFINE sc == IF Token[1] = "include" THEN Top.scope ELSE {}
  <2>2. sc \in SUBSET STRING
    BY <2>1, <1>5
  <2>3. frames' = <<FrameFor("template", Token[2], 1, sc)>> \o frames \/ frames' = GoTo(frames, Top.at + 1, Top.scope)
    BY <1>10 DEF Include, Advance
  <2> HIDE DEF sc
  <2>4. FrameFor("template", Token[2], 1, sc) \in FrameSet
    <3>1. Token[2] \in Templates
      BY <2>1, TopAtToken
    <3>2. QED
      BY <2>2, <3>1 DEF FrameFor, FrameSet
  <2>5. QED
    BY <2>1, <2>3, <2>4, <1>2, <1>4, <1>5
<1>11. CASE EndTemplate
  <2>1. CASE Len(frames) = 1
    <3>1. frames' = <<>>
      BY <1>11, <2>1 DEF EndTemplate
    <3>2. QED
      BY <3>1
  <2>2. CASE Len(frames) # 1
    <3>1. Leave(frames[2].at + 1, frames[2].scope)
      BY <1>11, <2>2 DEF EndTemplate
    <3>2. Len(frames) >= 2
      BY <1>11, <2>2, FinishedIsTemplate, NotOne DEF EndTemplate
    <3>3. QED
      BY <3>1, <3>2, <1>3, <1>6
  <2>3. QED
    BY <2>1, <2>2
<1>12. CASE EndBlock
  <2>1. frames # <<>> /\ ~Finished /\ Token[1] = "end"
    BY <1>12 DEF EndBlock, AtToken
  <2>2. /\ Len(frames) >= 2 /\ Top.template = frames[2].template
        /\ frames[2].at \in 1..Len(text[Top.template])
    BY <2>1, TopInBlock
  <2>3. \/ Leave(Top.at + 1, Top.scope) \/ Leave(Top.at + 1, frames[2].scope)
        \/ frames' = GoTo(frames, frames[2].at + 1,
                          frames[2].scope \cup {text[Top.template][frames[2].at][2]})
    BY <1>12 DEF EndBlock
  <2>4. frames[2].scope \cup {text[Top.template][frames[2].at][2]} \in SUBSET STRING
    BY <2>1, <2>2, <1>5, <1>6, TokensAreTyped
  <2>5. QED
    BY <2>1, <2>2, <2>3, <2>4, <1>2, <1>3, <1>5, <1>6
<1>13. CASE Else
  <2>1. frames # <<>> /\ ~Finished /\ Token[1] = "else"
    BY <1>13 DEF Else, AtToken
  <2>2. /\ Len(frames) >= 2 /\ frames[2].at \in 1..Len(text[Top.template])
        /\ text[Top.template][frames[2].at][1] \in BlockKinds
    BY <2>1, TopInBlock
  <2> DEFINE i == Matching(text[Top.template], frames[2].at, {"end"})
  <2>3. frames' = GoTo(frames, Top.at + 1, frames[2].scope) \/ frames' = GoTo(frames, i, Top.scope)
    BY <1>13 DEF Else, Advance
  <2>4. i \in Nat
    BY <2>1, <2>2, <1>5, MatchingIsInBlock
  <2> HIDE DEF i
  <2>5. QED
    BY <2>1, <2>2, <2>3, <2>4, <1>2, <1>5, <1>6
<1>14. CASE SkipBlock
  <2>1. frames # <<>> /\ ~Finished /\ Token[1] \in BlockKinds
    BY <1>14 DEF SkipBlock, AtToken, BlockKinds
  <2> DEFINE j == Matching(text[Top.template], Top.at, {"else", "end"})
             kind == IF Token[1] = "if" THEN "if" ELSE "with"
  <2>2. \/ frames' = GoTo(frames, j + 1, Top.scope)
        \/ frames' = <<FrameFor(kind, Top.template, j + 1, Top.scope)>> \o frames
    BY <1>14 DEF SkipBlock, JumpTo
  <2>3. j + 1 \in Nat
    <3>1. text[Top.template][Top.at][1] \in BlockKinds
      BY <2>1 DEF Token
    <3>2. j \in Nat
      BY <2>1, <3>1, <1>5, MatchingIsInBlock
    <3> HIDE DEF j
    <3>3. QED
      BY <3>2
  <2>4. kind \in BlockKinds
    BY DEF BlockKinds
  <2> HIDE DEF j, kind
  <2>5. FrameFor(kind, Top.template, j + 1, Top.scope) \in FrameSet
    BY <2>1, <2>3, <2>4, <1>5 DEF FrameFor, FrameSet
  <2>6. QED
    BY <2>1, <2>2, <2>3, <2>5, <1>2, <1>4, <1>5
<1>15. CASE StartRendering
  <2>1. frames' = frames \/ frames' = <<FrameFor("template", "page", 1, context)>>
    BY <1>15 DEF StartRendering
  <2>2. context \in SUBSET STRING
    BY TemplatesAssumption DEF TemplatesTypeOK
  <2> DEFINE f == FrameFor("template", "page", 1, context)
  <2>3. f \in FrameSet
    BY <2>2, TemplatesAssumption DEF FrameFor, FrameSet
  <2> HIDE DEF f
  <2>4. <<f>> \in Seq(FrameSet)
    BY <2>3
  <2>5. QED
    BY <2>1, <2>4, <1>1 DEF f
<1>16. QED
  BY <1>7, <1>8, <1>9, <1>10, <1>11, <1>12, <1>13, <1>14, <1>15 DEF TemplatesNext

LEMMA TemplatesStayTyped ==
    ASSUME TemplatesTypeOK, Nested, TemplatesNext
    PROVE  TemplatesTypeOK'
<1>1. frames' \in Seq(FrameSet)
  BY FramesStayTyped
<1>2. text' = text /\ context' = context
  BY DEF TemplatesNext, UseName, UseDefault, SetName, EnterBlock, Include, EndTemplate,
         EndBlock, Else, SkipBlock, StartRendering, input
<1>3. mode' \in {"check", "render", "done"} /\ cyclic' \in BOOLEAN
  BY DEF TemplatesTypeOK, TemplatesNext, UseName, UseDefault, SetName, EnterBlock, Include, EndTemplate,
         EndBlock, Else, SkipBlock, StartRendering
<1>4. visited' \subseteq Templates
  <2>1. CASE Include
    <3>1. frames # <<>> /\ ~Finished /\ Token[1] \in {"include", "bare"}
      BY <2>1 DEF Include, AtToken
    <3>2. Token[2] \in Templates
      BY <3>1, TopAtToken
    <3>3. QED
      BY <2>1, <3>2 DEF Include, TemplatesTypeOK
  <2>2. CASE ~Include
    BY <2>2 DEF TemplatesTypeOK, TemplatesNext, UseName, UseDefault, SetName, EnterBlock, EndTemplate,
         EndBlock, Else, SkipBlock, StartRendering
  <2>3. QED
    BY <2>1, <2>2
<1>5. \A q \in reported' \cup missing' : q[2] \in DOMAIN text[q[1]]
  <2>1. CASE UseName
    <3>1. frames # <<>> /\ ~Finished
      BY <2>1 DEF UseName, AtToken
    <3>2. Top.at \in DOMAIN text[Top.template]
      BY <3>1, TopAtToken, TokensAreTyped
    <3> DEFINE q == <<Top.template, Top.at>>
    <3>3. reported' \subseteq reported \cup {q} /\ missing' \subseteq missing \cup {q}
      BY <2>1 DEF UseName
    <3>4. q[1] = Top.template /\ q[2] = Top.at
      OBVIOUS
    <3> HIDE DEF q
    <3>5. QED
      BY <3>2, <3>3, <3>4 DEF TemplatesTypeOK
  <2>2. CASE ~UseName
    <3>1. reported' = reported /\ missing' = missing
      BY <2>2 DEF TemplatesNext, UseDefault, SetName, EnterBlock, Include, EndTemplate,
         EndBlock, Else, SkipBlock, StartRendering
    <3>2. QED
      BY <3>1 DEF TemplatesTypeOK
  <2>3. QED
    BY <2>1, <2>2
<1>6. QED
  BY <1>1, <1>2, <1>3, <1>4, <1>5 DEF TemplatesTypeOK, FrameSet

\* The check keeps a walk for every frame, and the rendering repeats one.
TemplatesInv ==
    /\ TemplatesTypeOK /\ Nested /\ MissingIsReported
    /\ mode = "check" => missing = {} /\ \E W \in SUBSET Walks : \E w \in Seq(Walks) : Checking(W, w)
    /\ mode = "render" => \E W \in SUBSET Walks : \E w \in Seq(Walks) : Rendering(W, w)
    /\ mode = "done" => frames = <<>>

LEMMA TemplatesInitially == TemplatesInit => TemplatesInv
<1> SUFFICES ASSUME TemplatesInit PROVE TemplatesInv
  OBVIOUS
<1> DEFINE f == FrameFor("template", "page", 1, context)
<1>1. /\ text \in [Templates -> Texts] /\ context \in SUBSET STRING /\ context \in Contexts
      /\ mode = "check" /\ frames = <<f>> /\ "page" \in Templates
      /\ reported = {} /\ cyclic = FALSE /\ visited = {"page"} /\ missing = {}
  BY TemplatesAssumption DEF TemplatesInit
<1>2. f \in FrameSet /\ f.kind = "template" /\ f.template = "page" /\ f.at = 1 /\ f.scope = context
  BY <1>1 DEF FrameFor, FrameSet
<1> HIDE DEF f
<1>3. frames \in Seq(FrameSet) /\ Len(frames) = 1 /\ frames[1] = f
  BY <1>1, <1>2
<1>4. TemplatesTypeOK
  BY <1>1, <1>3 DEF TemplatesTypeOK, FrameSet
<1>5. text["page"] \in Texts /\ Level(text["page"], 1) = 0 /\ NamesAt(text["page"], 1) = {}
      /\ Len(text["page"]) \in Nat
  BY <1>1, LevelIsNat, NothingInScope, TokensAreTyped
<1>6. Nested
  BY <1>2, <1>3, <1>5 DEF Nested, Stands
<1>7. WalkOfPage \in Walks /\ WalkOfPage.template = "page" /\ WalkOfPage.path = {"page"}
      /\ WalkOfPage.scope = context
  BY <1>1 DEF WalkOfPage, Walks
<1>8. Checking({WalkOfPage}, <<WalkOfPage>>)
  <2> DEFINE w == <<WalkOfPage>>
  <2>1. w \in Seq({WalkOfPage}) /\ w \in Seq(Walks) /\ Len(w) = 1 /\ w[1] = WalkOfPage
    BY <1>7
  <2> HIDE DEF w
  <2>2. WalkAt(w, 1)
    <3>1. {frames[m].template : m \in 1..Len(frames)} = {"page"}
      BY <1>2, <1>3
    <3>2. QED
      BY <1>2, <1>3, <1>7, <2>1, <3>1 DEF WalkAt
  <2>3. CheckedAt({WalkOfPage}, w, 1)
    BY <1>2, <1>3, <1>5, <1>7, <2>1 DEF CheckedAt
  <2>4. Covers({WalkOfPage})
    BY <1>1, <1>7 DEF Covers
  <2>5. \A n \in 1..Len(frames) : n = 1
    BY <1>3
  <2>6. WalksOfFrames(w)
    BY <1>3, <2>1, <2>2, <2>5 DEF WalksOfFrames
  <2>7. \A a \in {WalkOfPage} : \E n \in 1..Len(frames) : a = w[n]
    BY <1>3, <2>1
  <2>8. Checking({WalkOfPage}, w)
    BY <2>1, <2>3, <2>4, <2>5, <2>6, <2>7 DEF Checking
  <2>9. QED
    BY <2>8 DEF w
<1>9. {WalkOfPage} \in SUBSET Walks /\ <<WalkOfPage>> \in Seq(Walks)
  BY <1>7
<1>10. QED
  BY <1>1, <1>4, <1>6, <1>8, <1>9 DEF TemplatesInv, MissingIsReported

LEMMA ChecksTyped ==
    ASSUME NEW V, NEW v, Checking(V, v)'
    PROVE  V \in SUBSET Walks /\ v \in Seq(Walks)
BY DEF Checking, Covers, WalksOfFrames

LEMMA RenderingsTyped ==
    ASSUME NEW V, NEW v, Rendering(V, v)'
    PROVE  V \in SUBSET Walks /\ v \in Seq(Walks)
BY DEF Rendering, Covers, WalksOfFrames

LEMMA CheckStep ==
    ASSUME TemplatesTypeOK, Nested, mode = "check", NEW W, NEW w, Checking(W, w),
           TemplatesNext, ~StartRendering
    PROVE  Nested' /\ \E V, v : Checking(V, v)'
<1>1. CASE UseName
  BY <1>1, CheckUsesName
<1>2. CASE UseDefault \/ SetName
  BY <1>2, CheckPasses
<1>3. CASE EnterBlock
  BY <1>3, CheckEntersBlock
<1>4. CASE Include
  BY <1>4, CheckIncludes
<1>5. CASE EndTemplate
  BY <1>5, CheckEndsTemplate
<1>6. CASE EndBlock
  BY <1>6, CheckEndsBlock
<1>7. CASE Else
  BY <1>7, CheckBranches
<1>8. ~SkipBlock
  BY DEF SkipBlock
<1>9. QED
  BY <1>1, <1>2, <1>3, <1>4, <1>5, <1>6, <1>7, <1>8 DEF TemplatesNext

LEMMA RenderStep ==
    ASSUME TemplatesTypeOK, Nested, mode = "render", MissingIsReported,
           NEW W, NEW w, Rendering(W, w), TemplatesNext
    PROVE  Nested' /\ MissingIsReported' /\ \E v : Rendering(W, v)'
<1>1. CASE UseName
  BY <1>1, RenderUsesName
<1>2. CASE ~UseName
  <2>1. MissingIsReported'
    <3>1. UNCHANGED <<text, reported, missing>>
      BY <1>2 DEF TemplatesNext, UseDefault, SetName, EnterBlock, Include, EndTemplate,
           EndBlock, Else, SkipBlock, StartRendering, input
    <3>2. QED
      BY <3>1 DEF MissingIsReported, Excused, Optional
  <2>2. Nested' /\ \E v : Rendering(W, v)'
    <3>1. ASSUME UseDefault \/ SetName PROVE Nested' /\ \E v : Rendering(W, v)'
      BY <3>1, RenderPasses
    <3>2. ASSUME EnterBlock PROVE Nested' /\ \E v : Rendering(W, v)'
      BY <3>2, RenderEntersBlock
    <3>3. ASSUME Include PROVE Nested' /\ \E v : Rendering(W, v)'
      BY <3>3, RenderIncludes
    <3>4. ASSUME EndTemplate PROVE Nested' /\ \E v : Rendering(W, v)'
      BY <3>4, RenderEndsTemplate
    <3>5. ASSUME EndBlock PROVE Nested' /\ \E v : Rendering(W, v)'
      BY <3>5, RenderEndsBlock
    <3>6. ASSUME Else PROVE Nested' /\ \E v : Rendering(W, v)'
      BY <3>6, RenderBranches
    <3>7. ASSUME SkipBlock PROVE Nested' /\ \E v : Rendering(W, v)'
      BY <3>7, RenderSkips
    <3>8. ~StartRendering
      BY DEF StartRendering
    <3>9. QED
      BY <1>2, <3>1, <3>2, <3>3, <3>4, <3>5, <3>6, <3>7, <3>8 DEF TemplatesNext
  <2>3. QED
    BY <2>1, <2>2
<1>3. QED
  BY <1>1, <1>2

\* The rendering begins with the walk that the check began with.
LEMMA RenderingStarts ==
    ASSUME TemplatesTypeOK, NEW W, NEW w, Checking(W, w), StartRendering, ~cyclic
    PROVE  Nested' /\ \E v : Rendering(W, v)'
<1> PICK c : c = WalkOfPage
  OBVIOUS
<1> DEFINE f == FrameFor("template", "page", 1, context)
           v == <<c>>
<1>1. /\ frames = <<>> /\ frames' = <<f>>
      /\ UNCHANGED <<text, context, visited, reported, cyclic>>
  BY DEF StartRendering, input
<1>2. Keeps
  BY <1>1 DEF Keeps
<1>3. "page" \in Templates /\ text["page"] \in Texts /\ context \in SUBSET STRING
  BY TemplatesAssumption DEF TemplatesTypeOK
<1>4. f \in FrameSet /\ f.kind = "template" /\ f.template = "page" /\ f.at = 1 /\ f.scope = context
  BY <1>3 DEF FrameFor, FrameSet
<1> HIDE DEF f
<1>5. Len(frames') = 1 /\ frames'[1] = f /\ \A n \in 1..Len(frames') : n = 1
  BY <1>1
<1>6. Level(text["page"], 1) = 0 /\ NamesAt(text["page"], 1) = {} /\ Len(text["page"]) \in Nat
  BY <1>3, LevelIsNat, NothingInScope, TokensAreTyped
<1>7. Nested'
  BY <1>1, <1>4, <1>5, <1>6 DEF Nested, Stands
<1>8. /\ c \in W /\ W \subseteq Walks /\ c.template = "page" /\ c.path = {"page"} /\ c.scope = context
  BY DEF WalkOfPage, Checking, Covers
<1>9. \A a \in W : Complete(W, a)
  <2>1. Len(frames) = 0
    BY <1>1
  <2>2. QED
    BY <2>1 DEF Checking
<1>10. Covers(W)' /\ \A a \in W : Complete(W, a)'
  BY <1>2, <1>9, CoverStays, CompleteStays DEF Checking
<1>11. v \in Seq(W) /\ v \in Seq(Walks) /\ Len(v) = 1 /\ v[1] = c
  BY <1>8
<1> HIDE DEF v
<1>12. WalkOfPage' = c
  BY <1>1 DEF WalkOfPage
<1>13. WalkAt(v, 1)'
  <2>1. {frames'[m].template : m \in 1..Len(frames')} = {"page"}
    BY <1>4, <1>5
  <2>2. QED
    BY <1>4, <1>5, <1>8, <1>11, <1>12, <2>1 DEF WalkAt
<1>14. WalksOfFrames(v)'
  BY <1>5, <1>11, <1>13 DEF WalksOfFrames
<1>15. RenderedAt(v, 1)'
  BY <1>1, <1>4, <1>5, <1>6, <1>8, <1>11 DEF RenderedAt, Provided
<1>16. Rendering(W, v)'
  BY <1>1, <1>5, <1>10, <1>11, <1>14, <1>15 DEF Rendering
<1>17. QED
  BY <1>7, <1>16

LEMMA TemplatesInvIsInductive == TemplatesInv /\ [TemplatesNext]_templateVars => TemplatesInv'
<1> SUFFICES ASSUME TemplatesInv, [TemplatesNext]_templateVars PROVE TemplatesInv'
  OBVIOUS
<1>1. TemplatesTypeOK /\ Nested /\ MissingIsReported
  BY DEF TemplatesInv
<1>2. CASE UNCHANGED templateVars
  <2>1. UNCHANGED <<text, context, mode, frames, reported, cyclic, visited, missing>>
    BY <1>2 DEF templateVars
  <2>2. TemplatesTypeOK'
    BY <1>1, <2>1 DEF TemplatesTypeOK
  <2>3. Nested'
    BY <1>1, <2>1 DEF Nested, Stands, Over
  <2>4. MissingIsReported'
    BY <1>1, <2>1 DEF MissingIsReported, Excused, Optional
  <2>5. ASSUME NEW w, WalksOfFrames(w) PROVE WalksOfFrames(w)'
    <3>1. w \in Seq(Walks) /\ Len(w) = Len(frames) /\ \A n \in 1..Len(frames) : WalkAt(w, n)
      BY <2>5 DEF WalksOfFrames
    <3>2. WalkOfPage' = WalkOfPage
      BY <2>1 DEF WalkOfPage
    <3>3. ASSUME NEW n \in 1..Len(frames) PROVE WalkAt(w, n)'
      <4>1. WalkAt(w, n)
        BY <3>1
      <4>2. QED
        BY <2>1, <3>2, <4>1 DEF WalkAt
    <3>4. QED
      BY <2>1, <3>1, <3>3 DEF WalksOfFrames
  <2>6. ASSUME NEW W, NEW w, Checking(W, w) PROVE Checking(W, w)'
    <3>1. WalksOfFrames(w)'
      BY <2>5, <2>6 DEF Checking
    <3>2. Keeps
      BY <2>1 DEF Keeps
    <3>3. \A n \in 1..Len(frames) : CheckedAt(W, w, n)'
      BY <2>1, <2>6, <3>2, SeenStays DEF Checking, CheckedAt
    <3>4. \A a \in W : Complete(W, a)' \/ \E n \in 1..Len(frames) : a = w[n]
      BY <2>6, <3>2, CompleteStays DEF Checking
    <3>5. Covers(W)'
      BY <2>6, <3>2, CoverStays DEF Checking
    <3>6. QED
      BY <2>1, <2>6, <3>1, <3>3, <3>4, <3>5 DEF Checking
  <2>7. ASSUME NEW W, NEW w, Rendering(W, w) PROVE Rendering(W, w)'
    <3>1. WalksOfFrames(w)'
      BY <2>5, <2>7 DEF Rendering
    <3>2. Keeps
      BY <2>1 DEF Keeps
    <3>3. \A n \in 1..Len(frames) : RenderedAt(w, n)'
      BY <2>1, <2>7 DEF Rendering, RenderedAt, Provided
    <3>4. Covers(W)' /\ \A a \in W : Complete(W, a)'
      BY <2>7, <3>2, CoverStays, CompleteStays DEF Rendering
    <3>5. QED
      BY <2>1, <2>7, <3>1, <3>3, <3>4 DEF Rendering
  <2>8. mode = "check" => missing = {} /\ \E W \in SUBSET Walks : \E w \in Seq(Walks) : Checking(W, w)'
    BY <2>6 DEF TemplatesInv
  <2>9. mode = "render" => \E W \in SUBSET Walks : \E w \in Seq(Walks) : Rendering(W, w)'
    BY <2>7 DEF TemplatesInv
  <2>10. mode = "done" => frames = <<>>
    BY DEF TemplatesInv
  <2>11. QED
    BY <2>1, <2>2, <2>3, <2>4, <2>8, <2>9, <2>10 DEF TemplatesInv
<1>3. ASSUME TemplatesNext PROVE TemplatesInv'
  <2>1. TemplatesTypeOK'
    BY <1>1, <1>3, TemplatesStayTyped
  <2>2. CASE mode = "check" /\ ~StartRendering
    <3>1. PICK W \in SUBSET Walks, w \in Seq(Walks) : Checking(W, w)
      BY <2>2 DEF TemplatesInv
    <3>2. Nested' /\ \E V, v : Checking(V, v)'
      BY <1>1, <1>3, <2>2, <3>1, CheckStep
    <3>3. \E V \in SUBSET Walks : \E v \in Seq(Walks) : Checking(V, v)'
      BY <3>2, ChecksTyped
    <3>4. mode' = "check" /\ missing' = {}
      <4>1. missing = {}
        BY <2>2 DEF TemplatesInv
      <4>2. QED
        BY <1>3, <2>2, <4>1 DEF TemplatesNext, UseName, UseDefault, SetName, EnterBlock, Include, EndTemplate,
           EndBlock, Else, SkipBlock
    <3>5. QED
      BY <2>1, <3>2, <3>3, <3>4 DEF TemplatesInv, MissingIsReported
  <2>3. CASE StartRendering
    <3>1. /\ mode = "check" /\ frames = <<>> /\ missing' = missing
          /\ IF cyclic THEN mode' = "done" /\ frames' = frames ELSE mode' = "render"
          /\ UNCHANGED <<text, reported>>
      BY <2>3 DEF StartRendering, input
    <3>2. missing' = {}
      BY <3>1 DEF TemplatesInv
    <3>3. PICK W \in SUBSET Walks, w \in Seq(Walks) : Checking(W, w)
      BY <3>1 DEF TemplatesInv
    <3>4. CASE cyclic
      <4>1. Nested'
        BY <3>1, <3>4 DEF Nested
      <4>2. QED
        BY <2>1, <3>1, <3>2, <3>4, <4>1 DEF TemplatesInv, MissingIsReported
    <3>5. CASE ~cyclic
      <4>1. Nested' /\ \E v : Rendering(W, v)'
        BY <1>1, <2>3, <3>3, <3>5, RenderingStarts
      <4>2. mode' = "render"
        BY <3>1, <3>5
      <4>3. \E V \in SUBSET Walks : \E v \in Seq(Walks) : Rendering(V, v)'
        BY <4>1, RenderingsTyped
      <4>4. QED
        BY <2>1, <3>2, <4>1, <4>2, <4>3 DEF TemplatesInv, MissingIsReported
    <3>6. QED
      BY <3>4, <3>5
  <2>4. CASE mode = "render"
    <3>1. PICK W \in SUBSET Walks, w \in Seq(Walks) : Rendering(W, w)
      BY <2>4 DEF TemplatesInv
    <3>2. Nested' /\ MissingIsReported' /\ \E v : Rendering(W, v)'
      BY <1>1, <1>3, <2>4, <3>1, RenderStep
    <3>3. \E V \in SUBSET Walks : \E v \in Seq(Walks) : Rendering(V, v)'
      BY <3>2, RenderingsTyped
    <3>4. mode' = "render"
      BY <1>3, <2>4 DEF TemplatesNext, UseName, UseDefault, SetName, EnterBlock, Include, EndTemplate,
           EndBlock, Else, SkipBlock, StartRendering
    <3>5. QED
      BY <2>1, <3>2, <3>3, <3>4 DEF TemplatesInv
  <2>5. CASE mode = "done"
    <3>1. frames = <<>>
      BY <2>5 DEF TemplatesInv
    <3>2. QED
      BY <1>3, <2>5, <3>1 DEF TemplatesNext, UseName, UseDefault, SetName, EnterBlock, Include, EndTemplate,
           EndBlock, Else, SkipBlock, StartRendering, AtToken
  <2>6. mode \in {"check", "render", "done"}
    BY <1>1 DEF TemplatesTypeOK
  <2>7. QED
    BY <2>2, <2>3, <2>4, <2>5, <2>6
<1>4. QED
  BY <1>2, <1>3

LEMMA TemplatesInvSuffices == TemplatesInv => ReportIsComplete
<1> SUFFICES ASSUME TemplatesInv PROVE ReportIsComplete
  OBVIOUS
<1>1. frames \in Seq(FrameSet) /\ Len(frames) \in Nat /\ DOMAIN frames = 1..Len(frames)
  BY DEF TemplatesInv, TemplatesTypeOK, FrameSet
<1>2. MissingIsReported
  BY DEF TemplatesInv
<1>3. RenderedIsVisited
  <2> SUFFICES ASSUME frames # <<>> PROVE Path \subseteq visited
    BY DEF RenderedIsVisited
  <2>1. mode # "done" /\ TemplatesTypeOK /\ Nested
    BY DEF TemplatesInv
  <2>2. CASE mode = "check"
    BY <2>1, <2>2, TopIsChecked DEF TemplatesInv
  <2>3. CASE mode = "render"
    <3>1. PICK W \in SUBSET Walks, w \in Seq(Walks) : Rendering(W, w)
      BY <2>3 DEF TemplatesInv
    <3>2. w[1] \in W /\ w[1].path = Path
      BY <2>1, <3>1, TopIsRendered
    <3>3. QED
      BY <3>1, <3>2 DEF Rendering, Covers
  <2>4. QED
    BY <2>1, <2>2, <2>3 DEF TemplatesTypeOK
<1>4. NoHiddenRecursion
  <2> SUFFICES ASSUME mode = "render", NEW i \in 1..Len(frames), NEW j \in 1..Len(frames),
                      frames[i].kind = "template", frames[j].kind = "template",
                      frames[i].template = frames[j].template, i # j
               PROVE  FALSE
    BY <1>1 DEF NoHiddenRecursion
  <2>1. PICK W \in SUBSET Walks, w \in Seq(Walks) : Rendering(W, w)
    BY DEF TemplatesInv
  <2>2. ASSUME NEW m \in 1..Len(frames), NEW n \in 1..Len(frames), m < n,
               frames[m].kind = "template", frames[m].template = frames[n].template
        PROVE  FALSE
    <3>1. WalkAt(w, m) /\ WalkAt(w, m + 1) /\ m + 1 \in 1..Len(frames) /\ n \in (m + 1)..Len(frames)
      BY <1>1, <2>1, <2>2 DEF Rendering, WalksOfFrames
    <3>2. w[m].template = frames[m].template /\ w[m].template \notin w[m + 1].path
      BY <1>1, <2>2, <3>1 DEF WalkAt
    <3>3. frames[n].template \in w[m + 1].path
      BY <3>1 DEF WalkAt
    <3>4. QED
      BY <2>2, <3>2, <3>3
  <2>3. i < j \/ j < i
    BY <1>1
  <2>4. QED
    BY <2>2, <2>3
<1>5. QED
  BY <1>2, <1>3, <1>4 DEF ReportIsComplete

\* Whatever a rendering finds no value for, the hook has reported, except for names
\* that it excuses (built-in ones, and those with a default in the template): for
\* every set of templates, every nesting of blocks and includes, and every way
\* through them.  A rendering comes to no template that the hook has not walked,
\* and to none within itself.
THEOREM ReportsAreComplete == TemplatesSpec => []ReportIsComplete
<1>1. QED
  BY TemplatesInitially, TemplatesInvIsInductive, TemplatesInvSuffices, PTL DEF TemplatesSpec
=============================================================================
