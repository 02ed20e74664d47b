---------------------------- MODULE LevelsProofs ----------------------------
(***************************************************************************)
(* For levels of any height and any assignment of naturals to their         *)
(* parameters: the constructors and the substitution mean what they say,     *)
(* the order the kernel decides is an order of meanings, and several         *)
(* parameters are instantiated at once only when no argument mentions a      *)
(* parameter substituted after it.                                          *)
(***************************************************************************)
EXTENDS Levels, FiniteSetTheorems, SequenceTheorems, TLAPS

-----------------------------------------------------------------------------
(* Induction on naturals, as a fact about sets.                              *)

\* A set of natural numbers has a least element.
LEMMA LeastOf ==
  ASSUME NEW T \in SUBSET Nat, T # {}
  PROVE  \E n \in T : \A m \in T : n <= m
<1> DEFINE below(n) == {k \in Nat : k < n}
           B == {below(n) : n \in T}
<1>1. \A n \in Nat : below(n) \in FiniteSubsetsOf(Nat)
  <2>1. \A n \in Nat : \A k \in below(n) : k <= n OBVIOUS
  <2> QED BY <2>1, FS_BoundedSetOfNaturals DEF FiniteSubsetsOf
<1>2. B \subseteq FiniteSubsetsOf(Nat) /\ B # {} BY <1>1
<1>3. IsWellFoundedOn(StrictSubsetOrdering(Nat), FiniteSubsetsOf(Nat))
  BY FS_StrictSubsetOrderingWellFounded
<1>4. \E x \in B : \A y \in B : ~ (<<y, x>> \in StrictSubsetOrdering(Nat))
  <2> HIDE DEF B
  <2> QED BY <1>2, <1>3, WFMin
<1>5. PICK n \in T : \A m \in T : ~ (<<below(m), below(n)>> \in StrictSubsetOrdering(Nat))
  BY <1>4
<1>6. ASSUME NEW m \in T PROVE n <= m
  <2>1. SUFFICES ASSUME m < n PROVE FALSE OBVIOUS
  <2>2. below(m) \subseteq below(n) BY <2>1
  <2>3. m \in below(n) /\ m \notin below(m) BY <2>1
  <2>4. below(m) \in SUBSET Nat /\ below(n) \in SUBSET Nat OBVIOUS
  <2> HIDE DEF below
  <2> QED BY <2>2, <2>3, <2>4, <1>5 DEF StrictSubsetOrdering
<1> QED BY <1>6

\* A set of natural numbers with zero and the successors of its members up to
\* a bound holds every number up to the bound.
LEMMA EveryHeight ==
  ASSUME NEW N \in Nat, NEW S \in SUBSET (0..N), 0 \in S,
         \A n \in 1..N : n - 1 \in S => n \in S
  PROVE  S = 0..N
<1> DEFINE T == (0..N) \ S
<1>1. SUFFICES ASSUME T # {} PROVE FALSE OBVIOUS
<1>2. T \in SUBSET Nat OBVIOUS
<1>3. PICK n \in T : \A m \in T : n <= m
  <2> HIDE DEF T
  <2> QED BY <1>1, <1>2, LeastOf
<1>4. n \in 1..N /\ n - 1 \in 0..N /\ ~(n <= n - 1) BY <1>3
<1>5. n - 1 \in S BY <1>3, <1>4
<1> QED BY <1>3, <1>4, <1>5

-----------------------------------------------------------------------------
(* The levels of each height.                                               *)

\* The five variants.
LEMMA LevelShapes ==
  ASSUME NEW below, NEW l \in LevelsOver(below)
  PROVE  \/ /\ l.node = "LevelConst" /\ l.value \in Nat
            /\ l = LevelConst(l.value)
         \/ /\ l.node = "LevelParam" /\ l.name \in ParameterNames
            /\ l = LevelParam(l.name)
         \/ /\ l.node = "LevelSuccessor" /\ l.base \in below
            /\ l = LevelSuccessor(l.base)
         \/ /\ l.node = "LevelMax" /\ l.left \in below /\ l.right \in below
            /\ l = LevelMax(l.left, l.right)
         \/ /\ l.node = "LevelIMax" /\ l.left \in below /\ l.right \in below
            /\ l = LevelIMax(l.left, l.right)
<1>1. CASE l \in [node : {"LevelConst"}, value : Nat] BY <1>1 DEF LevelConst
<1>2. CASE l \in [node : {"LevelParam"}, name : ParameterNames] BY <1>2 DEF LevelParam
<1>3. CASE l \in [node : {"LevelSuccessor"}, base : below] BY <1>3 DEF LevelSuccessor
<1>4. CASE l \in [node : {"LevelMax", "LevelIMax"}, left : below, right : below]
  BY <1>4 DEF LevelMax, LevelIMax
<1> QED BY <1>1, <1>2, <1>3, <1>4 DEF LevelsOver

LEMMA LevelsAreBuilt ==
  ASSUME NEW below
  PROVE  /\ \A n \in Nat : LevelConst(n) \in LevelsOver(below)
         /\ \A u \in ParameterNames : LevelParam(u) \in LevelsOver(below)
         /\ \A l \in below : LevelSuccessor(l) \in LevelsOver(below)
         /\ \A l, r \in below : LevelMax(l, r) \in LevelsOver(below)
         /\ \A l, r \in below : LevelIMax(l, r) \in LevelsOver(below)
BY DEF LevelsOver, LevelConst, LevelParam, LevelSuccessor, LevelMax, LevelIMax

LEMMA LevelsOverMonotone ==
  ASSUME NEW a, NEW b, a \subseteq b
  PROVE  LevelsOver(a) \subseteq LevelsOver(b)
BY DEF LevelsOver

Tiers(f, n) == f = [h \in 0..n |-> LevelsOver(IF h = 0 THEN {} ELSE f[h - 1])]

\* The recursive function of the levels exists, so its equation holds.
LEMMA TiersExist == \E f : Tiers(f, MaxHeight)
<1> DEFINE S == {n \in 0..MaxHeight : \E f : Tiers(f, n)}
<1>1. 0 \in S
  <2> DEFINE g == [h \in 0..0 |-> LevelsOver({})]
  <2>1. Tiers(g, 0) BY DEF Tiers
  <2> QED BY <2>1, MaxHeightIsNat
<1>2. ASSUME NEW n \in 1..MaxHeight, n - 1 \in S PROVE n \in S
  <2>1. PICK f : Tiers(f, n - 1) BY <1>2
  <2> DEFINE g == [h \in 0..n |-> IF h = n THEN LevelsOver(f[n - 1]) ELSE f[h]]
  <2>2. ASSUME NEW h \in 0..n
        PROVE  g[h] = LevelsOver(IF h = 0 THEN {} ELSE g[h - 1])
    <3>1. CASE h = n BY <3>1, MaxHeightIsNat
    <3>2. CASE h # n
      <4>1. h \in 0..(n - 1) /\ (h = 0 \/ (h - 1 \in 0..n /\ h - 1 # n))
        BY <3>2, MaxHeightIsNat
      <4>2. f[h] = LevelsOver(IF h = 0 THEN {} ELSE f[h - 1])
        BY <2>1, <4>1 DEF Tiers
      <4> QED BY <3>2, <4>1, <4>2
    <3> QED BY <3>1, <3>2
  <2>3. Tiers(g, n) BY <2>2 DEF Tiers
  <2> QED BY <2>3
<1>3. S = 0..MaxHeight
  <2> HIDE DEF S
  <2>1. S \in SUBSET (0..MaxHeight) BY DEF S
  <2> QED BY <2>1, <1>1, <1>2, EveryHeight, MaxHeightIsNat
<1> QED BY <1>3, MaxHeightIsNat

LEMMA LevelsToUnfold ==
  \A h \in 0..MaxHeight : LevelsTo[h] = LevelsOver(IF h = 0 THEN {} ELSE LevelsTo[h - 1])
<1>1. LevelsTo = CHOOSE f : Tiers(f, MaxHeight) BY DEF LevelsTo, Tiers
<1>2. Tiers(LevelsTo, MaxHeight) BY <1>1, TiersExist
<1> QED BY <1>2 DEF Tiers

\* A taller tier holds the lower ones.
LEMMA LevelsGrow ==
  \A h, k \in 0..MaxHeight : h <= k => LevelsTo[h] \subseteq LevelsTo[k]
<1> DEFINE Below(h) == IF h = 0 THEN {} ELSE LevelsTo[h - 1]
           S == {h \in 0..MaxHeight : Below(h) \subseteq LevelsTo[h]}
<1>1. 0 \in S BY MaxHeightIsNat
<1>2. ASSUME NEW h \in 1..MaxHeight, h - 1 \in S PROVE h \in S
  <2>1. h \in 0..MaxHeight /\ h - 1 \in 0..MaxHeight /\ h # 0 BY MaxHeightIsNat
  <2>2. LevelsTo[h - 1] = LevelsOver(Below(h - 1)) /\ LevelsTo[h] = LevelsOver(LevelsTo[h - 1])
    BY <2>1, LevelsToUnfold
  <2>3. Below(h - 1) \subseteq LevelsTo[h - 1] BY <1>2
  <2>4. LevelsTo[h - 1] \subseteq LevelsTo[h]
    <3> HIDE DEF Below
    <3> QED BY <2>2, <2>3, LevelsOverMonotone
  <2> QED BY <2>1, <2>4
<1>3. \A h \in 1..MaxHeight : LevelsTo[h - 1] \subseteq LevelsTo[h]
  <2>1. S \in SUBSET (0..MaxHeight) OBVIOUS
  <2>2. S = 0..MaxHeight
    <3> HIDE DEF S
    <3> QED BY <2>1, <1>1, <1>2, EveryHeight, MaxHeightIsNat
  <2>3. \A h \in 1..MaxHeight : h \in S /\ h # 0 BY <2>2, MaxHeightIsNat
  <2> QED BY <2>3
<1>4. SUFFICES ASSUME NEW h \in 0..MaxHeight
      PROVE  \A k \in 0..MaxHeight : h <= k => LevelsTo[h] \subseteq LevelsTo[k]
  OBVIOUS
<1> DEFINE G == {k \in 0..MaxHeight : h <= k => LevelsTo[h] \subseteq LevelsTo[k]}
<1>5. 0 \in G BY MaxHeightIsNat
<1>6. ASSUME NEW k \in 1..MaxHeight, k - 1 \in G PROVE k \in G
  <2>1. CASE h = k BY <2>1, MaxHeightIsNat
  <2>2. CASE h # k
    <3>1. h <= k => h <= k - 1 BY <2>2, MaxHeightIsNat
    <3> QED BY <3>1, <1>3, <1>6, MaxHeightIsNat
  <2> QED BY <2>1, <2>2
<1>7. G = 0..MaxHeight
  <2>1. G \in SUBSET (0..MaxHeight) OBVIOUS
  <2> HIDE DEF G
  <2> QED BY <2>1, <1>5, <1>6, EveryHeight, MaxHeightIsNat
<1> QED BY <1>7

\* What a level is made of.
Parts(l) ==
  IF l.node = "LevelSuccessor" THEN {l.base}
  ELSE IF l.node \in {"LevelMax", "LevelIMax"} THEN {l.left, l.right}
  ELSE {}

LEMMA PartsAreLower ==
  /\ \A l \in LevelsTo[0] : Parts(l) = {}
  /\ \A h \in 1..MaxHeight : \A l \in LevelsTo[h] : Parts(l) \subseteq LevelsTo[h - 1]
<1>1. ASSUME NEW l \in LevelsTo[0] PROVE Parts(l) = {}
  <2>1. l \in LevelsOver({}) BY LevelsToUnfold, MaxHeightIsNat
  <2> QED BY <2>1, LevelShapes DEF Parts
<1>2. ASSUME NEW h \in 1..MaxHeight, NEW l \in LevelsTo[h]
      PROVE  Parts(l) \subseteq LevelsTo[h - 1]
  <2>1. h \in 0..MaxHeight /\ h # 0 BY MaxHeightIsNat
  <2>2. l \in LevelsOver(LevelsTo[h - 1]) BY <2>1, LevelsToUnfold
  <2> QED BY <2>2, LevelShapes DEF Parts
<1> QED BY <1>1, <1>2

LEMMA HeightsAreLevels ==
  \A h \in 0..MaxHeight : LevelsTo[h] \subseteq Levels
BY LevelsGrow, MaxHeightIsNat DEF Levels

\* A level, its variant and its parts.
LEMMA LevelCases ==
  ASSUME NEW l \in Levels
  PROVE  \/ /\ l.node = "LevelConst" /\ l.value \in Nat
            /\ l = LevelConst(l.value)
         \/ /\ l.node = "LevelParam" /\ l.name \in ParameterNames
            /\ l = LevelParam(l.name)
         \/ /\ l.node = "LevelSuccessor" /\ l.base \in Levels
            /\ l = LevelSuccessor(l.base)
         \/ /\ l.node = "LevelMax" /\ l.left \in Levels /\ l.right \in Levels
            /\ l = LevelMax(l.left, l.right)
         \/ /\ l.node = "LevelIMax" /\ l.left \in Levels /\ l.right \in Levels
            /\ l = LevelIMax(l.left, l.right)
<1> DEFINE below == IF MaxHeight = 0 THEN {} ELSE LevelsTo[MaxHeight - 1]
<1>1. l \in LevelsOver(below) BY LevelsToUnfold, MaxHeightIsNat DEF Levels
<1>2. below \subseteq Levels BY HeightsAreLevels, MaxHeightIsNat
<1> HIDE DEF below
<1> QED BY <1>1, <1>2, LevelShapes

-----------------------------------------------------------------------------
(* The meaning of a level.                                                  *)

LEMMA MeaningReadsParts ==
  ASSUME NEW at, NEW f, NEW g, NEW l \in Levels, \A k \in Parts(l) : f[k] = g[k]
  PROVE  Meaning(f, l, at) = Meaning(g, l, at)
<1>1. CASE l.node = "LevelConst" BY <1>1 DEF Meaning
<1>2. CASE l.node = "LevelParam" BY <1>2 DEF Meaning
<1>3. CASE l.node = "LevelSuccessor" BY <1>3 DEF Meaning, Parts
<1>4. CASE l.node = "LevelMax" BY <1>4 DEF Meaning, Parts
<1>5. CASE l.node = "LevelIMax" BY <1>5 DEF Meaning, Parts
<1> QED BY <1>1, <1>2, <1>3, <1>4, <1>5, LevelCases

Meanings(f, at, h) == f = [k \in LevelsTo[h] |-> Meaning(f, k, at)]

LEMMA MeaningsExist ==
  ASSUME NEW at PROVE \E f : Meanings(f, at, MaxHeight)
<1> DEFINE S == {h \in 0..MaxHeight : \E f : Meanings(f, at, h)}
<1>1. ASSUME NEW h \in 0..MaxHeight, NEW f,
             h # 0 => Meanings(f, at, h - 1)
      PROVE  \E g : Meanings(g, at, h)
  <2> DEFINE g == [k \in LevelsTo[h] |-> Meaning(f, k, at)]
  <2>1. ASSUME NEW l \in LevelsTo[h] PROVE g[l] = Meaning(g, l, at)
    <3>1. ASSUME NEW k \in Parts(l) PROVE f[k] = g[k]
      <4>1. h # 0 /\ h \in 1..MaxHeight /\ h - 1 \in 0..MaxHeight /\ h - 1 <= h
        BY PartsAreLower, MaxHeightIsNat
      <4>2. k \in LevelsTo[h - 1] /\ k \in LevelsTo[h]
        BY <4>1, PartsAreLower, LevelsGrow
      <4>3. f[k] = Meaning(f, k, at) BY <1>1, <4>1, <4>2 DEF Meanings
      <4> QED BY <4>2, <4>3
    <3>2. l \in Levels BY HeightsAreLevels
    <3> HIDE DEF g
    <3>3. Meaning(f, l, at) = Meaning(g, l, at) BY <3>1, <3>2, MeaningReadsParts
    <3> QED BY <3>3 DEF g
  <2>2. Meanings(g, at, h) BY <2>1 DEF Meanings
  <2> QED BY <2>2
<1>2. 0 \in S
  <2>1. 0 \in 0..MaxHeight BY MaxHeightIsNat
  <2> QED BY <1>1, <2>1
<1>3. ASSUME NEW h \in 1..MaxHeight, h - 1 \in S PROVE h \in S
  <2>1. h \in 0..MaxHeight BY MaxHeightIsNat
  <2>2. PICK f : Meanings(f, at, h - 1) BY <1>3
  <2> QED BY <1>1, <2>1, <2>2
<1>4. S = 0..MaxHeight
  <2>1. S \in SUBSET (0..MaxHeight) OBVIOUS
  <2> HIDE DEF S
  <2> QED BY <2>1, <1>2, <1>3, EveryHeight, MaxHeightIsNat
<1> QED BY <1>4, MaxHeightIsNat

LEMMA LevelValueUnfold ==
  ASSUME NEW at
  PROVE  \E f : /\ \A l \in Levels : f[l] = Meaning(f, l, at)
                /\ \A l : LevelValue(l, at) = f[l]
<1> DEFINE F == CHOOSE f : Meanings(f, at, MaxHeight)
<1>1. Meanings(F, at, MaxHeight) BY MeaningsExist
<1>2. ASSUME NEW l PROVE LevelValue(l, at) = F[l]
  BY DEF LevelValue, Meanings, Levels
<1> HIDE DEF F
<1> QED BY <1>1, <1>2 DEF Meanings, Levels

\* LevelValue, variant by variant.
LEMMA LevelValueOf ==
  ASSUME NEW at
  PROVE  /\ \A l \in Levels : l.node = "LevelConst" => LevelValue(l, at) = l.value
         /\ \A l \in Levels : l.node = "LevelParam" => LevelValue(l, at) = at[l.name]
         /\ \A l \in Levels : l.node = "LevelSuccessor" =>
              LevelValue(l, at) = LevelValue(l.base, at) + 1
         /\ \A l \in Levels : l.node = "LevelMax" =>
              LevelValue(l, at) = Larger(LevelValue(l.left, at), LevelValue(l.right, at))
         /\ \A l \in Levels : l.node = "LevelIMax" =>
              LevelValue(l, at) =
                IF LevelValue(l.right, at) = 0 THEN 0
                ELSE Larger(LevelValue(l.left, at), LevelValue(l.right, at))
<1>1. PICK f : /\ \A l \in Levels : f[l] = Meaning(f, l, at)
               /\ \A l : LevelValue(l, at) = f[l]
  BY LevelValueUnfold
<1> QED BY <1>1 DEF Meaning

Valuations == [ParameterNames -> Nat]

\* A level means a natural number.
LEMMA LevelValueIsNatural ==
  ASSUME NEW at \in Valuations
  PROVE  \A l \in Levels : LevelValue(l, at) \in Nat
<1> DEFINE S == {h \in 0..MaxHeight : \A l \in LevelsTo[h] : LevelValue(l, at) \in Nat}
<1>1. ASSUME NEW h \in 0..MaxHeight,
             NEW l \in LevelsTo[h], \A k \in Parts(l) : LevelValue(k, at) \in Nat
      PROVE  LevelValue(l, at) \in Nat
  <2>1. l \in Levels BY HeightsAreLevels
  <2>2. CASE l.node = "LevelConst" BY <2>1, <2>2, LevelValueOf, LevelCases
  <2>3. CASE l.node = "LevelParam" BY <2>1, <2>3, LevelValueOf, LevelCases DEF Valuations
  <2>4. CASE l.node = "LevelSuccessor" BY <1>1, <2>1, <2>4, LevelValueOf DEF Parts
  <2>5. CASE l.node \in {"LevelMax", "LevelIMax"}
    <3>1. LevelValue(l.left, at) \in Nat /\ LevelValue(l.right, at) \in Nat
      BY <1>1, <2>5 DEF Parts
    <3> QED BY <2>1, <2>5, <3>1, LevelValueOf DEF Larger
  <2> QED BY <2>1, <2>2, <2>3, <2>4, <2>5, LevelCases
<1>2. 0 \in S
  <2>1. 0 \in 0..MaxHeight BY MaxHeightIsNat
  <2> QED BY <1>1, <2>1, PartsAreLower
<1>3. ASSUME NEW h \in 1..MaxHeight, h - 1 \in S PROVE h \in S
  <2>1. h \in 0..MaxHeight BY MaxHeightIsNat
  <2>2. \A l \in LevelsTo[h] : \A k \in Parts(l) : LevelValue(k, at) \in Nat
    BY <1>3, PartsAreLower
  <2> QED BY <1>1, <2>1, <2>2
<1>4. S = 0..MaxHeight
  <2>1. S \in SUBSET (0..MaxHeight) OBVIOUS
  <2> HIDE DEF S
  <2> QED BY <2>1, <1>2, <1>3, EveryHeight, MaxHeightIsNat
<1> QED BY <1>4, MaxHeightIsNat DEF Levels

\* A constructor adds at most one to the height.
LEMMA MadeLevels ==
  ASSUME NEW h \in 1..MaxHeight, NEW l \in LevelsTo[h - 1], NEW r \in LevelsTo[h - 1]
  PROVE  /\ LevelSuccessor(l) \in LevelsTo[h] /\ MakeSuccessor(l) \in LevelsTo[h]
         /\ LevelMax(l, r) \in LevelsTo[h] /\ MakeMax(l, r) \in LevelsTo[h]
         /\ LevelIMax(l, r) \in LevelsTo[h] /\ MakeIMax(l, r) \in LevelsTo[h]
<1>1. h \in 0..MaxHeight /\ h - 1 \in 0..MaxHeight /\ h # 0 /\ h - 1 <= h
  BY MaxHeightIsNat
<1>2. LevelsTo[h] = LevelsOver(LevelsTo[h - 1]) BY <1>1, LevelsToUnfold
<1>3. l \in LevelsTo[h] /\ r \in LevelsTo[h] BY <1>1, LevelsGrow
<1>4. l \in Levels /\ r \in Levels BY <1>1, HeightsAreLevels
<1>5. \A n \in Nat : LevelConst(n) \in LevelsTo[h] BY <1>2, LevelsAreBuilt
<1>6. /\ LevelSuccessor(l) \in LevelsTo[h]
      /\ LevelMax(l, r) \in LevelsTo[h] /\ LevelIMax(l, r) \in LevelsTo[h]
  BY <1>2, LevelsAreBuilt
<1>7. IsConst(l) => l.value \in Nat BY <1>4, LevelCases DEF IsConst
<1>8. IsConst(r) => r.value \in Nat BY <1>4, LevelCases DEF IsConst
<1>9. MakeSuccessor(l) \in LevelsTo[h] BY <1>5, <1>6, <1>7 DEF MakeSuccessor
<1>10. MakeMax(l, r) \in LevelsTo[h]
  BY <1>3, <1>5, <1>6, <1>7, <1>8 DEF MakeMax, Larger
<1>11. MakeIMax(l, r) \in LevelsTo[h] BY <1>3, <1>6, <1>10 DEF MakeIMax
<1> QED BY <1>6, <1>9, <1>10, <1>11

\* makeLevelSuccessor, makeLevelMax and makeLevelIMax normalise as they build:
\* constants fold, a zero or an equal side of a maximum is dropped, an imax
\* whose right side cannot be 0 becomes a maximum.  Under every assignment of
\* naturals to the parameters what they return means what they were asked for.
THEOREM ConstructorsMeanWhatTheySay ==
  ASSUME NEW h \in 1..MaxHeight, NEW l \in LevelsTo[h - 1], NEW r \in LevelsTo[h - 1],
         NEW at \in Valuations
  PROVE  /\ LevelValue(MakeSuccessor(l), at) = LevelValue(l, at) + 1
         /\ LevelValue(MakeMax(l, r), at) = Larger(LevelValue(l, at), LevelValue(r, at))
         /\ LevelValue(MakeIMax(l, r), at) =
              IF LevelValue(r, at) = 0 THEN 0
              ELSE Larger(LevelValue(l, at), LevelValue(r, at))
<1>1. l \in Levels /\ r \in Levels
  BY HeightsAreLevels, MaxHeightIsNat
<1>2. LevelValue(l, at) \in Nat /\ LevelValue(r, at) \in Nat BY <1>1, LevelValueIsNatural
<1>3. \A k \in LevelsTo[h] : k \in Levels BY HeightsAreLevels, MaxHeightIsNat
<1>4. \A n \in Nat : LevelConst(n) \in Levels /\ LevelValue(LevelConst(n), at) = n
  <2>1. ASSUME NEW n \in Nat PROVE LevelConst(n) \in Levels
    <3>1. Levels = LevelsOver(IF MaxHeight = 0 THEN {} ELSE LevelsTo[MaxHeight - 1])
      BY LevelsToUnfold, MaxHeightIsNat DEF Levels
    <3> QED BY <3>1, LevelsAreBuilt
  <2> QED BY <2>1, LevelValueOf DEF LevelConst
<1>5. IsConst(l) => l.value \in Nat /\ l = LevelConst(l.value) BY <1>1, LevelCases DEF IsConst
<1>6. IsConst(r) => r.value \in Nat /\ r = LevelConst(r.value) BY <1>1, LevelCases DEF IsConst
<1>7. LevelValue(MakeSuccessor(l), at) = LevelValue(l, at) + 1
  <2>1. CASE IsConst(l) BY <2>1, <1>4, <1>5 DEF MakeSuccessor
  <2>2. CASE ~IsConst(l)
    <3>1. LevelSuccessor(l) \in Levels BY <1>3, MadeLevels
    <3>2. LevelValue(LevelSuccessor(l), at) = LevelValue(l, at) + 1
      BY <3>1, LevelValueOf DEF LevelSuccessor
    <3> QED BY <2>2, <3>2 DEF MakeSuccessor
  <2> QED BY <2>1, <2>2
<1>8. LevelValue(MakeMax(l, r), at) = Larger(LevelValue(l, at), LevelValue(r, at))
  <2>1. LevelMax(l, r) \in Levels BY <1>3, MadeLevels
  <2>2. LevelValue(LevelMax(l, r), at) = Larger(LevelValue(l, at), LevelValue(r, at))
    BY <2>1, LevelValueOf DEF LevelMax
  <2>3. LevelValue(LevelConst(0), at) = 0 BY <1>4
  <2>4. CASE IsConst(l) /\ IsConst(r)
    <3>1. MakeMax(l, r) = LevelConst(Larger(l.value, r.value)) BY <2>4 DEF MakeMax
    <3>2. Larger(l.value, r.value) \in Nat BY <2>4, <1>5, <1>6 DEF Larger
    <3> QED BY <2>4, <3>1, <3>2, <1>4, <1>5, <1>6
  <2>5. CASE ~(IsConst(l) /\ IsConst(r))
    <3>1. \/ l = LevelConst(0) /\ MakeMax(l, r) = r
          \/ r = LevelConst(0) /\ MakeMax(l, r) = l
          \/ l = r /\ MakeMax(l, r) = l
          \/ MakeMax(l, r) = LevelMax(l, r)
      BY <2>5 DEF MakeMax
    <3> QED BY <3>1, <2>2, <2>3, <1>2 DEF Larger
  <2> QED BY <2>4, <2>5
<1>9. LevelValue(MakeIMax(l, r), at) = IF LevelValue(r, at) = 0 THEN 0
        ELSE Larger(LevelValue(l, at), LevelValue(r, at))
  <2>1. CASE r = LevelConst(0) BY <2>1, <1>4 DEF MakeIMax
  <2>2. CASE IsConst(r) /\ r # LevelConst(0)
    <3>1. MakeIMax(l, r) = MakeMax(l, r) BY <2>2 DEF MakeIMax, IsConst
    <3>2. LevelValue(r, at) # 0 BY <2>2, <1>4, <1>6
    <3> QED BY <3>1, <3>2, <1>8
  <2>3. CASE r.node = "LevelSuccessor"
    <3>1. MakeIMax(l, r) = MakeMax(l, r) BY <2>3 DEF MakeIMax, LevelConst
    <3>2. r.base \in Levels BY <1>1, <2>3, LevelCases
    <3>3. LevelValue(r, at) # 0 BY <2>3, <3>2, <1>1, LevelValueOf, LevelValueIsNatural
    <3> QED BY <3>1, <3>3, <1>8
  <2>4. CASE ~IsConst(r) /\ r.node # "LevelSuccessor"
    <3>1. MakeIMax(l, r) = LevelIMax(l, r) BY <2>4 DEF MakeIMax, IsConst, LevelConst
    <3>2. LevelIMax(l, r) \in Levels BY <1>3, MadeLevels
    <3> QED BY <3>1, <3>2, LevelValueOf DEF LevelIMax
  <2> QED BY <2>1, <2>2, <2>3, <2>4
<1> QED BY <1>7, <1>8, <1>9

-----------------------------------------------------------------------------
(* The order.                                                               *)

\* The pairs of levels whose heights add up to at most n.
PairsTo(n) ==
  {pair \in Levels \X Levels :
     \E i, j \in 0..MaxHeight : /\ i + j <= n
                                /\ pair[1] \in LevelsTo[i]
                                /\ pair[2] \in LevelsTo[j]}

\* The pairs the rules ask about.
Reads(sub, super) ==
       {<<sub, k>> : k \in Parts(super)} \cup {<<k, super>> : k \in Parts(sub)}
  \cup {<<k, m>> : k \in Parts(sub), m \in Parts(super)}
  \cup {<<k, LevelConst(n)>> : k \in Parts(sub), n \in Nat}
  \cup {<<LevelConst(n), k>> : k \in Parts(super), n \in Nat}

LEMMA RulesReadSmaller ==
  ASSUME NEW f, NEW g, NEW sub \in Levels, NEW super \in Levels,
         \A pair \in Reads(sub, super) : f[pair] = g[pair]
  PROVE  LessOrEqualRules(f, sub, super) = LessOrEqualRules(g, sub, super)
<1>1. super.node = "LevelMax" =>
        /\ f[<<sub, super.left>>] = g[<<sub, super.left>>]
        /\ f[<<sub, super.right>>] = g[<<sub, super.right>>]
  BY DEF Reads, Parts
<1>2. sub.node = "LevelMax" =>
        /\ f[<<sub.left, super>>] = g[<<sub.left, super>>]
        /\ f[<<sub.right, super>>] = g[<<sub.right, super>>]
  BY DEF Reads, Parts
<1>3. sub.node = "LevelSuccessor" /\ super.node = "LevelSuccessor" =>
        f[<<sub.base, super.base>>] = g[<<sub.base, super.base>>]
  BY DEF Reads, Parts
<1>4. sub.node = "LevelSuccessor" /\ IsConst(super) /\ super.value >= 1 =>
        f[<<sub.base, LevelConst(super.value - 1)>>]
          = g[<<sub.base, LevelConst(super.value - 1)>>]
  <2>1. IsConst(super) /\ super.value >= 1 => super.value - 1 \in Nat
    BY LevelCases DEF IsConst
  <2> QED BY <2>1 DEF Reads, Parts
<1>5. super.node = "LevelSuccessor" /\ IsConst(sub) /\ sub # LevelConst(0) =>
        f[<<LevelConst(sub.value - 1), super.base>>]
          = g[<<LevelConst(sub.value - 1), super.base>>]
  <2>1. IsConst(sub) /\ sub # LevelConst(0) => sub.value - 1 \in Nat
    BY LevelCases DEF IsConst
  <2> QED BY <2>1 DEF Reads, Parts
<1>6. super.node = "LevelSuccessor" => f[<<sub, super.base>>] = g[<<sub, super.base>>]
  BY DEF Reads, Parts
<1> QED BY <1>1, <1>2, <1>3, <1>4, <1>5, <1>6 DEF LessOrEqualRules

\* A part of a level stands one tier below it.
LEMMA PartsStandBelow ==
  ASSUME NEW h \in 0..MaxHeight, NEW l \in LevelsTo[h], NEW k \in Parts(l)
  PROVE  h \in 1..MaxHeight /\ h - 1 \in 0..MaxHeight /\ k \in LevelsTo[h - 1]
<1>1. h # 0 BY PartsAreLower
<1> QED BY <1>1, PartsAreLower, MaxHeightIsNat

LEMMA ConstsAreLow ==
  \A h \in 0..MaxHeight : \A n \in Nat : LevelConst(n) \in LevelsTo[h]
BY LevelsToUnfold, LevelsAreBuilt

\* A pair whose heights add up to n is asked about through pairs of less.
LEMMA ReadsAreSmaller ==
  ASSUME NEW n \in Nat, NEW pair \in PairsTo(n)
  PROVE  /\ pair[1] \in Levels /\ pair[2] \in Levels /\ pair = <<pair[1], pair[2]>>
         /\ Reads(pair[1], pair[2]) # {} => n # 0
         /\ Reads(pair[1], pair[2]) \subseteq PairsTo(n - 1)
<1> DEFINE sub == pair[1]
           super == pair[2]
<1>1. PICK i \in 0..MaxHeight, j \in 0..MaxHeight :
        i + j <= n /\ sub \in LevelsTo[i] /\ super \in LevelsTo[j]
  BY DEF PairsTo
<1>2. sub \in Levels /\ super \in Levels /\ pair = <<sub, super>>
  BY DEF PairsTo
<1>3. \A a, b \in 0..MaxHeight : \A x \in LevelsTo[a], y \in LevelsTo[b] :
        a + b <= n - 1 => <<x, y>> \in PairsTo(n - 1)
  BY HeightsAreLevels DEF PairsTo
<1> HIDE DEF sub, super
<1>4. ASSUME NEW k \in Parts(super), NEW x, x = sub \/ x \in {LevelConst(c) : c \in Nat}
      PROVE  n # 0 /\ <<x, k>> \in PairsTo(n - 1)
  <2>1. j \in 1..MaxHeight /\ j - 1 \in 0..MaxHeight /\ k \in LevelsTo[j - 1]
    BY <1>1, PartsStandBelow
  <2>2. x \in LevelsTo[i] BY <1>1, <1>4, ConstsAreLow
  <2>3. n # 0 /\ i + (j - 1) <= n - 1 BY <1>1, <2>1, MaxHeightIsNat
  <2> QED BY <1>3, <2>1, <2>2, <2>3
<1>5. ASSUME NEW k \in Parts(sub), NEW x, x = super \/ x \in {LevelConst(c) : c \in Nat}
      PROVE  n # 0 /\ <<k, x>> \in PairsTo(n - 1)
  <2>1. i \in 1..MaxHeight /\ i - 1 \in 0..MaxHeight /\ k \in LevelsTo[i - 1]
    BY <1>1, PartsStandBelow
  <2>2. x \in LevelsTo[j] BY <1>1, <1>5, ConstsAreLow
  <2>3. n # 0 /\ (i - 1) + j <= n - 1 BY <1>1, <2>1, MaxHeightIsNat
  <2> QED BY <1>3, <2>1, <2>2, <2>3
<1>6. ASSUME NEW k \in Parts(sub), NEW m \in Parts(super)
      PROVE  n # 0 /\ <<k, m>> \in PairsTo(n - 1)
  <2>1. i \in 1..MaxHeight /\ i - 1 \in 0..MaxHeight /\ k \in LevelsTo[i - 1]
    BY <1>1, PartsStandBelow
  <2>2. j \in 1..MaxHeight /\ j - 1 \in 0..MaxHeight /\ m \in LevelsTo[j - 1]
    BY <1>1, PartsStandBelow
  <2>3. n # 0 /\ (i - 1) + (j - 1) <= n - 1 BY <1>1, <2>1, <2>2, MaxHeightIsNat
  <2> QED BY <1>3, <2>1, <2>2, <2>3
<1>7. \A p \in Reads(sub, super) : n # 0 /\ p \in PairsTo(n - 1)
  BY <1>4, <1>5, <1>6 DEF Reads
<1> QED BY <1>2, <1>7 DEF sub, super

Answers(f, n) == f = [pair \in PairsTo(n) |-> LessOrEqualRules(f, pair[1], pair[2])]

LEMMA PairsGrow ==
  ASSUME NEW n \in Nat PROVE PairsTo(n - 1) \subseteq PairsTo(n)
<1>1. \A i, j \in 0..MaxHeight : i + j <= n - 1 => i + j <= n BY MaxHeightIsNat
<1> QED BY <1>1 DEF PairsTo

LEMMA AllPairs ==
  /\ 2 * MaxHeight \in Nat
  /\ PairsTo(2 * MaxHeight) = Levels \X Levels
BY MaxHeightIsNat DEF PairsTo, Levels

LEMMA AnswersExist == \E f : Answers(f, 2 * MaxHeight)
<1> DEFINE N == 2 * MaxHeight
           S == {n \in 0..N : \E f : Answers(f, n)}
<1>0. N \in Nat BY AllPairs
<1>1. ASSUME NEW n \in 0..N, NEW f, n # 0 => Answers(f, n - 1)
      PROVE  \E g : Answers(g, n)
  <2> DEFINE g == [pair \in PairsTo(n) |-> LessOrEqualRules(f, pair[1], pair[2])]
  <2>0. n \in Nat BY <1>0
  <2>1. ASSUME NEW pair \in PairsTo(n) PROVE g[pair] = LessOrEqualRules(g, pair[1], pair[2])
    <3>1. ASSUME NEW p \in Reads(pair[1], pair[2]) PROVE f[p] = g[p]
      <4>1. n # 0 /\ p \in PairsTo(n - 1) /\ p \in PairsTo(n)
        BY <2>0, ReadsAreSmaller, PairsGrow
      <4>2. f[p] = LessOrEqualRules(f, p[1], p[2]) BY <1>1, <4>1 DEF Answers
      <4> QED BY <4>1, <4>2
    <3>2. pair[1] \in Levels /\ pair[2] \in Levels BY DEF PairsTo
    <3> HIDE DEF g
    <3>3. LessOrEqualRules(f, pair[1], pair[2]) = LessOrEqualRules(g, pair[1], pair[2])
      BY <3>1, <3>2, RulesReadSmaller
    <3> QED BY <3>3 DEF g
  <2>2. Answers(g, n) BY <2>1 DEF Answers
  <2> QED BY <2>2
<1>2. 0 \in S
  <2>1. 0 \in 0..N BY <1>0
  <2> QED BY <1>1, <2>1
<1>3. ASSUME NEW n \in 1..N, n - 1 \in S PROVE n \in S
  <2>1. n \in 0..N BY <1>0
  <2>2. PICK f : Answers(f, n - 1) BY <1>3
  <2> QED BY <1>1, <2>1, <2>2
<1>4. S = 0..N
  <2>1. S \in SUBSET (0..N) OBVIOUS
  <2> HIDE DEF S, N
  <2> QED BY <2>1, <1>0, <1>2, <1>3, EveryHeight
<1> QED BY <1>0, <1>4

LEMMA LevelLessOrEqualUnfold ==
  \E f : /\ \A pair \in Levels \X Levels : f[pair] = LessOrEqualRules(f, pair[1], pair[2])
         /\ \A l, r : LevelLessOrEqual(l, r) = f[<<l, r>>]
<1> DEFINE F == CHOOSE f : Answers(f, 2 * MaxHeight)
<1>1. Answers(F, 2 * MaxHeight) BY AnswersExist
<1>2. F = CHOOSE f : f = [pair \in Levels \X Levels |-> LessOrEqualRules(f, pair[1], pair[2])]
  BY AllPairs DEF Answers
<1>3. ASSUME NEW l, NEW r PROVE LevelLessOrEqual(l, r) = F[<<l, r>>]
  <2> HIDE DEF F
  <2> QED BY <1>2 DEF LevelLessOrEqual
<1>4. \A pair \in Levels \X Levels : F[pair] = LessOrEqualRules(F, pair[1], pair[2])
  <2> HIDE DEF F
  <2> QED BY <1>1, AllPairs DEF Answers
<1> HIDE DEF F
<1> QED BY <1>3, <1>4

LEMMA LevelConstMeans ==
  ASSUME NEW n \in Nat, NEW at
  PROVE  LevelConst(n) \in Levels /\ LevelValue(LevelConst(n), at) = n
<1>1. LevelConst(n) \in Levels BY ConstsAreLow, MaxHeightIsNat DEF Levels
<1> QED BY <1>1, LevelValueOf DEF LevelConst

\* levelLessOrEqual lets a data type contain a field, and a sort stand for a
\* larger one.  Whatever order its rules were tried in, and whatever the two
\* levels are, a yes means that the first is at most the second under every
\* assignment of naturals to the universe parameters.
THEOREM LessOrEqualIsSound ==
  ASSUME NEW at \in Valuations
  PROVE  \A sub, super \in Levels :
           LevelLessOrEqual(sub, super) => LevelValue(sub, at) <= LevelValue(super, at)
<1> DEFINE V(l) == LevelValue(l, at)
           N == 2 * MaxHeight
<1>1. PICK f : /\ \A pair \in Levels \X Levels : f[pair] = LessOrEqualRules(f, pair[1], pair[2])
               /\ \A l, r : LevelLessOrEqual(l, r) = f[<<l, r>>]
  BY LevelLessOrEqualUnfold
<1> DEFINE S == {n \in 0..N : \A pair \in PairsTo(n) : f[pair] => V(pair[1]) <= V(pair[2])}
<1>2. \A l \in Levels : V(l) \in Nat BY LevelValueIsNatural
<1>3. ASSUME NEW sub \in Levels, NEW super \in Levels, f[<<sub, super>>],
             \A p \in Reads(sub, super) : f[p] => V(p[1]) <= V(p[2])
      PROVE  V(sub) <= V(super)
  <2>1. LessOrEqualRules(f, sub, super) BY <1>1, <1>3
  <2>2. V(sub) \in Nat /\ V(super) \in Nat BY <1>2
  <2>3. CASE sub = super BY <2>2, <2>3
  <2>4. CASE IsConst(sub)
    <3>1. sub.value \in Nat /\ sub = LevelConst(sub.value) /\ V(sub) = sub.value
      BY <2>4, LevelCases, LevelValueOf DEF IsConst
    <3>2. CASE IsConst(super)
      <4>1. V(super) = super.value BY <3>2, LevelValueOf DEF IsConst
      <4>2. sub = super \/ sub.value <= super.value
        BY <2>1, <2>4, <3>2 DEF LessOrEqualRules
      <4> QED BY <3>1, <4>1, <4>2, <2>3
    <3>3. CASE sub = LevelConst(0) BY <3>3, <2>2, LevelConstMeans
    <3>4. CASE super.node = "LevelMax" /\ sub # LevelConst(0)
      <4>1. super.left \in Levels /\ super.right \in Levels BY <3>4, LevelCases
      <4>2. f[<<sub, super.left>>] \/ f[<<sub, super.right>>] \/ sub = super
        BY <2>1, <3>4, <2>4 DEF LessOrEqualRules, IsConst
      <4>3. V(super) = Larger(V(super.left), V(super.right)) BY <3>4, LevelValueOf
      <4>4. V(super.left) \in Nat /\ V(super.right) \in Nat BY <1>2, <4>1
      <4>5. /\ <<sub, super.left>> \in Reads(sub, super)
            /\ <<sub, super.right>> \in Reads(sub, super)
        BY <3>4 DEF Reads, Parts
      <4>6. V(sub) <= V(super.left) \/ V(sub) <= V(super.right) \/ sub = super
        BY <4>2, <4>5, <1>3
      <4> HIDE DEF V
      <4> QED BY <4>3, <4>4, <4>6, <2>2, <2>3 DEF Larger
    <3>5. CASE super.node = "LevelSuccessor" /\ sub # LevelConst(0)
      <4>1. super.base \in Levels BY <3>5, LevelCases
      <4>2. sub.value - 1 \in Nat BY <3>1, <3>5
      <4>3. f[<<LevelConst(sub.value - 1), super.base>>]
        BY <2>1, <3>5, <2>4 DEF LessOrEqualRules, IsConst
      <4>4. <<LevelConst(sub.value - 1), super.base>> \in Reads(sub, super)
        BY <3>5, <4>2 DEF Reads, Parts
      <4>5. V(LevelConst(sub.value - 1)) <= V(super.base) BY <4>3, <4>4, <1>3
      <4>6. V(LevelConst(sub.value - 1)) = sub.value - 1 BY <4>2, LevelConstMeans
      <4>7. V(super) = V(super.base) + 1 BY <3>5, LevelValueOf
      <4>8. V(super.base) \in Nat BY <4>1, <1>2
      <4> HIDE DEF V
      <4> QED BY <4>5, <4>6, <4>7, <4>8, <3>1
    <3>6. CASE super.node \notin {"LevelConst", "LevelMax", "LevelSuccessor"} /\ sub # LevelConst(0)
      BY <2>1, <2>3, <3>6, <2>4 DEF LessOrEqualRules, IsConst
    <3> QED BY <3>2, <3>3, <3>4, <3>5, <3>6 DEF IsConst
  <2>5. CASE ~IsConst(sub) /\ sub # super
    <3>0. sub # LevelConst(0) BY <2>5 DEF IsConst, LevelConst
    <3>1. CASE super.node = "LevelMax"
      <4>1. super.left \in Levels /\ super.right \in Levels BY <3>1, LevelCases
      <4>2. f[<<sub, super.left>>] \/ f[<<sub, super.right>>]
        BY <2>1, <3>1, <3>0, <2>5 DEF LessOrEqualRules
      <4>3. V(super) = Larger(V(super.left), V(super.right)) BY <3>1, LevelValueOf
      <4>4. V(super.left) \in Nat /\ V(super.right) \in Nat BY <1>2, <4>1
      <4>5. /\ <<sub, super.left>> \in Reads(sub, super)
            /\ <<sub, super.right>> \in Reads(sub, super)
        BY <3>1 DEF Reads, Parts
      <4>6. V(sub) <= V(super.left) \/ V(sub) <= V(super.right)
        BY <4>2, <4>5, <1>3
      <4> HIDE DEF V
      <4> QED BY <4>3, <4>4, <4>6, <2>2 DEF Larger
    <3>2. CASE super.node # "LevelMax" /\ sub.node = "LevelMax"
      <4>1. sub.left \in Levels /\ sub.right \in Levels BY <3>2, LevelCases
      <4>2. f[<<sub.left, super>>] /\ f[<<sub.right, super>>]
        BY <2>1, <3>2, <3>0, <2>5 DEF LessOrEqualRules
      <4>3. V(sub) = Larger(V(sub.left), V(sub.right)) BY <3>2, LevelValueOf
      <4>4. V(sub.left) \in Nat /\ V(sub.right) \in Nat BY <1>2, <4>1
      <4>5. /\ <<sub.left, super>> \in Reads(sub, super)
            /\ <<sub.right, super>> \in Reads(sub, super)
        BY <3>2 DEF Reads, Parts
      <4>6. V(sub.left) <= V(super) /\ V(sub.right) <= V(super)
        BY <4>2, <4>5, <1>3
      <4> HIDE DEF V
      <4> QED BY <4>3, <4>4, <4>6, <2>2 DEF Larger
    <3>3. CASE super.node # "LevelMax" /\ sub.node = "LevelSuccessor"
      <4>1. sub.base \in Levels /\ V(sub) = V(sub.base) + 1 /\ V(sub.base) \in Nat
        BY <3>3, LevelCases, LevelValueOf, <1>2
      <4>2. CASE super.node = "LevelSuccessor"
        <5>1. super.base \in Levels /\ V(super) = V(super.base) + 1 /\ V(super.base) \in Nat
          BY <4>2, LevelCases, LevelValueOf, <1>2
        <5>2. f[<<sub.base, super.base>>]
          BY <2>1, <3>3, <3>0, <2>5, <4>2 DEF LessOrEqualRules
        <5>3. <<sub.base, super.base>> \in Reads(sub, super)
          BY <3>3, <4>2 DEF Reads, Parts
        <5>4. V(sub.base) <= V(super.base) BY <5>2, <5>3, <1>3
        <5> HIDE DEF V
        <5> QED BY <4>1, <5>1, <5>4
      <4>3. CASE IsConst(super)
        <5>1. super.value \in Nat /\ V(super) = super.value
          BY <4>3, LevelCases, LevelValueOf DEF IsConst
        <5>2. super.value >= 1 /\ f[<<sub.base, LevelConst(super.value - 1)>>]
          BY <2>1, <3>3, <3>0, <2>5, <4>3, <5>1 DEF LessOrEqualRules, IsConst
        <5>3. super.value - 1 \in Nat BY <5>1, <5>2
        <5>4. <<sub.base, LevelConst(super.value - 1)>> \in Reads(sub, super)
          BY <3>3, <5>3 DEF Reads, Parts
        <5>5. V(sub.base) <= V(LevelConst(super.value - 1)) BY <5>2, <5>4, <1>3
        <5>6. V(LevelConst(super.value - 1)) = super.value - 1 BY <5>3, LevelConstMeans
        <5> HIDE DEF V
        <5> QED BY <4>1, <5>1, <5>5, <5>6
      <4>4. CASE super.node # "LevelSuccessor" /\ ~IsConst(super)
        BY <2>1, <3>3, <3>0, <2>5, <4>4 DEF LessOrEqualRules
      <4> QED BY <4>2, <4>3, <4>4
    <3>4. CASE super.node # "LevelMax" /\ sub.node \notin {"LevelMax", "LevelSuccessor"}
      <4>1. super.node = "LevelSuccessor" /\ f[<<sub, super.base>>]
        BY <2>1, <3>4, <3>0, <2>5 DEF LessOrEqualRules
      <4>2. super.base \in Levels /\ V(super) = V(super.base) + 1 /\ V(super.base) \in Nat
        BY <4>1, LevelCases, LevelValueOf, <1>2
      <4>3. <<sub, super.base>> \in Reads(sub, super) BY <4>1 DEF Reads, Parts
      <4>4. V(sub) <= V(super.base) BY <4>1, <4>3, <1>3
      <4> HIDE DEF V
      <4> QED BY <4>2, <4>4, <2>2
    <3> QED BY <3>1, <3>2, <3>3, <3>4
  <2> QED BY <2>3, <2>4, <2>5
<1>4. \A n \in Nat : \A pair \in PairsTo(n) :
        /\ pair[1] \in Levels /\ pair[2] \in Levels /\ pair = <<pair[1], pair[2]>>
        /\ Reads(pair[1], pair[2]) # {} => n # 0
        /\ Reads(pair[1], pair[2]) \subseteq PairsTo(n - 1)
  BY ReadsAreSmaller
<1>5. N \in Nat BY AllPairs
<1> HIDE DEF V
<1>6. 0 \in S
  <2>1. 0 \in 0..N BY <1>5
  <2> QED BY <1>3, <1>4, <2>1
<1>7. ASSUME NEW n \in 1..N, n - 1 \in S PROVE n \in S
  <2>1. n \in 0..N /\ n \in Nat BY <1>5
  <2>2. \A pair \in PairsTo(n) : \A p \in Reads(pair[1], pair[2]) : f[p] => V(p[1]) <= V(p[2])
    BY <1>4, <1>7, <2>1
  <2> QED BY <1>3, <1>4, <2>1, <2>2
<1>8. S = 0..N
  <2>1. S \in SUBSET (0..N) OBVIOUS
  <2> HIDE DEF S, N
  <2> QED BY <2>1, <1>5, <1>6, <1>7, EveryHeight
<1>9. \A pair \in Levels \X Levels : f[pair] => V(pair[1]) <= V(pair[2])
  BY <1>5, <1>8, AllPairs
<1>10. ASSUME NEW sub \in Levels, NEW super \in Levels, LevelLessOrEqual(sub, super)
       PROVE  LevelValue(sub, at) <= LevelValue(super, at)
  <2>1. f[<<sub, super>>] BY <1>1, <1>10
  <2>2. V(sub) <= V(super) BY <2>1, <1>9
  <2> QED BY <2>2 DEF V
<1> QED BY <1>10

-----------------------------------------------------------------------------
(* The substitution of a parameter.                                         *)

Results(f, u, by, h) == f = [k \in LevelsTo[h] |-> SubstituteInParts(f, k, u, by)]

LEMMA SubstitutionReadsParts ==
  ASSUME NEW u, NEW by, NEW f, NEW g, NEW l \in Levels, \A k \in Parts(l) : f[k] = g[k]
  PROVE  SubstituteInParts(f, l, u, by) = SubstituteInParts(g, l, u, by)
<1>1. CASE l.node = "LevelConst" BY <1>1 DEF SubstituteInParts
<1>2. CASE l.node = "LevelParam" BY <1>2 DEF SubstituteInParts
<1>3. CASE l.node = "LevelSuccessor" BY <1>3 DEF SubstituteInParts, Parts
<1>4. CASE l.node = "LevelMax" BY <1>4 DEF SubstituteInParts, Parts
<1>5. CASE l.node = "LevelIMax" BY <1>5 DEF SubstituteInParts, Parts
<1> QED BY <1>1, <1>2, <1>3, <1>4, <1>5, LevelCases

LEMMA ResultsExist ==
  ASSUME NEW u, NEW by PROVE \E f : Results(f, u, by, MaxHeight)
<1> DEFINE S == {h \in 0..MaxHeight : \E f : Results(f, u, by, h)}
<1>1. ASSUME NEW h \in 0..MaxHeight, NEW f,
             h # 0 => Results(f, u, by, h - 1)
      PROVE  \E g : Results(g, u, by, h)
  <2> DEFINE g == [k \in LevelsTo[h] |-> SubstituteInParts(f, k, u, by)]
  <2>1. ASSUME NEW l \in LevelsTo[h] PROVE g[l] = SubstituteInParts(g, l, u, by)
    <3>1. ASSUME NEW k \in Parts(l) PROVE f[k] = g[k]
      <4>0. h \in 1..MaxHeight /\ k \in LevelsTo[h - 1] BY PartsStandBelow
      <4>1. h # 0 /\ h - 1 \in 0..MaxHeight /\ h - 1 <= h /\ k \in LevelsTo[h - 1]
        BY <4>0, MaxHeightIsNat
      <4>2. k \in LevelsTo[h] BY <4>1, LevelsGrow
      <4>3. f[k] = SubstituteInParts(f, k, u, by) BY <1>1, <4>1 DEF Results
      <4> QED BY <4>2, <4>3
    <3>2. l \in Levels BY HeightsAreLevels
    <3> HIDE DEF g
    <3>3. SubstituteInParts(f, l, u, by) = SubstituteInParts(g, l, u, by)
      BY <3>1, <3>2, SubstitutionReadsParts
    <3> QED BY <3>3 DEF g
  <2>2. Results(g, u, by, h) BY <2>1 DEF Results
  <2> QED BY <2>2
<1>2. 0 \in S
  <2>1. 0 \in 0..MaxHeight BY MaxHeightIsNat
  <2> QED BY <1>1, <2>1
<1>3. ASSUME NEW h \in 1..MaxHeight, h - 1 \in S PROVE h \in S
  <2>1. h \in 0..MaxHeight BY MaxHeightIsNat
  <2>2. PICK f : Results(f, u, by, h - 1) BY <1>3
  <2> QED BY <1>1, <2>1, <2>2
<1>4. S = 0..MaxHeight
  <2>1. S \in SUBSET (0..MaxHeight) OBVIOUS
  <2> HIDE DEF S
  <2> QED BY <2>1, <1>2, <1>3, EveryHeight, MaxHeightIsNat
<1> QED BY <1>4, MaxHeightIsNat

\* SubstituteLevel, variant by variant.
LEMMA SubstituteLevelOf ==
  ASSUME NEW u, NEW by
  PROVE  /\ \A l \in Levels : l.node = "LevelConst" => SubstituteLevel(l, u, by) = l
         /\ \A l \in Levels : l.node = "LevelParam" =>
              SubstituteLevel(l, u, by) = IF l.name = u THEN by ELSE l
         /\ \A l \in Levels : l.node = "LevelSuccessor" =>
              SubstituteLevel(l, u, by) = MakeSuccessor(SubstituteLevel(l.base, u, by))
         /\ \A l \in Levels : l.node = "LevelMax" =>
              SubstituteLevel(l, u, by) =
                MakeMax(SubstituteLevel(l.left, u, by), SubstituteLevel(l.right, u, by))
         /\ \A l \in Levels : l.node = "LevelIMax" =>
              SubstituteLevel(l, u, by) =
                MakeIMax(SubstituteLevel(l.left, u, by), SubstituteLevel(l.right, u, by))
<1> DEFINE F == CHOOSE f : Results(f, u, by, MaxHeight)
<1>1. Results(F, u, by, MaxHeight) BY ResultsExist
<1>2. ASSUME NEW l PROVE SubstituteLevel(l, u, by) = F[l]
  BY DEF SubstituteLevel, Results, Levels
<1> HIDE DEF F
<1>3. \A l \in Levels : F[l] = SubstituteInParts(F, l, u, by)
  BY <1>1 DEF Results, Levels
<1> QED BY <1>2, <1>3 DEF SubstituteInParts

LEMMA ParamsAreLow ==
  \A h \in 0..MaxHeight : \A u \in ParameterNames : LevelParam(u) \in LevelsTo[h]
BY LevelsToUnfold, LevelsAreBuilt

\* The result is no taller than the two heights together.
LEMMA SubstitutedHeight ==
  ASSUME NEW j \in 0..MaxHeight, NEW by \in LevelsTo[j], NEW u
  PROVE  \A h \in 0..MaxHeight : h + j <= MaxHeight =>
           \A l \in LevelsTo[h] : SubstituteLevel(l, u, by) \in LevelsTo[h + j]
<1> DEFINE S == {h \in 0..MaxHeight : h + j <= MaxHeight =>
                   \A l \in LevelsTo[h] : SubstituteLevel(l, u, by) \in LevelsTo[h + j]}
<1>1. ASSUME NEW h \in 0..MaxHeight, h + j <= MaxHeight, NEW l \in LevelsTo[h],
             h # 0 => \A k \in LevelsTo[h - 1] :
                        SubstituteLevel(k, u, by) \in LevelsTo[(h + j) - 1]
      PROVE  SubstituteLevel(l, u, by) \in LevelsTo[h + j]
  <2>1. l \in Levels /\ h + j \in 0..MaxHeight /\ j <= h + j
    BY <1>1, HeightsAreLevels, MaxHeightIsNat
  <2>2. CASE l.node = "LevelConst" BY <2>1, <2>2, SubstituteLevelOf, LevelCases, ConstsAreLow
  <2>3. CASE l.node = "LevelParam"
    <3>1. l \in LevelsTo[h + j] BY <2>1, <2>3, LevelCases, ParamsAreLow
    <3>2. by \in LevelsTo[h + j] BY <2>1, LevelsGrow
    <3> QED BY <2>1, <2>3, <3>1, <3>2, SubstituteLevelOf
  <2>4. CASE l.node = "LevelSuccessor"
    <3>1. l.base \in Parts(l) BY <2>4 DEF Parts
    <3>2. h # 0 /\ l.base \in LevelsTo[h - 1] BY <3>1, PartsStandBelow
    <3>3. h + j \in 1..MaxHeight BY <1>1, <3>2, MaxHeightIsNat
    <3>4. SubstituteLevel(l.base, u, by) \in LevelsTo[(h + j) - 1] BY <1>1, <3>2
    <3> QED BY <2>1, <2>4, <3>3, <3>4, MadeLevels, SubstituteLevelOf
  <2>5. CASE l.node \in {"LevelMax", "LevelIMax"}
    <3>1. l.left \in Parts(l) /\ l.right \in Parts(l) BY <2>5 DEF Parts
    <3>2. h # 0 /\ l.left \in LevelsTo[h - 1] /\ l.right \in LevelsTo[h - 1]
      BY <3>1, PartsStandBelow
    <3>3. h + j \in 1..MaxHeight BY <1>1, <3>2, MaxHeightIsNat
    <3>4. /\ SubstituteLevel(l.left, u, by) \in LevelsTo[(h + j) - 1]
          /\ SubstituteLevel(l.right, u, by) \in LevelsTo[(h + j) - 1]
      BY <1>1, <3>2
    <3> QED BY <2>1, <2>5, <3>3, <3>4, MadeLevels, SubstituteLevelOf
  <2> QED BY <2>1, <2>2, <2>3, <2>4, <2>5, LevelCases
<1>2. 0 \in S
  <2>1. 0 \in 0..MaxHeight BY MaxHeightIsNat
  <2> QED BY <1>1, <2>1
<1>3. ASSUME NEW h \in 1..MaxHeight, h - 1 \in S PROVE h \in S
  <2>1. h \in 0..MaxHeight BY MaxHeightIsNat
  <2>2. h + j <= MaxHeight => (h - 1) + j <= MaxHeight /\ (h - 1) + j = (h + j) - 1
    BY MaxHeightIsNat
  <2>3. h + j <= MaxHeight => \A k \in LevelsTo[h - 1] :
          SubstituteLevel(k, u, by) \in LevelsTo[(h + j) - 1]
    BY <1>3, <2>2
  <2> QED BY <1>1, <2>1, <2>3
<1>4. S = 0..MaxHeight
  <2>1. S \in SUBSET (0..MaxHeight) OBVIOUS
  <2> HIDE DEF S
  <2> QED BY <2>1, <1>2, <1>3, EveryHeight, MaxHeightIsNat
<1> QED BY <1>4

\* substituteLevelParameter, which rebuilds the level through the normalising
\* constructors: the result means, under any assignment, what the level means
\* under the assignment that gives the parameter the replacement's meaning.
THEOREM SubstitutionMeansUpdate ==
  ASSUME NEW j \in 0..MaxHeight, NEW by \in LevelsTo[j], NEW u \in ParameterNames,
         NEW at \in Valuations
  PROVE  \A h \in 0..MaxHeight : h + j <= MaxHeight =>
           \A l \in LevelsTo[h] :
             LevelValue(SubstituteLevel(l, u, by), at)
               = LevelValue(l, [at EXCEPT ![u] = LevelValue(by, at)])
<1> DEFINE to == [at EXCEPT ![u] = LevelValue(by, at)]
           Kept(l) == LevelValue(SubstituteLevel(l, u, by), at) = LevelValue(l, to)
           S == {h \in 0..MaxHeight : h + j <= MaxHeight => \A l \in LevelsTo[h] : Kept(l)}
<1>1. to \in Valuations
  <2>1. by \in Levels BY HeightsAreLevels
  <2>2. LevelValue(by, at) \in Nat BY <2>1, LevelValueIsNatural
  <2> QED BY <2>2 DEF Valuations
<1>2. \A v \in ParameterNames : to[v] = IF v = u THEN LevelValue(by, at) ELSE at[v]
  BY DEF Valuations
<1> HIDE DEF to
<1>3. ASSUME NEW h \in 0..MaxHeight, h + j <= MaxHeight, NEW l \in LevelsTo[h],
             h # 0 => \A k \in LevelsTo[h - 1] : Kept(k)
      PROVE  Kept(l)
  <2>1. l \in Levels /\ h + j \in 0..MaxHeight
    BY <1>3, HeightsAreLevels, MaxHeightIsNat
  <2>2. CASE l.node = "LevelConst" BY <2>1, <2>2, SubstituteLevelOf, LevelValueOf
  <2>3. CASE l.node = "LevelParam"
    <3>1. l.name \in ParameterNames BY <2>1, <2>3, LevelCases
    <3>2. LevelValue(l, to) = IF l.name = u THEN LevelValue(by, at) ELSE at[l.name]
      BY <2>1, <2>3, <3>1, <1>2, LevelValueOf
    <3>3. LevelValue(l, at) = at[l.name] BY <2>1, <2>3, LevelValueOf
    <3>4. SubstituteLevel(l, u, by) = IF l.name = u THEN by ELSE l
      BY <2>1, <2>3, SubstituteLevelOf
    <3> QED BY <3>2, <3>3, <3>4
  <2>4. CASE l.node = "LevelSuccessor"
    <3>1. l.base \in Parts(l) BY <2>4 DEF Parts
    <3>2. h # 0 /\ h - 1 \in 0..MaxHeight /\ l.base \in LevelsTo[h - 1]
      BY <3>1, PartsStandBelow
    <3>3. h + j \in 1..MaxHeight /\ (h - 1) + j <= MaxHeight /\ (h - 1) + j = (h + j) - 1
      BY <1>3, <3>2, MaxHeightIsNat
    <3> DEFINE base == SubstituteLevel(l.base, u, by)
    <3>4. base \in LevelsTo[(h + j) - 1] BY <3>2, <3>3, SubstitutedHeight
    <3>5. LevelValue(base, at) = LevelValue(l.base, to) BY <1>3, <3>2
    <3>6. SubstituteLevel(l, u, by) = MakeSuccessor(base) BY <2>1, <2>4, SubstituteLevelOf
    <3>7. LevelValue(l, to) = LevelValue(l.base, to) + 1 BY <2>1, <2>4, LevelValueOf
    <3> HIDE DEF base
    <3>8. LevelValue(MakeSuccessor(base), at) = LevelValue(base, at) + 1
      BY <3>3, <3>4, ConstructorsMeanWhatTheySay
    <3> QED BY <3>5, <3>6, <3>7, <3>8
  <2>5. CASE l.node \in {"LevelMax", "LevelIMax"}
    <3>1. l.left \in Parts(l) /\ l.right \in Parts(l) BY <2>5 DEF Parts
    <3>2. /\ h # 0 /\ h - 1 \in 0..MaxHeight
          /\ l.left \in LevelsTo[h - 1] /\ l.right \in LevelsTo[h - 1]
      BY <3>1, PartsStandBelow
    <3>3. h + j \in 1..MaxHeight /\ (h - 1) + j <= MaxHeight /\ (h - 1) + j = (h + j) - 1
      BY <1>3, <3>2, MaxHeightIsNat
    <3> DEFINE left == SubstituteLevel(l.left, u, by)
               right == SubstituteLevel(l.right, u, by)
    <3>4. left \in LevelsTo[(h + j) - 1] /\ right \in LevelsTo[(h + j) - 1]
      BY <3>2, <3>3, SubstitutedHeight
    <3>5. /\ LevelValue(left, at) = LevelValue(l.left, to)
          /\ LevelValue(right, at) = LevelValue(l.right, to)
      BY <1>3, <3>2
    <3>6. /\ l.node = "LevelMax" => SubstituteLevel(l, u, by) = MakeMax(left, right)
          /\ l.node = "LevelIMax" => SubstituteLevel(l, u, by) = MakeIMax(left, right)
      BY <2>1, SubstituteLevelOf
    <3> HIDE DEF left, right
    <3>7. /\ LevelValue(MakeMax(left, right), at)
               = Larger(LevelValue(left, at), LevelValue(right, at))
          /\ LevelValue(MakeIMax(left, right), at) =
               IF LevelValue(right, at) = 0 THEN 0
               ELSE Larger(LevelValue(left, at), LevelValue(right, at))
      BY <3>3, <3>4, ConstructorsMeanWhatTheySay
    <3>8. /\ l.node = "LevelMax" => LevelValue(l, to)
               = Larger(LevelValue(l.left, to), LevelValue(l.right, to))
          /\ l.node = "LevelIMax" => LevelValue(l, to) =
               IF LevelValue(l.right, to) = 0 THEN 0
               ELSE Larger(LevelValue(l.left, to), LevelValue(l.right, to))
      BY <2>1, LevelValueOf
    <3> QED BY <2>5, <3>5, <3>6, <3>7, <3>8
  <2> QED BY <2>1, <2>2, <2>3, <2>4, <2>5, LevelCases
<1> HIDE DEF Kept
<1>4. 0 \in S
  <2>1. 0 \in 0..MaxHeight BY MaxHeightIsNat
  <2> QED BY <1>3, <2>1
<1>5. ASSUME NEW h \in 1..MaxHeight, h - 1 \in S PROVE h \in S
  <2>1. h \in 0..MaxHeight BY MaxHeightIsNat
  <2>2. h + j <= MaxHeight => (h - 1) + j <= MaxHeight BY MaxHeightIsNat
  <2> QED BY <1>3, <1>5, <2>1, <2>2
<1>6. S = 0..MaxHeight
  <2>1. S \in SUBSET (0..MaxHeight) OBVIOUS
  <2> HIDE DEF S
  <2> QED BY <2>1, <1>4, <1>5, EveryHeight, MaxHeightIsNat
<1>7. \A h \in 0..MaxHeight : h + j <= MaxHeight => \A l \in LevelsTo[h] : Kept(l)
  BY <1>6
<1> QED BY <1>7 DEF Kept, to

-----------------------------------------------------------------------------
(* The instantiation of several parameters.                                 *)

Substitutions(f, l, parameters, replacements, n) ==
  f = [i \in 0..n |->
        IF i = 0 THEN l ELSE SubstituteLevel(f[i - 1], parameters[i], replacements[i])]

LEMMA SubstitutionsExist ==
  ASSUME NEW l, NEW parameters, NEW replacements, NEW N \in Nat
  PROVE  \E f : Substitutions(f, l, parameters, replacements, N)
<1> DEFINE S == {n \in 0..N : \E f : Substitutions(f, l, parameters, replacements, n)}
<1>1. 0 \in S
  <2> DEFINE g == [i \in 0..0 |-> l]
  <2>1. Substitutions(g, l, parameters, replacements, 0) BY DEF Substitutions
  <2> QED BY <2>1
<1>2. ASSUME NEW n \in 1..N, n - 1 \in S PROVE n \in S
  <2>1. PICK f : Substitutions(f, l, parameters, replacements, n - 1) BY <1>2
  <2> DEFINE last == SubstituteLevel(f[n - 1], parameters[n], replacements[n])
             g == [i \in 0..n |-> IF i = n THEN last ELSE f[i]]
  <2>2. ASSUME NEW i \in 0..n
        PROVE  g[i] = IF i = 0 THEN l
                      ELSE SubstituteLevel(g[i - 1], parameters[i], replacements[i])
    <3>1. CASE i = n BY <3>1
    <3>2. CASE i # n
      <4>1. i \in 0..(n - 1) /\ (i = 0 \/ (i - 1 \in 0..n /\ i - 1 # n)) BY <3>2
      <4>2. f[i] = IF i = 0 THEN l
                   ELSE SubstituteLevel(f[i - 1], parameters[i], replacements[i])
        BY <2>1, <4>1 DEF Substitutions
      <4> HIDE DEF last
      <4> QED BY <3>2, <4>1, <4>2
    <3> QED BY <3>1, <3>2
  <2>3. Substitutions(g, l, parameters, replacements, n)
    <3> HIDE DEF last
    <3> QED BY <2>2 DEF Substitutions
  <2> QED BY <2>3
<1>3. S = 0..N
  <2>1. S \in SUBSET (0..N) OBVIOUS
  <2> HIDE DEF S
  <2> QED BY <2>1, <1>1, <1>2, EveryHeight
<1> QED BY <1>3

\* f leads from the level to its instance, one parameter at a time.
Instantiates(f, l, parameters, replacements) ==
  /\ f[0] = l
  /\ \A i \in 1..Len(parameters) :
       f[i] = SubstituteLevel(f[i - 1], parameters[i], replacements[i])
  /\ SubstituteOneLevel(l, parameters, replacements) = f[Len(parameters)]

LEMMA SubstituteOneLevelUnfold ==
  ASSUME NEW l, NEW parameters \in Seq(ParameterNames), NEW replacements
  PROVE  \E f : Instantiates(f, l, parameters, replacements)
<1> DEFINE N == Len(parameters)
           F == CHOOSE f : Substitutions(f, l, parameters, replacements, N)
<1>0. N \in Nat OBVIOUS
<1>1. Substitutions(F, l, parameters, replacements, N)
  <2> HIDE DEF N
  <2> QED BY <1>0, SubstitutionsExist
<1>2. SubstituteOneLevel(l, parameters, replacements) = F[N]
  BY DEF SubstituteOneLevel, Substitutions
<1> HIDE DEF F, N
<1>3. F[0] = l BY <1>0, <1>1 DEF Substitutions
<1>4. ASSUME NEW i \in 1..N
      PROVE  F[i] = SubstituteLevel(F[i - 1], parameters[i], replacements[i])
  <2>1. i \in 0..N /\ i # 0 BY <1>0
  <2> QED BY <1>1, <2>1 DEF Substitutions
<1> QED BY <1>2, <1>3, <1>4 DEF N, Instantiates

\* No argument's meaning depends on a parameter that is substituted after it.
IgnoresLater(parameters, replacements) ==
  \A i, k \in 1..Len(parameters) : i < k =>
    \A at \in Valuations, n \in Nat :
      LevelValue(replacements[i], [at EXCEPT ![parameters[k]] = n])
        = LevelValue(replacements[i], at)

\* substituteUniverseLevels replaces a declaration's universe parameters one
\* after the other, so an argument put in early is itself substituted by the
\* later ones.  When no argument mentions a later parameter the result is the
\* instance asked for: it means what the level means where each parameter has
\* its argument's meaning and the rest are as they were.
THEOREM InstantiationIsSimultaneous ==
  ASSUME NEW parameters \in Seq(ParameterNames), NEW replacements,
         NEW h \in Nat, NEW j \in 0..MaxHeight, NEW l \in LevelsTo[h],
         h + Len(parameters) * j <= MaxHeight,
         \A i \in 1..Len(parameters) : replacements[i] \in LevelsTo[j],
         IgnoresLater(parameters, replacements)
  PROVE  \A at, to \in Valuations :
           /\ \A i \in 1..Len(parameters) : to[parameters[i]] = LevelValue(replacements[i], at)
           /\ \A v \in ParameterNames : (\A i \in 1..Len(parameters) : v # parameters[i]) => to[v] = at[v]
           => LevelValue(SubstituteOneLevel(l, parameters, replacements), at) = LevelValue(l, to)
<1> DEFINE N == Len(parameters)
           V(k, at) == LevelValue(k, at)
<1>0. N \in Nat /\ h + N * j <= MaxHeight OBVIOUS
<1>1. PICK f : /\ f[0] = l
               /\ \A i \in 1..N : f[i] = SubstituteLevel(f[i - 1], parameters[i], replacements[i])
               /\ SubstituteOneLevel(l, parameters, replacements) = f[N]
  <2>1. \E f : Instantiates(f, l, parameters, replacements)
    BY SubstituteOneLevelUnfold
  <2> QED BY <2>1 DEF Instantiates
<1>2. \A i \in 1..N : parameters[i] \in ParameterNames BY ElementOfSeq
<1>3. \A i \in 1..N : replacements[i] \in LevelsTo[j] /\ replacements[i] \in Levels
  BY HeightsAreLevels
<1>4. \A i, k \in 1..N : i < k =>
        \A at \in Valuations, n \in Nat :
          V(replacements[i], [at EXCEPT ![parameters[k]] = n]) = V(replacements[i], at)
  BY DEF IgnoresLater
<1> DEFINE Given(n, at, to) ==
             /\ \A i \in 1..n : to[parameters[i]] = V(replacements[i], at)
             /\ \A v \in ParameterNames : (\A i \in 1..n : v # parameters[i]) => to[v] = at[v]
           S == {n \in 0..N :
                  /\ h + n * j <= MaxHeight => f[n] \in LevelsTo[h + n * j]
                  /\ \A at, to \in Valuations : Given(n, at, to) => V(f[n], at) = V(l, to)}
<1> HIDE DEF N, V
<1>5. \A n \in 0..N : n * j \in Nat /\ h + n * j <= MaxHeight
  <2> SUFFICES ASSUME NEW n \in 0..N PROVE n * j \in Nat /\ h + n * j <= MaxHeight
    OBVIOUS
  <2>1. j \in Nat /\ N - n \in Nat /\ n \in Nat BY <1>0, MaxHeightIsNat
  <2>2. (N - n) * j \in Nat /\ n * j \in Nat BY <2>1
  <2>3. N * j = (N - n) * j + n * j BY <2>1, <1>0
  <2> QED BY <1>0, <2>2, <2>3, MaxHeightIsNat
<1>6. 0 \in S
  <2>1. 0 * j = 0 /\ h + 0 = h BY MaxHeightIsNat
  <2>2. ASSUME NEW at \in Valuations, NEW to \in Valuations, Given(0, at, to)
        PROVE  to = at
    <3>1. \A v \in ParameterNames : to[v] = at[v] BY <2>2
    <3> QED BY <3>1 DEF Valuations
  <2>3. \A at, to \in Valuations : Given(0, at, to) => V(f[0], at) = V(l, to)
    <3> HIDE DEF Given
    <3> QED BY <1>1, <2>2
  <2>4. f[0] \in LevelsTo[h + 0 * j] /\ 0 \in 0..N BY <1>0, <1>1, <2>1
  <2> QED BY <2>3, <2>4
<1>7. ASSUME NEW n \in 1..N, n - 1 \in S PROVE n \in S
  <2>0. /\ n \in 0..N /\ n \in Nat /\ n - 1 \in Nat /\ n - 1 \in 0..N
        /\ \A i \in 1..(n - 1) : i \in 1..N /\ i \in 1..n /\ i < n
        /\ \A i \in 1..n : i = n \/ i \in 1..(n - 1)
    BY <1>0
  <2> DEFINE below == h + (n - 1) * j
  <2>1. /\ below \in 0..MaxHeight /\ below + j = h + n * j
        /\ below + j <= MaxHeight
    <3>1. (n - 1) * j \in Nat /\ h + n * j <= MaxHeight /\ below <= MaxHeight
      BY <1>5, <2>0
    <3>2. j \in Nat /\ (n - 1) * j + j = n * j BY <2>0, MaxHeightIsNat
    <3> QED BY <3>1, <3>2, MaxHeightIsNat
  <2>2. f[n - 1] \in LevelsTo[below] BY <1>7, <2>1, MaxHeightIsNat
  <2>3. \A at, to \in Valuations : Given(n - 1, at, to) => V(f[n - 1], at) = V(l, to)
    BY <1>7
  <2> HIDE DEF below
  <2>4. f[n] = SubstituteLevel(f[n - 1], parameters[n], replacements[n]) BY <1>1
  <2>5. f[n] \in LevelsTo[below + j]
    BY <1>3, <2>1, <2>2, <2>4, SubstitutedHeight
  <2>6. ASSUME NEW at \in Valuations, NEW to \in Valuations, Given(n, at, to)
        PROVE  V(f[n], at) = V(l, to)
    <3> DEFINE next == [at EXCEPT ![parameters[n]] = V(replacements[n], at)]
    <3>1. V(replacements[n], at) \in Nat BY <1>3, LevelValueIsNatural DEF V
    <3>2. next \in Valuations BY <3>1 DEF Valuations
    <3>3. V(f[n], at) = V(f[n - 1], next)
      <4>1. parameters[n] \in ParameterNames /\ replacements[n] \in LevelsTo[j] BY <1>2, <1>3
      <4>2. LevelValue(SubstituteLevel(f[n - 1], parameters[n], replacements[n]), at)
              = LevelValue(f[n - 1],
                           [at EXCEPT ![parameters[n]] = LevelValue(replacements[n], at)])
        BY <4>1, <2>1, <2>2, SubstitutionMeansUpdate
      <4> QED BY <4>2, <2>4 DEF V
    <3>4. ASSUME NEW i \in 1..(n - 1) PROVE to[parameters[i]] = V(replacements[i], next)
      <4>1. i \in 1..N /\ i \in 1..n /\ i < n BY <2>0
      <4>2. V(replacements[i], next) = V(replacements[i], at) BY <1>4, <3>1, <4>1
      <4> QED BY <2>6, <4>1, <4>2
    <3>5. ASSUME NEW v \in ParameterNames, \A i \in 1..(n - 1) : v # parameters[i]
          PROVE  to[v] = next[v]
      <4>1. CASE v = parameters[n]
        <5>1. to[v] = V(replacements[n], at) BY <2>0, <2>6, <4>1
        <5> QED BY <4>1, <5>1 DEF Valuations
      <4>2. CASE v # parameters[n]
        <5>1. \A i \in 1..n : v # parameters[i] BY <2>0, <3>5, <4>2
        <5>2. to[v] = at[v] BY <2>6, <5>1
        <5> QED BY <4>2, <5>2 DEF Valuations
      <4> QED BY <4>1, <4>2
    <3> HIDE DEF next
    <3>6. V(f[n - 1], next) = V(l, to) BY <2>3, <3>2, <3>4, <3>5
    <3> QED BY <3>3, <3>6
  <2> HIDE DEF Given
  <2> QED BY <2>0, <2>1, <2>5, <2>6
<1>8. S = 0..N
  <2>1. S \in SUBSET (0..N) OBVIOUS
  <2> HIDE DEF S
  <2> QED BY <2>1, <1>0, <1>6, <1>7, EveryHeight
<1>9. \A at, to \in Valuations : Given(N, at, to) => V(f[N], at) = V(l, to)
  <2>1. N \in S
    <3> HIDE DEF S
    <3> QED BY <1>0, <1>8
  <2> HIDE DEF Given
  <2> QED BY <2>1
<1> QED BY <1>1, <1>9 DEF N, V

\* The condition is needed.  A declaration with parameters u and v used at v
\* and a constant is instantiated at the constant twice: the v that was put in
\* for u is the v replaced next.  The result means the constant where v, the
\* argument asked for, was due (kernel.hpp describes the replacement of each
\* parameter by its own argument).
THEOREM LaterArgumentsOverwrite ==
  ASSUME NEW u \in ParameterNames, NEW v \in ParameterNames, u # v, NEW n \in Nat
  PROVE  /\ SubstituteOneLevel(LevelParam(u), <<u, v>>, <<LevelParam(v), LevelConst(n)>>)
              = LevelConst(n)
         /\ SubstituteOneLevel(LevelParam(u), <<v, u>>, <<LevelConst(n), LevelParam(v)>>)
              = LevelParam(v)
<1>1. \A s \in ParameterNames : LevelParam(s) \in Levels
  <2>1. MaxHeight \in 0..MaxHeight BY MaxHeightIsNat
  <2> QED BY <2>1, ParamsAreLow DEF Levels
<1>2. \A s, t \in ParameterNames : \A by :
        SubstituteLevel(LevelParam(s), t, by) = IF s = t THEN by ELSE LevelParam(s)
  <2> SUFFICES ASSUME NEW s \in ParameterNames, NEW t \in ParameterNames, NEW by
               PROVE  SubstituteLevel(LevelParam(s), t, by)
                        = IF s = t THEN by ELSE LevelParam(s)
    OBVIOUS
  <2>1. LevelParam(s) \in Levels BY <1>1
  <2>2. LevelParam(s).node = "LevelParam" /\ LevelParam(s).name = s BY DEF LevelParam
  <2> QED BY <2>1, <2>2, SubstituteLevelOf
<1>3. SubstituteOneLevel(LevelParam(u), <<u, v>>, <<LevelParam(v), LevelConst(n)>>)
        = LevelConst(n)
  <2> DEFINE p == <<u, v>>
             r == <<LevelParam(v), LevelConst(n)>>
  <2>1. p \in Seq(ParameterNames) /\ Len(p) = 2 /\ p[1] = u /\ p[2] = v OBVIOUS
  <2>2. r[1] = LevelParam(v) /\ r[2] = LevelConst(n) OBVIOUS
  <2> HIDE DEF p, r
  <2>3. PICK f : /\ f[0] = LevelParam(u)
                 /\ \A i \in 1..Len(p) : f[i] = SubstituteLevel(f[i - 1], p[i], r[i])
                 /\ SubstituteOneLevel(LevelParam(u), p, r) = f[Len(p)]
    BY <2>1, SubstituteOneLevelUnfold DEF Instantiates
  <2>4. f[1] = SubstituteLevel(f[0], p[1], r[1]) /\ f[2] = SubstituteLevel(f[1], p[2], r[2])
    <3>1. 1 \in 1..Len(p) /\ 2 \in 1..Len(p) BY <2>1
    <3> QED BY <3>1, <2>3
  <2>5. SubstituteOneLevel(LevelParam(u), p, r) = LevelConst(n)
    BY <1>2, <2>1, <2>2, <2>3, <2>4
  <2> QED BY <2>5 DEF p, r
<1>4. SubstituteOneLevel(LevelParam(u), <<v, u>>, <<LevelConst(n), LevelParam(v)>>)
        = LevelParam(v)
  <2> DEFINE p == <<v, u>>
             r == <<LevelConst(n), LevelParam(v)>>
  <2>1. p \in Seq(ParameterNames) /\ Len(p) = 2 /\ p[1] = v /\ p[2] = u OBVIOUS
  <2>2. r[1] = LevelConst(n) /\ r[2] = LevelParam(v) OBVIOUS
  <2> HIDE DEF p, r
  <2>3. PICK f : /\ f[0] = LevelParam(u)
                 /\ \A i \in 1..Len(p) : f[i] = SubstituteLevel(f[i - 1], p[i], r[i])
                 /\ SubstituteOneLevel(LevelParam(u), p, r) = f[Len(p)]
    BY <2>1, SubstituteOneLevelUnfold DEF Instantiates
  <2>4. f[1] = SubstituteLevel(f[0], p[1], r[1]) /\ f[2] = SubstituteLevel(f[1], p[2], r[2])
    <3>1. 1 \in 1..Len(p) /\ 2 \in 1..Len(p) BY <2>1
    <3> QED BY <3>1, <2>3
  <2>5. SubstituteOneLevel(LevelParam(u), p, r) = LevelParam(v)
    BY <1>2, <2>1, <2>2, <2>3, <2>4
  <2> QED BY <2>5 DEF p, r
<1> QED BY <1>3, <1>4
=============================================================================
