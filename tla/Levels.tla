------------------------------- MODULE Levels -------------------------------
(***************************************************************************)
(* Universe levels: the normalising constructors, the substitution of a     *)
(* level parameter, and the order that decides whether a constructor's      *)
(* field fits into its inductive (src/kernel/level.cpp).                    *)
(*                                                                         *)
(* A level is a record tagged by its variant.  levelsDefinitionallyEqual    *)
(* is the equality of these records.                                       *)
(***************************************************************************)
EXTENDS Integers, FiniteSets, Sequences

\* Levels nest at most MaxHeight constructors deep.
CONSTANT MaxHeight
ASSUME MaxHeightIsNat == MaxHeight \in Nat

LevelConst(n)     == [node |-> "LevelConst", value |-> n]
LevelParam(u)     == [node |-> "LevelParam", name |-> u]
LevelSuccessor(l) == [node |-> "LevelSuccessor", base |-> l]
LevelMax(l, r)    == [node |-> "LevelMax", left |-> l, right |-> r]
LevelIMax(l, r)   == [node |-> "LevelIMax", left |-> l, right |-> r]

ParameterNames == STRING

\* The levels of one more constructor than those of below.
LevelsOver(below) ==
       [node : {"LevelConst"}, value : Nat]
  \cup [node : {"LevelParam"}, name : ParameterNames]
  \cup [node : {"LevelSuccessor"}, base : below]
  \cup [node : {"LevelMax", "LevelIMax"}, left : below, right : below]

LevelsTo[h \in 0..MaxHeight] == LevelsOver(IF h = 0 THEN {} ELSE LevelsTo[h - 1])
Levels == LevelsTo[MaxHeight]

IsConst(l) == l.node = "LevelConst"
Larger(m, n) == IF m > n THEN m ELSE n

MakeSuccessor(l) ==
  IF IsConst(l) THEN LevelConst(l.value + 1) ELSE LevelSuccessor(l)

MakeMax(l, r) ==
  IF IsConst(l) /\ IsConst(r) THEN LevelConst(Larger(l.value, r.value))
  ELSE IF l = LevelConst(0) THEN r
  ELSE IF r = LevelConst(0) THEN l
  ELSE IF l = r THEN l
  ELSE LevelMax(l, r)

\* imax(_, 0) is 0, and a successor is never 0.
MakeIMax(l, r) ==
  CASE r = LevelConst(0)                             -> r
    [] r.node \in {"LevelConst", "LevelSuccessor"} /\ r # LevelConst(0)
                                                     -> MakeMax(l, r)
    [] OTHER                                         -> LevelIMax(l, r)

\* done holds the results for the parts of l.
SubstituteInParts(done, l, u, by) ==
  CASE l.node = "LevelConst"     -> l
    [] l.node = "LevelParam"     -> IF l.name = u THEN by ELSE l
    [] l.node = "LevelSuccessor" -> MakeSuccessor(done[l.base])
    [] l.node = "LevelMax"       -> MakeMax(done[l.left], done[l.right])
    [] l.node = "LevelIMax"      -> MakeIMax(done[l.left], done[l.right])

SubstituteLevel(l, u, by) ==
  LET done[k \in Levels] == SubstituteInParts(done, k, u, by) IN done[l]

\* One parameter after the other, each over the result of the one before.
SubstituteOneLevel(l, parameters, replacements) ==
  LET first[n \in 0..Len(parameters)] ==
        IF n = 0 THEN l ELSE SubstituteLevel(first[n - 1], parameters[n], replacements[n])
  IN  first[Len(parameters)]

(***************************************************************************)
(* levelLessOrEqual.  The first rule that applies gives the answer, so a    *)
(* FALSE may also mean "not decided": a maximum on the right is taken apart *)
(* before one on the left.  less holds the answers for smaller pairs.       *)
(***************************************************************************)
\* A fault: one side of a maximum is taken to bound the other.
LessOrEqualRulesEitherSide(less, sub, super) ==
  IF sub.node = "LevelMax" /\ super.node # "LevelMax"
  THEN less[<<sub.left, super>>] \/ less[<<sub.right, super>>]
  ELSE \/ sub = super
       \/ IsConst(sub) /\ IsConst(super) /\ sub.value <= super.value
       \/ sub.node = "LevelSuccessor" /\ super.node = "LevelSuccessor"
          /\ less[<<sub.base, super.base>>]
       \/ super.node = "LevelSuccessor" /\ less[<<sub, super.base>>]

LessOrEqualRules(less, sub, super) ==
  IF sub = super THEN TRUE
  ELSE IF IsConst(sub) /\ IsConst(super) THEN sub.value <= super.value
  ELSE IF sub = LevelConst(0) THEN TRUE
  ELSE IF super.node = "LevelMax"
    THEN less[<<sub, super.left>>] \/ less[<<sub, super.right>>]
  ELSE IF sub.node = "LevelMax"
    THEN less[<<sub.left, super>>] /\ less[<<sub.right, super>>]
  ELSE IF sub.node = "LevelSuccessor" /\ super.node = "LevelSuccessor"
    THEN less[<<sub.base, super.base>>]
  ELSE IF sub.node = "LevelSuccessor" /\ IsConst(super) /\ super.value >= 1
    THEN less[<<sub.base, LevelConst(super.value - 1)>>]
  ELSE IF super.node = "LevelSuccessor" /\ IsConst(sub)
    THEN less[<<LevelConst(sub.value - 1), super.base>>]
  ELSE super.node = "LevelSuccessor" /\ less[<<sub, super.base>>]

LevelLessOrEqual(l, r) ==
  LET less[pair \in Levels \X Levels] == LessOrEqualRules(less, pair[1], pair[2])
  IN  less[<<l, r>>]

-----------------------------------------------------------------------------
(* What a level means under an assignment of naturals to its parameters.    *)
Meaning(value, l, at) ==
  CASE l.node = "LevelConst"     -> l.value
    [] l.node = "LevelParam"     -> at[l.name]
    [] l.node = "LevelSuccessor" -> value[l.base] + 1
    [] l.node = "LevelMax"       -> Larger(value[l.left], value[l.right])
    [] l.node = "LevelIMax"      -> IF value[l.right] = 0 THEN 0
                                    ELSE Larger(value[l.left], value[l.right])

LevelValue(l, at) ==
  LET value[k \in Levels] == Meaning(value, k, at) IN value[l]
=============================================================================
