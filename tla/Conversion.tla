----------------------------- MODULE Conversion -----------------------------
(***************************************************************************)
(* Reduction, definitional equality and type inference                      *)
(* (weakHeadNormalForm, isDefinitionallyEqual and inferType of              *)
(* src/kernel/kernel.cpp), as functions of an environment, a context, a     *)
(* term and what the tables of types and of equalities hold.  Each returns  *)
(* its answer and the tables it leaves.                                    *)
(*                                                                         *)
(* Terms are well scoped and name constants with the universe arguments     *)
(* they are declared with.  Fuel, recursion depth, cycles and the table of  *)
(* normal forms are KernelCaches' subject.  Hashes are ideal: two of them   *)
(* agree only when what was folded into them does.                         *)
(***************************************************************************)
EXTENDS Inductives

TypeError == [node |-> "TypeError"]

\* What a call answers, and the tables [types, equals] it leaves.
Answer(v, known) == [value |-> v, known |-> known]

Holds(env, c, kind) == c \in DOMAIN env /\ env[c].kind = kind

\* What follows a call, by its answer: a yes or a no, a type or an error.
WithAnswer(answer, Then(_, _)) == Then(answer.value, answer.known)
OrElse(first, Then(_))  == IF first.value THEN first ELSE Then(first.known)
AndThen(first, Then(_)) == IF first.value THEN Then(first.known) ELSE first
Typing(type, Then(_))   == IF type.value = TypeError THEN type ELSE Then(type)
IfTyped(type, Then(_))  == IF type.value = TypeError THEN Answer(FALSE, type.known) ELSE Then(type)
Required(fits, Then(_)) ==
  IF fits.value THEN Then(fits.known) ELSE Answer(TypeError, fits.known)

-----------------------------------------------------------------------------
(* Naturals: a literal is a number; zero, successor and the operations of   *)
(* acceleratedNaturalOpArity are known by name.                            *)

Zero      == "Natural.Raw.zero"
Successor == "Natural.Raw.successor"
NotGround == -1

IsNaturalConstructor(env, c) ==
  /\ c \in {Zero, Successor}
  /\ Holds(env, c, "constructor")
  /\ env[c].inductiveName = "Natural.Raw"

IsNumeral(env, e, c) ==
  e.node = "Constant" /\ e.name = c /\ IsNaturalConstructor(env, c)

IsSuccessorOf(env, e) == e.node = "Application" /\ IsNumeral(env, e.function, Successor)

LiteralConstructorView(n) ==
  IF n = 0 THEN Constant(Zero, << >>)
  ELSE Application(Constant(Successor, << >>), NaturalLiteral(n - 1))

AcceleratedOps == {"Natural.add", "Natural.multiply", "Natural.monus",
                   "Natural.power", "Natural.floor_divide", "Natural.modulo"}

Evaluate(op, m, n) ==
  CASE op = "Natural.add"          -> m + n
    [] op = "Natural.multiply"     -> m * n
    [] op = "Natural.monus"        -> IF m <= n THEN 0 ELSE m - n
    [] op = "Natural.power"        -> IF n < 16777216 THEN m ^ n ELSE NotGround
    [] op = "Natural.floor_divide" -> IF n = 0 THEN 0 ELSE m \div n
    [] op = "Natural.modulo"       -> IF n = 0 THEN m ELSE m % n

-----------------------------------------------------------------------------
(* The key of a context: every entry's hash folded into one word by         *)
(* exclusive or.  Only the type's hash is multiplied by a factor that       *)
(* depends on the position, so of the names and the origins the fold keeps  *)
(* which occur an odd number of times.                                     *)
Odd(S) == Cardinality(S) % 2 = 1

\* A fault: the key names the context's variables only.
ContextFingerprintUntyped(context) ==
  [names |-> {context[i].name : i \in DOMAIN context}, internal |-> FALSE, types |-> << >>]

ContextFingerprint(context) ==
  [names |-> {x \in {context[i].name : i \in DOMAIN context} :
                Odd({i \in DOMAIN context : context[i].name = x})},
   internal |-> Odd({i \in DOMAIN context : context[i].origin = Internal}),
   types |-> [i \in DOMAIN context |-> Shape(context[i].type)]]

InferKey(context, e) == [expression |-> Shape(e), context |-> ContextFingerprint(context)]
EqualKey(l, r)       == <<Shape(l), Shape(r)>>

RECURSIVE Suffixed(_, _, _)
Suffixed(base, context, k) ==
  LET candidate == base \o "_" \o ToString(k)
  IN  IF \E i \in DOMAIN context : context[i].name = candidate
      THEN Suffixed(base, context, k + 1) ELSE candidate

\* A fault: the binder's own name is taken, whether or not it is in use.
FreshNameUnchecked(displayHint, context) == IF displayHint = "" THEN "x" ELSE displayHint

FreshName(displayHint, context) ==
  LET base == IF displayHint = "" THEN "x" ELSE displayHint
  IN  IF \E i \in DOMAIN context : context[i].name = base
      THEN Suffixed(base, context, 1) ELSE base

OpeningName(context) == Numbered("v", Len(context))

\* The functions below call one another through here.
RECURSIVE Kernel(_, _, _)

Whnf(env, e, known)        == Kernel(env, [ask |-> "whnf", term |-> e], known)
GroundValue(env, e, known) == Kernel(env, [ask |-> "ground", term |-> e], known)
IsDefEq(env, context, left, right, known) ==
  Kernel(env, [ask |-> "equal", context |-> context, left |-> left, right |-> right], known)
Infer(env, context, e, known) ==
  Kernel(env, [ask |-> "type", context |-> context, term |-> e], known)

-----------------------------------------------------------------------------
(* weakHeadNormalForm *)

Unfolding(env, e) ==
  SubstituteUniverseLevels(env[e.name].body, env[e.name].universeParameters,
                           e.universeArguments)

\* The first n arguments agree, compared in the empty context up to the first
\* that does not.
RECURSIVE SameParameters(_, _, _, _, _)
SameParameters(env, args, parts, n, known) ==
  IF n = 0 THEN Answer(TRUE, known)
  ELSE LET before == SameParameters(env, args, parts, n - 1, known)
       IN  IF before.value THEN IsDefEq(env, << >>, args[n], parts[n], before.known)
           ELSE before

\* The argument a recursor reduces at, counted from one.
TargetPosition(recursor) ==
  recursor.numParameters + recursor.numConstructors + recursor.numIndices + 2

AsConstructorForm(recursor, e) ==
  IF recursor.inductiveName = "Natural.Raw" /\ e.node = "NaturalLiteral"
  THEN LiteralConstructorView(e.value) ELSE e

\* A constructor of the recursor's inductive; the inductive's universes are the
\* tail of the recursor's.
Matches(env, head, maker) ==
  /\ maker.node = "Constant" /\ Holds(env, maker.name, "constructor")
  /\ env[maker.name].inductiveName = env[head.name].inductiveName
  /\ Len(head.universeArguments) >= Len(maker.universeArguments)
  /\ From(head.universeArguments,
          Len(head.universeArguments) - Len(maker.universeArguments) + 1)
       = maker.universeArguments

\* What the recursor's rule makes of the target, given its head and arguments.
IotaReduct(env, head, args, maker, parts) ==
  ApplyArguments(BuildIotaReduction(head, env[head.name], env[maker.name], args, parts),
                 From(args, TargetPosition(env[head.name]) + 1))

ReduceMatch(env, head, args, maker, parts, match) ==
  IF match.value THEN Whnf(env, IotaReduct(env, head, args, maker, parts), match.known)
  ELSE Answer(ApplyArguments(head, args), match.known)

ReduceTarget(env, head, args, maker, parts, known) ==
  IF ~Matches(env, head, maker) \/ Len(parts) < env[head.name].numParameters
  THEN Answer(ApplyArguments(head, args), known)
  ELSE ReduceMatch(env, head, args, maker, parts,
         SameParameters(env, args, parts, env[head.name].numParameters, known))

ReduceRecursorAt(env, head, args, target, known) ==
  ReduceTarget(env, head, args, SpineHead(target), SpineArguments(target), known)

ReduceRecursor(env, head, args, known) ==
  IF Len(args) < TargetPosition(env[head.name]) THEN Answer(ApplyArguments(head, args), known)
  ELSE WithAnswer(Whnf(env, args[TargetPosition(env[head.name])], known), LAMBDA target, k :
         ReduceRecursorAt(env, head, args, AsConstructorForm(env[head.name], target), k))

ReduceSuccessor(env, head, args, below) ==
  IF below.value.node = "NaturalLiteral"
  THEN Whnf(env, ApplyArguments(NaturalLiteral(below.value.value + 1), Tail(args)), below.known)
  ELSE Answer(ApplyArguments(head, args), below.known)

ReduceLift(env, head, args, target) ==
  LET class == SpineHead(target.value)
      parts == SpineArguments(target.value)
  IN  IF class.node = "Constant" /\ class.name = "Quotient.class_of" /\ Len(parts) >= 3
      THEN Whnf(env, ApplyArguments(Application(args[4], parts[3]), From(args, 7)), target.known)
      ELSE Answer(ApplyArguments(head, args), target.known)

ReduceConstantHead(env, head, args, known) ==
  CASE IsNumeral(env, head, Successor) ->
         ReduceSuccessor(env, head, args,
           IF args[1].node \in {"Application", "Constant", "Let"}
           THEN Whnf(env, args[1], known) ELSE Answer(args[1], known))
    [] Holds(env, head.name, "recursor") -> ReduceRecursor(env, head, args, known)
    [] head.name = "Quotient.lift" /\ Len(args) >= 6 ->
         ReduceLift(env, head, args, Whnf(env, args[6], known))
    [] OTHER -> Answer(ApplyArguments(head, args), known)

\* The head is in normal form.  One that became an application is not taken
\* apart again.
ReduceApplication(env, reduced, args) ==
  LET head == reduced.value IN
  CASE head.node = "Lambda" ->
         Whnf(env, ApplyArguments(Substitute(head.body, 0, args[1]), Tail(args)), reduced.known)
    [] head.node = "Constant" -> ReduceConstantHead(env, head, args, reduced.known)
    [] OTHER -> Answer(ApplyArguments(head, args), reduced.known)

\* The value of an accelerated operation on two ground arguments; the second is
\* looked at only when the first is ground.
Operation(env, op, args, known) ==
  WithAnswer(GroundValue(env, args[1], known), LAMBDA m, k :
    IF m = NotGround THEN Answer(NotGround, k)
    ELSE WithAnswer(GroundValue(env, args[2], k), LAMBDA n, after :
           Answer(IF n = NotGround THEN NotGround ELSE Evaluate(op, m, n), after)))

IsAccelerated(head, args) ==
  head.node = "Constant" /\ head.name \in AcceleratedOps /\ Len(args) >= 2

ReduceSpine(env, head, args, known) ==
  WithAnswer(IF IsAccelerated(head, args) THEN Operation(env, head.name, args, known)
             ELSE Answer(NotGround, known),
    LAMBDA n, k :
      IF n # NotGround THEN Whnf(env, ApplyArguments(NaturalLiteral(n), From(args, 3)), k)
      ELSE ReduceApplication(env, Whnf(env, head, k), args))

WeakHeadNormalForm(env, e, known) ==
  CASE e.node = "Constant" ->
         IF Holds(env, e.name, "definition") /\ env[e.name].opacity = "transparent"
         THEN Whnf(env, Unfolding(env, e), known) ELSE Answer(e, known)
    [] e.node = "Let" -> Whnf(env, Substitute(e.body, 0, e.value), known)
    [] e.node = "Application" -> ReduceSpine(env, SpineHead(e), SpineArguments(e), known)
    [] OTHER -> Answer(e, known)

\* A literal, zero, or a chain of successors over either, in any mixture.
GroundForm(env, r) ==
  CASE r.value.node = "NaturalLiteral" -> Answer(r.value.value, r.known)
    [] IsNumeral(env, r.value, Zero)   -> Answer(0, r.known)
    [] IsSuccessorOf(env, r.value)     ->
         WithAnswer(GroundValue(env, r.value.argument, r.known), LAMBDA n, k :
           Answer(IF n = NotGround THEN NotGround ELSE n + 1, k))
    [] OTHER                           -> Answer(NotGround, r.known)

GroundNaturalValue(env, e, known) ==
  CASE e.node = "NaturalLiteral" -> Answer(e.value, known)
    [] e.node \in {"BoundVariable", "FreeVariable"} -> Answer(NotGround, known)
    [] OTHER -> GroundForm(env, Whnf(env, e, known))

-----------------------------------------------------------------------------
(* isDefinitionallyEqual *)

\* A literal against a constructor form; what it is compared with decides.
IsConstructorForm(env, e) == IsNumeral(env, e, Zero) \/ IsSuccessorOf(env, e)

\* A fault: a successor is compared without being peeled.
LiteralAgainstUnpeeled(env, context, n, e, known) ==
  Answer(IsNumeral(env, e, Zero) /\ n = 0, known)

LiteralAgainst(env, context, n, e, known) ==
  IF IsSuccessorOf(env, e) /\ n > 0
  THEN IsDefEq(env, context, NaturalLiteral(n - 1), e.argument, known)
  ELSE Answer(IsNumeral(env, e, Zero) /\ n = 0, known)

\* Opens both sides with one variable of the left side's domain.
DefEqBinder(env, context, domain, l, r, known) ==
  LET x == OpeningName(context)
  IN  IsDefEq(env, Append(context, Assumed(x, domain, Internal)),
              OpenBinder(l, x, Internal), OpenBinder(r, x, Internal), known)

\* Two proofs of equal propositions are equal.  An error on the way means no.
ProofIrrelevant(env, context, a, b, known) ==
  IfTyped(Infer(env, context, a, known), LAMBDA type :
    IfTyped(Infer(env, context, type.value, type.known), LAMBDA sort :
      WithAnswer(Whnf(env, sort.value, sort.known), LAMBDA kind, k :
        IF kind # Sort(LevelConst(0)) THEN Answer(FALSE, k)
        ELSE IfTyped(Infer(env, context, b, k), LAMBDA other :
               IsDefEq(env, context, type.value, other.value, other.known)))))

Congruent(env, context, a, b, known) ==
  IF a.node # "Application" \/ b.node # "Application" THEN Answer(FALSE, known)
  ELSE AndThen(IsDefEq(env, context, a.function, b.function, known), LAMBDA k :
         IsDefEq(env, context, a.argument, b.argument, k))

Eta(env, context, a, b, known) ==
  LET domain  == IF a.node = "Lambda" THEN a.domain ELSE b.domain
      body(e) == IF e.node = "Lambda" THEN e.body
                 ELSE Application(Shift(e, 1, 0), BoundVariable(0))
  IN  IF "Lambda" \notin {a.node, b.node} THEN Answer(FALSE, known)
      ELSE DefEqBinder(env, context, domain, body(a), body(b), known)

\* Both sides in normal form.  Two leaves are equal only when structurally so.
\* The retry with an opaque head unfolded never happens: isHardOpaqueConstant
\* holds of every name.
DefEqReduced(env, context, a, b, known) ==
  LET literal(e) == e.node = "NaturalLiteral"
  IN  IF StructurallyEqual(a, b) THEN Answer(TRUE, known)
      ELSE CASE literal(a) /\ literal(b) -> Answer(FALSE, known)
             [] literal(a) /\ IsConstructorForm(env, b) ->
                  LiteralAgainst(env, context, a.value, b, known)
             [] literal(b) /\ IsConstructorForm(env, a) ->
                  LiteralAgainst(env, context, b.value, a, known)
             [] a.node = b.node /\ a.node \in {"Pi", "Lambda"} ->
                  AndThen(IsDefEq(env, context, a.domain, b.domain, known), LAMBDA k :
                    DefEqBinder(env, context, a.domain, Children(a)[2], Children(b)[2], k))
             [] OTHER -> OrElse(Congruent(env, context, a, b, known), LAMBDA k :
                           OrElse(Eta(env, context, a, b, k), LAMBDA n :
                             ProofIrrelevant(env, context, a, b, n)))

\* A yes is remembered, a no is not.
RememberEqual(answer, key) ==
  IF answer.value THEN [answer EXCEPT !.known.equals = @ \cup {key}] ELSE answer

DefEqWork(env, context, l, r, known) ==
  IF EqualKey(l, r) \in known.equals THEN Answer(TRUE, known)
  ELSE RememberEqual(
         IF StructurallyEqual(l, r) THEN Answer(TRUE, known)
         ELSE WithAnswer(Whnf(env, DeltaReduceLets(l, context), known), LAMBDA a, k :
                WithAnswer(Whnf(env, DeltaReduceLets(r, context), k), LAMBDA b, n :
                  DefEqReduced(env, context, a, b, n))),
         EqualKey(l, r))

IsDefinitionallyEqual(env, context, left, right, known) ==
  DefEqWork(env, context, DeltaReduceLets(left, context), DeltaReduceLets(right, context), known)

-----------------------------------------------------------------------------
(* inferType *)

\* The sort a type lives in, or an error.
KindOf(env, context, type, known) ==
  Typing(Infer(env, context, type, known), LAMBDA sort :
    WithAnswer(Whnf(env, sort.value, sort.known), LAMBDA kind, k :
      Answer(IF kind.node = "Sort" THEN kind ELSE TypeError, k)))

\* The term has a type equal to the expected one.
HasType(env, context, e, expected, known) ==
  IfTyped(Infer(env, context, e, known), LAMBDA type :
    IsDefEq(env, context, type.value, expected, type.known))

\* The body of a Pi or a Lambda, opened with x in the context.
InferUnder(env, inner, e, x, body, domain) ==
  IF e.node = "Pi"
  THEN Typing(KindOf(env, inner, body, domain.known), LAMBDA codomain :
         Answer(Sort(MakeIMax(domain.value.level, codomain.value.level)), codomain.known))
  ELSE Typing(Infer(env, inner, body, domain.known), LAMBDA type :
         Answer(Pi(e.displayHint, e.domain, CloseBinder(type.value, x, User)), type.known))

InferBinder(env, context, e, x, known) ==
  Typing(KindOf(env, context, e.domain, known), LAMBDA domain :
    InferUnder(env, Append(context, Assumed(x, e.domain, User)), e, x,
               OpenBinder(Children(e)[2], x, User), domain))

InferApplication(env, context, e, function) ==
  IF function.value.node # "Pi" THEN Answer(TypeError, function.known)
  ELSE Required(HasType(env, context, e.argument, function.value.domain, function.known),
         LAMBDA k : Answer(Substitute(function.value.codomain, 0, e.argument), k))

InferWork(env, context, e, known) ==
  CASE e.node = "BoundVariable" -> Answer(TypeError, known)
    [] e.node = "FreeVariable" ->
         LET entries == EntriesOf(context, e.name, e.origin)
         IN  IF entries = {} THEN Answer(TypeError, known)
             ELSE Answer(context[Latest(entries)].type, known)
    [] e.node = "Constant" ->
         IF \/ e.name \notin DOMAIN env
            \/ Len(env[e.name].universeParameters) # Len(e.universeArguments)
         THEN Answer(TypeError, known)
         ELSE Answer(SubstituteUniverseLevels(env[e.name].type,
                       env[e.name].universeParameters, e.universeArguments), known)
    [] e.node = "Sort" -> Answer(Sort(MakeSuccessor(e.level)), known)
    [] e.node \in {"Pi", "Lambda"} ->
         InferBinder(env, context, e, FreshName(e.displayHint, context), known)
    [] e.node = "Application" ->
         Typing(Infer(env, context, e.function, known), LAMBDA head :
           InferApplication(env, context, e, Whnf(env, head.value, head.known)))
    [] e.node = "Let" ->
         Typing(KindOf(env, context, e.type, known), LAMBDA kind :
           Required(HasType(env, context, e.value, e.type, kind.known), LAMBDA k :
             Infer(env, context, Substitute(e.body, 0, e.value), k)))
    [] e.node = "NaturalLiteral" ->
         Answer(IF "Natural" \in DOMAIN env THEN Constant("Natural", << >>) ELSE TypeError,
                known)

\* A type is remembered, an error is not.
RememberType(answer, key) ==
  [answer EXCEPT !.known.types = @ \cup {[key |-> key, type |-> answer.value]}]

InferType(env, context, e, known) ==
  LET hits == {t \in known.types : t.key = InferKey(context, e)}
  IN  IF hits # {} THEN Answer((CHOOSE t \in hits : TRUE).type, known)
      ELSE Typing(InferWork(env, context, e, known),
                  LAMBDA answer : RememberType(answer, InferKey(context, e)))

Kernel(env, q, known) ==
  CASE q.ask = "whnf"   -> WeakHeadNormalForm(env, q.term, known)
    [] q.ask = "ground" -> GroundNaturalValue(env, q.term, known)
    [] q.ask = "equal"  -> IsDefinitionallyEqual(env, q.context, q.left, q.right, known)
    [] q.ask = "type"   -> InferType(env, q.context, q.term, known)
=============================================================================
