--------------------------- MODULE MCTypeChecker ----------------------------
(***************************************************************************)
(* Instances of TypeChecker and what a session's answers owe each other.    *)
(***************************************************************************)
EXTENDS TypeChecker

C(c)        == Constant(c, << >>)
BV(i)       == BoundVariable(i)
U(x)        == FreeVariable(x, User)
App(f, s)   == ApplyArguments(f, s)
Arrow(a, b) == Pi("_", a, Shift(b, 1, 0))
Prop        == Sort(LevelConst(0))
TypeZero    == Sort(LevelConst(1))
LevelU      == LevelParam("u")
LevelV      == LevelParam("v")

Axiom(c, t) == [kind |-> "axiom", name |-> c, universeParameters |-> << >>, type |-> t]
Definition(c, us, t, b, opacity) ==
  [kind |-> "definition", name |-> c, universeParameters |-> us, type |-> t, body |-> b,
   opacity |-> opacity]
Inductive(c, us, t, n, constructors) ==
  [kind |-> "inductive", name |-> c, universeParameters |-> us, type |-> t,
   numParameters |-> n, constructors |-> constructors]
Maker(c, t) == [name |-> c, type |-> t]

-----------------------------------------------------------------------------
(* The library: the raw naturals under a transparent alias, as inside an    *)
(* unfold, addition by recursion, a type, two propositions and proofs.      *)
Raw     == C("Natural.Raw")
Nat0    == C("Natural")
S(e)    == Application(C(Successor), e)
Naturals == Inductive("Natural.Raw", << >>, TypeZero, 0,
              <<Maker(Zero, Raw), Maker(Successor, Arrow(Raw, Raw))>>)

AddBody ==
  Lambda("n", Nat0, Lambda("m", Nat0,
    App(Constant("Natural.Raw_recursor", <<LevelConst(1)>>),
        <<Lambda("_", Raw, Nat0), BV(0), Lambda("k", Raw, Lambda("sum", Nat0, S(BV(0)))),
          BV(1)>>)))
Addition(opacity) ==
  Definition("Natural.add", << >>, Arrow(Nat0, Arrow(Nat0, Nat0)), AddBody, opacity)

RECURSIVE Declared(_, _)
Declared(env, ss) ==
  IF ss = << >> THEN env
  ELSE Declared(IF Head(ss).kind = "inductive" THEN WithInductive(env, Head(ss))
                ELSE Declare(env, Head(ss).name, Head(ss)), Tail(ss))

Nothing == [c \in {} |-> c]
BasicLibrary ==
  Declared(Nothing, <<Naturals, Definition("Natural", << >>, TypeZero, Raw, "transparent"),
    Addition("opaque"), Axiom("Point", TypeZero), Axiom("Point.a", C("Point")), Axiom("P", Prop), Axiom("Q", Prop),
    Axiom("p", C("P")), Axiom("q", C("Q"))>>)

-----------------------------------------------------------------------------
(* Declarations a session may make. *)
ListOf(l, a) == Application(Constant("List", <<l>>), a)
Lists ==
  LET type == Sort(LevelSuccessor(LevelU)) IN
  Inductive("List", <<"u">>, Pi("A", type, type), 1,
    <<Maker("nil", Pi("A", type, ListOf(LevelU, BV(0)))),
      Maker("cons", Pi("A", type, Pi("head", BV(0),
                      Pi("tail", ListOf(LevelU, BV(1)), ListOf(LevelU, BV(2))))))>>)
Equality ==
  LET Eq == Constant("Equality", <<LevelU>>) IN
  Inductive("Equality", <<"u">>, Pi("A", Sort(LevelU), Pi("a", BV(0), Pi("b", BV(1), Prop))), 2,
    <<Maker("refl", Pi("A", Sort(LevelU), Pi("a", BV(0), App(Eq, <<BV(1), BV(0), BV(0)>>))))>>)
Trees ==
  Inductive("Tree", << >>, TypeZero, 0,
    <<Maker("node", Arrow(Arrow(Raw, C("Tree")), C("Tree")))>>)
\* Polymorphic: a recursive argument under a binder, one at an index, and one
\* under a binder whose type is itself polymorphic.
Roses ==
  LET Rose(a) == Application(Constant("Rose", <<LevelU>>), a)
      type    == Sort(LevelSuccessor(LevelU)) IN
  Inductive("Rose", <<"u">>, Pi("A", type, type), 1,
    <<Maker("rose", Pi("A", type, Pi("petals", Pi("_", BV(0), Rose(BV(1))), Rose(BV(1)))))>>)
Vectors ==
  LET Vector(a, n) == App(Constant("Vector", <<LevelU>>), <<a, n>>)
      type         == Sort(LevelSuccessor(LevelU)) IN
  Inductive("Vector", <<"u">>, Pi("A", type, Pi("_", Raw, type)), 1,
    <<Maker("empty", Pi("A", type, Vector(BV(0), C(Zero)))),
      Maker("prepend", Pi("A", type, Pi("n", Raw, Pi("head", BV(1),
        Pi("tail", Vector(BV(2), BV(1)), Vector(BV(3), S(BV(2))))))))>>)
Towers ==
  LET Tower == Constant("Tower", <<LevelU>>) IN
  Inductive("Tower", <<"u">>, Sort(LevelSuccessor(LevelU)), 0,
    <<Maker("floor", Pi("below", Pi("_", Sort(LevelU), Tower), Tower))>>)
Either ==
  Inductive("Either", << >>, Prop, 0,
    <<Maker("left", Arrow(C("P"), C("Either"))), Maker("right", Arrow(C("Q"), C("Either")))>>)
Witness ==
  Inductive("Witness", << >>, Prop, 0, <<Maker("witness", Arrow(Raw, C("Witness")))>>)
Both ==
  Inductive("Both", << >>, Prop, 0,
    <<Maker("both", Arrow(C("P"), Arrow(C("Q"), C("Both"))))>>)
\* A field at max(u, v) in a type at u, and one a level too high.
Holder ==
  LET type == Sort(LevelMax(LevelU, LevelV)) IN
  Inductive("Holder", <<"u", "v">>, Pi("A", type, Sort(LevelSuccessor(LevelU))), 1,
    <<Maker("hold", Pi("A", type, Pi("a", BV(0),
        Application(Constant("Holder", <<LevelU, LevelV>>), BV(1)))))>>)
Pairs ==
  LET A == Sort(LevelSuccessor(LevelU))
      B == Sort(LevelSuccessor(LevelV)) IN
  Inductive("Pair", <<"u", "v">>,
    Pi("A", A, Pi("B", B, Sort(LevelSuccessor(LevelMax(LevelU, LevelV))))), 2,
    <<Maker("pair", Pi("A", A, Pi("B", B, Pi("a", BV(1), Pi("b", BV(1),
        App(Constant("Pair", <<LevelU, LevelV>>), <<BV(3), BV(2)>>))))))>>)
Universe ==
  Inductive("Universe", << >>, TypeZero, 0,
    <<Maker("code", Pi("A", TypeZero, C("Universe")))>>)

AllSubmissions ==
  {Lists, Equality, Trees, Roses, Vectors, Towers, Either, Witness, Both, Holder, Pairs, Universe}
  \cup {Axiom("Point", TypeZero), Axiom("r", C("p")),
        Definition("Natural.plus", << >>, Arrow(Nat0, Arrow(Nat0, Nat0)), AddBody, "transparent"),
        Definition("wrong", << >>, C("P"), C("q"), "transparent")}

-----------------------------------------------------------------------------
(* Contexts and questions. *)
Points == <<Assumed("x", C("Point"), User), Assumed("y", C("Point"), User)>>
Proofs == <<Assumed("x", C("P"), User), Assumed("y", C("P"), User)>>
Lets   == <<Defined("z", Nat0, NaturalLiteral(2), User), Defined("w", Nat0, S(U("z")), User)>>
Maps   == <<Assumed("f", Arrow(C("Point"), C("Point")), User)>>

Ask(context, e)        == [context |-> context, term |-> e]
Compare(context, l, r) == [context |-> context, left |-> l, right |-> r]

One        == <<LevelConst(1)>>
Refl(t, e) == App(Constant("refl", One), <<t, e>>)
Eq(t, l, r) == App(Constant("Equality", One), <<t, l, r>>)
PointLists == ListOf(LevelConst(0), C("Point"))
EmptyList(t)     == Application(Constant("nil", <<LevelConst(0)>>), t)
Prepend(t, h, l) == App(Constant("cons", <<LevelConst(0)>>), <<t, h, l>>)
\* The length of a list of lists, by recursion.
Length(l)  ==
  App(Constant("List_recursor", <<LevelConst(1), LevelConst(0)>>),
      <<PointLists, Lambda("_", ListOf(LevelConst(0), PointLists), Nat0), NaturalLiteral(0),
        Lambda("head", PointLists, Lambda("tail", ListOf(LevelConst(0), PointLists),
          Lambda("length", Nat0, S(BV(0))))), l>>)
OneEmptyList == Prepend(PointLists, EmptyList(C("Point")), EmptyList(PointLists))

SomeTypeQuestions ==
  {Ask(Points, U("x")), Ask(Proofs, U("x")), Ask(Points, U("w")),
   Ask(Points, Lambda("x", C("Point"), U("x"))),
   Ask(Points, Application(Lambda("x", C("Point"), Refl(C("Point"), U("x"))), U("y"))),
   Ask(Points, Application(Lambda("h", C("P"), U("x")), U("y"))),
   Ask(Points, Pi("z", C("Point"), Eq(C("Point"), BV(0), U("x")))),
   Ask(<< >>, Lambda("x", C("Point"), Let("z", C("Point"), BV(0), Refl(C("Point"), BV(1))))),
   Ask(Lets, Refl(Nat0, U("w"))),
   Ask(<< >>, Lambda("A", TypeZero, Lambda("a", BV(0), BV(0)))),
   Ask(<< >>, Lambda("A", TypeZero, Lambda("a", BV(0), Refl(BV(1), BV(0))))),
   Ask(<< >>, Lambda("l", ListOf(LevelConst(0), PointLists), Length(BV(0)))),
   Ask(<< >>, Length(OneEmptyList)),
   Ask(<< >>, Application(C("p"), C("q")))}

\* Closed natural terms and the numbers they stand for.
Numeral(e, n) == [term |-> e, means |-> n]
Numerals ==
  LET two == S(S(C(Zero))) IN
  {Numeral(NaturalLiteral(2), 2), Numeral(S(NaturalLiteral(1)), 2), Numeral(two, 2),
   Numeral(C(Zero), 0), Numeral(NaturalLiteral(1), 1), Numeral(S(NaturalLiteral(2)), 3),
   Numeral(App(C("Natural.add"), <<NaturalLiteral(1), S(C(Zero))>>), 2),
   Numeral(App(AddBody, <<two, NaturalLiteral(1)>>), 3)}
NumeralQuestions == {Compare(<< >>, m.term, n.term) : m, n \in Numerals}

\* One eliminator on two proofs of one proposition.
Decide(name, arguments) ==
  App(Constant(name, One), <<Lambda("_", arguments[1], Nat0)>> \o Tail(arguments))
CongruenceQuestions ==
  LET either == Decide("Either_recursor", <<C("Either"), Lambda("h", C("P"), NaturalLiteral(0)),
                                           Lambda("h", C("Q"), NaturalLiteral(1))>>)
      witness == Decide("Witness_recursor", <<C("Witness"), Lambda("n", Raw, BV(0))>>)
      both    == Decide("Both_recursor",
                   <<C("Both"), Lambda("h", C("P"), Lambda("k", C("Q"), NaturalLiteral(1)))>>)
      pair(h) == App(C("both"), <<h, C("q")>>)
  IN  {Compare(<< >>, Application(either, Application(C("left"), C("p"))),
                      Application(either, Application(C("right"), C("q")))),
       Compare(<< >>, Application(witness, Application(C("witness"), C(Zero))),
                      Application(witness, Application(C("witness"), S(C(Zero))))),
       Compare(<< >>, Application(both, pair(C("p"))),
                      Application(both, pair(Application(Lambda("h", C("P"), BV(0)), C("p")))))}

SomeEqualQuestions ==
  NumeralQuestions \cup CongruenceQuestions \cup
  {Compare(Points, U("x"), U("y")), Compare(Lets, U("w"), NaturalLiteral(3)),
   Compare(Maps, Lambda("k", C("Point"), Application(U("f"), BV(0))), U("f")),
   Compare(<<Assumed("h", C("P"), User)>>, U("h"), C("p")),
   Compare(<<Assumed("h", C("P"), User)>>, Lambda("k", C("Q"), U("h")), Lambda("k", C("Q"), C("p")))}

\* The same two names, once of points and once of proofs.
SharedNames == {Compare(Points, U("x"), U("y")), Compare(Proofs, U("x"), U("y"))}
NoQuestions   == {}
NoSubmissions == {}

-----------------------------------------------------------------------------
(* The answers a kernel without tables would give. *)
FreshType(q)  == Infer(environment, q.context, q.term, Empty).value
FreshEqual(q) == IsDefEq(environment, q.context, q.left, q.right, Empty).value
Equal(context, l, r) == IsDefEq(environment, context, l, r, Empty).value
Typed(context, e) == FreshType(Ask(context, e)) # TypeError

\* An answer does not depend on what was asked before: the tables of inferType
\* and isDefinitionallyEqual, their keys and their clearing are invisible, as
\* long as a session keeps a name for one type (compare SharedNames).
AnswersAreFresh ==
  /\ call.ask = "type"  => Shape(call.answer) = Shape(FreshType(call.question))
  /\ call.ask = "equal" => call.answer = FreshEqual(call.question)

\* "the keys themselves carry the context's relevant content": two equal calls
\* of isDefinitionallyEqual that differ in their contexts do not share an
\* answer unless each would give it.
KeysCarryTheContext ==
  call.ask = "equal" => call.answer = FreshEqual(call.question)

\* The kernel's own optional invariant, kind soundness: an inferred type is
\* itself well formed and lives in a sort.
TypesHaveSorts ==
  call.ask = "type" /\ call.answer # TypeError =>
    KindOf(environment, call.question.context, call.answer, Empty).value # TypeError

KeepsType(context, type, reduct) ==
  reduct # TypeError /\ Equal(context, reduct, type)

\* Weak-head reduction keeps a term's type, up to definitional equality: names
\* chosen for binders capture nothing and every substitution is in scope.
ReductionPreservesTypes ==
  call.ask = "type" /\ call.answer # TypeError =>
    KeepsType(call.question.context, call.answer,
      FreshType(Ask(call.question.context,
                    Whnf(environment, call.question.term, Empty).value)))

\* The parameters a recursor's rule is tried at.
Instances(inductive) ==
  CASE inductive = "Tower"    -> {[levels |-> <<LevelConst(0)>>, parameters |-> << >>]}
    [] inductive \in {"Rose", "Vector"} ->
                                 {[levels |-> <<LevelConst(0)>>, parameters |-> <<C("Point")>>]}
    [] inductive = "List"     -> {[levels |-> <<LevelConst(0)>>, parameters |-> <<C("Point")>>],
                                  [levels |-> <<LevelConst(0)>>, parameters |-> <<PointLists>>]}
    [] inductive = "Equality" -> {[levels |-> One, parameters |-> <<C("Point"), C("Point.a")>>]}
    [] inductive = "Pair"     -> {[levels |-> <<LevelConst(0), LevelConst(0)>>,
                                   parameters |-> <<C("Point"), Raw>>]}
    [] OTHER                  -> {[levels |-> << >>, parameters |-> << >>]}

Instantiated(type, parameters) ==
  FoldLeft(LAMBDA t, e : Substitute(t.codomain, 0, e), type, parameters)

\* The recursor's rule for one constructor, its motive, cases (bound) and the
\* constructor's arguments (made) being variables.
InContext(binders) ==
  [i \in DOMAIN binders |-> Assumed(binders[i].freshName, binders[i].type, Internal)]

RuleOver(r, c, at, levels, bound, made) ==
  [context |-> InContext(bound \o made.binders),
   term |-> App(ApplyTo(App(Constant(r, levels), at.parameters), bound),
                Append(From(SpineArguments(made.end), environment[r].numParameters + 1),
                       ApplyTo(App(Constant(c, at.levels), at.parameters), made.binders)))]

OpenedAt(entry, at, levels, prefix) ==
  OpenedPis(Instantiated(
    SubstituteUniverseLevels(entry.type, entry.universeParameters, levels), at.parameters),
    prefix, 0)

IotaRule(r, c, at) ==
  LET recursor == environment[r]
      levels   == [i \in 1..(Len(recursor.universeParameters) - Len(at.levels)) |-> LevelConst(1)]
                  \o at.levels
  IN  RuleOver(r, c, at, levels,
               SubSeq(OpenedAt(recursor, at, levels, "r").binders, 1, 1 + recursor.numConstructors),
               OpenedAt(environment[c], at, at.levels, "f"))

RuleKeepsType(rule, type, reduct) ==
  /\ reduct # rule.term
  /\ type # TypeError
  /\ KeepsType(rule.context, type, FreshType(Ask(rule.context, reduct)))

RuleIsSound(rule) ==
  RuleKeepsType(rule, FreshType(rule), Whnf(environment, rule.term, Empty).value)

RulesKeepType(Covered(_, _, _)) ==
  \A r, c \in DOMAIN environment :
    /\ environment[r].kind = "recursor" /\ environment[c].kind = "constructor"
    /\ environment[c].inductiveName = environment[r].inductiveName
    => \A at \in Instances(environment[r].inductiveName) :
         Covered(r, c, at) => RuleIsSound(IotaRule(r, c, at))

\* What buildIotaReduction copies from the type of a recursive argument into
\* the reduct: the types it binds and the indices it ends at.
Copied(type, numParameters) ==
  ToSet(Telescope(type)) \cup ToSet(From(SpineArguments(Base(type)), numParameters + 1))

CopiesNoLevel(r, c, at) ==
  LET constructor == environment[c] IN
  \A domain \in ToSet(Telescope(constructor.type)) :
    MentionsConstant(domain, constructor.inductiveName) =>
      \A t \in Copied(domain, environment[r].numParameters) :
        SubstituteUniverseLevels(t, constructor.universeParameters, at.levels) = t

\* Every recursor the kernel derives computes at every constructor, and its
\* rule keeps types, unless it copies a level parameter, which then keeps the
\* declaration's value (Towers): buildRecursorType and
\* buildIotaReduction agree on which arguments are recursive, also when a
\* parameter is an instance of the inductive itself, and on the binders and
\* indices of their hypotheses.
LevelFreeIotaPreservesTypes ==
  call.ask = "declare" /\ call.answer => RulesKeepType(CopiesNoLevel)

\* Assignments of small naturals to the level parameters.
Assignments == [{"u", "v"} -> 0..2]

SortFitsAt(sort, level) ==
  \A at \in Assignments : LevelValue(sort.level, at) <= LevelValue(level, at)

\* Universe containment, read at every assignment of levels: no accepted
\* data type is smaller than one of its fields, whatever order of rules
\* levelLessOrEqual tried.
FieldsFitTheirUniverse ==
  call.ask = "declare" /\ call.answer /\ call.question.kind = "inductive" =>
    LET s == call.question IN
    LivesInProposition(s) \/ \A i \in DOMAIN s.constructors :
      \A j \in (s.numParameters + 1)..Len(Telescope(s.constructors[i].type)) :
        SortFitsAt(FieldSort(environment, FieldsOf(s, i).binders, j), TerminalSort(s).level)

\* No function tells apart two proofs the kernel holds equal: if f applies to
\* two closed constructor forms that are definitionally equal, so are the
\* results.  This is what restricting elimination out of Proposition is for.
EqualProofsAgree ==
  call.ask = "equal" /\ call.question \in CongruenceQuestions =>
    LET q == call.question IN
    /\ Typed(<< >>, q.left) /\ Typed(<< >>, q.right)
    /\ Equal(<< >>, q.left.argument, q.right.argument)
    => call.answer

\* Literals, constructor chains, the accelerated operations and recursion are
\* one notation: two closed terms are equal exactly when they stand for the
\* same number.
NumeralsAgree ==
  call.ask = "equal" =>
    \A m, n \in Numerals :
      call.question = Compare(<< >>, m.term, n.term) => (call.answer <=> m.means = n.means)
=============================================================================
