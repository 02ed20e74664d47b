----------------------------- MODULE Inductives -----------------------------
(***************************************************************************)
(* What the kernel derives from an inductive declaration: the type of its   *)
(* recursor (buildCaseType, buildRecursorType), the right-hand side of its  *)
(* reduction rule (buildIotaReduction) and the strict-positivity test       *)
(* (src/kernel/kernel.cpp).                                                *)
(*                                                                         *)
(* The recursor's type and its reduction rule find the recursive arguments  *)
(* of a constructor independently of each other, one with the parameters    *)
(* as variables and one with their values substituted.                      *)
(***************************************************************************)
EXTENDS Terms, TLC

InternalVariable(x) == FreeVariable(x, Internal)
Numbered(prefix, i) == prefix \o ToString(i)

\* The domains of the Pis a type starts with, and what they end in.
RECURSIVE Telescope(_)
Telescope(t) == IF t.node = "Pi" THEN <<t.domain>> \o Telescope(t.codomain) ELSE << >>

RECURSIVE Base(_)
Base(t) == IF t.node = "Pi" THEN Base(t.codomain) ELSE t

\* The Pis of t opened with the names prefix0, prefix1, ...
WithBinder(binder, opened) == [opened EXCEPT !.binders = <<binder>> \o @]

RECURSIVE OpenedPis(_, _, _)
OpenedPis(t, prefix, i) ==
  IF t.node # "Pi" THEN [binders |-> << >>, end |-> t]
  ELSE WithBinder([freshName |-> Numbered(prefix, i), displayHint |-> t.displayHint,
                   type |-> t.domain],
                  OpenedPis(OpenBinder(t.codomain, Numbered(prefix, i), Internal), prefix, i + 1))

\* Binds the names again, the last one innermost.
PisOver(binders, body) ==
  FoldRight(LAMBDA b, t : Pi(b.displayHint, b.type, CloseBinder(t, b.freshName, Internal)),
            binders, body)

ApplyTo(head, binders) ==
  ApplyArguments(head, [i \in DOMAIN binders |-> InternalVariable(binders[i].freshName)])

-----------------------------------------------------------------------------
(* buildCaseType: the constructor's own arguments, then one hypothesis for  *)
(* each recursive one, then the motive at the constructor's indices.        *)

IsRecursive(base, inductive, arity) ==
  /\ SpineHead(base).node = "Constant"
  /\ SpineHead(base).name = inductive
  /\ Len(SpineArguments(base)) = arity

Under(argument) == OpenedPis(argument.type, argument.freshName \o "_under_", 0)

\* The motive at the indices of a type, and a term of it applied to its arguments.
MotiveAt(end, numParameters, maker, binders) ==
  Application(ApplyArguments(InternalVariable("motive"),
                             From(SpineArguments(end), numParameters + 1)),
              ApplyTo(maker, binders))

HypothesisOver(argument, under, numParameters) ==
  PisOver([i \in DOMAIN under.binders |->
             [under.binders[i] EXCEPT !.displayHint = "recursivePredecessor"]],
          MotiveAt(under.end, numParameters, InternalVariable(argument.freshName), under.binders))

HypothesisType(argument, numParameters) ==
  HypothesisOver(argument, Under(argument), numParameters)

CaseTypeOver(inductive, universes, binders, numParameters, constructor, own) ==
  LET parameters == SubSeq(binders, 1, numParameters)
      recursive  == SelectSeq(own.binders, LAMBDA b :
                      IsRecursive(Under(b).end, inductive, Len(binders)))
  IN  PisOver(own.binders,
        FoldRight(LAMBDA b, t : Pi("hypothesis_" \o b.displayHint,
                                   HypothesisType(b, numParameters), t),
                  recursive,
                  MotiveAt(own.end, numParameters,
                           ApplyTo(Constant(constructor.name, universes), parameters),
                           own.binders)))

BuildCaseType(inductive, universes, binders, numParameters, constructor) ==
  CaseTypeOver(inductive, universes, binders, numParameters, constructor,
    OpenedPis(FoldLeft(LAMBDA t, i : OpenBinder(t.codomain, binders[i].freshName, Internal),
                       constructor.type, [i \in 1..numParameters |-> i]),
              "ctorArg_", 0))

RecursorTypeOver(spec, motiveLevel, universes, binders) ==
  LET parameters == SubSeq(binders, 1, spec.numParameters)
      indices    == From(binders, spec.numParameters + 1)
      applied    == ApplyTo(Constant(spec.name, universes), binders)
      motive     == [freshName |-> "motive", displayHint |-> "motive",
                     type |-> PisOver(indices, Pi("_", applied, Sort(motiveLevel)))]
      target     == [freshName |-> "target", displayHint |-> "target", type |-> applied]
      cases      == [i \in DOMAIN spec.constructors |->
                       [freshName |-> "", displayHint |-> "case_" \o spec.constructors[i].name,
                        type |-> BuildCaseType(spec.name, universes, binders,
                                               spec.numParameters, spec.constructors[i])]]
  IN  PisOver(parameters \o <<motive>> \o cases \o indices \o <<target>>,
              ApplyTo(InternalVariable("motive"), indices \o <<target>>))

BuildRecursorType(spec, motiveLevel) ==
  RecursorTypeOver(spec, motiveLevel,
    [i \in DOMAIN spec.universeParameters |-> LevelParam(spec.universeParameters[i])],
    OpenedPis(spec.type, "indBinder_", 0).binders)

-----------------------------------------------------------------------------
(* buildIotaReduction: the case of the constructor, applied to its          *)
(* arguments and then to one recursive call for each recursive argument.    *)

\* The constructor's arguments with their types: as instantiated by the values
\* before them, and as written.
RECURSIVE Fields(_, _, _)
Fields(type, original, values) ==
  IF type.node # "Pi" THEN << >>
  ELSE <<[value |-> Head(values), type |-> type.domain, original |-> original.domain]>>
       \o Fields(Substitute(type.codomain, 0, Head(values)), original.codomain, Tail(values))

\* A fault: the argument's type is inspected after the parameters are put in.
FieldIsRecursiveInstantiated(field, inductive) ==
  LET head == SpineHead(Base(field.type))
  IN  head.node = "Constant" /\ head.name = inductive

\* Whether an argument is recursive is read off the type as written: a
\* parameter may itself be an instance of the inductive.
FieldIsRecursive(field, inductive) ==
  LET head == SpineHead(Base(field.original))
  IN  head.node = "Constant" /\ head.name = inductive

RecursiveCall(field, recursor, recursorArguments, numParameters, numConstructors) ==
  LET domains == Telescope(field.type)
      depth   == Len(domains)
      shared  == [i \in 1..(numParameters + 1 + numConstructors) |->
                    Shift(recursorArguments[i], depth, 0)]
      indices == From(SpineArguments(Base(field.type)), numParameters + 1)
      target  == ApplyArguments(Shift(field.value, depth, 0),
                                [b \in 1..depth |-> BoundVariable(depth - b)])
  IN  FoldRight(LAMBDA domain, call : Lambda("recursivePredecessor", domain, call),
                domains,
                Application(ApplyArguments(recursor, shared \o indices), target))

IotaOver(case, recursor, declaration, recursorArguments, fields) ==
  LET recursive == SelectSeq(fields,
                     LAMBDA f : FieldIsRecursive(f, declaration.inductiveName))
  IN  ApplyArguments(case,
        [i \in DOMAIN fields |-> fields[i].value] \o
        [i \in DOMAIN recursive |->
           RecursiveCall(recursive[i], recursor, recursorArguments,
                         declaration.numParameters, declaration.numConstructors)])

BuildIotaReduction(recursor, declaration, constructor, recursorArguments, constructorArguments) ==
  IotaOver(recursorArguments[declaration.numParameters + 2 + constructor.constructorIndex],
           recursor, declaration, recursorArguments,
           From(Fields(constructor.type, constructor.type, constructorArguments),
                declaration.numParameters + 1))

-----------------------------------------------------------------------------
RECURSIVE IsStrictlyPositive(_, _)
IsStrictlyPositive(t, inductive) ==
  \/ ~MentionsConstant(t, inductive)
  \/ /\ SpineHead(t).node = "Constant"
     /\ SpineHead(t).name = inductive
     /\ \A i \in DOMAIN SpineArguments(t) : ~MentionsConstant(SpineArguments(t)[i], inductive)
  \/ /\ t.node = "Pi"
     /\ ~MentionsConstant(t.domain, inductive)
     /\ IsStrictlyPositive(t.codomain, inductive)

ConstructorIsPositive(constructor, inductive) ==
  \A i \in DOMAIN Telescope(constructor.type) :
    IsStrictlyPositive(Telescope(constructor.type)[i], inductive)
=============================================================================
