------------------------------- MODULE Terms --------------------------------
(***************************************************************************)
(* Kernel terms in locally nameless form and the operations that move them  *)
(* under and out of binders (src/kernel/expression.hpp, kernel.cpp).        *)
(*                                                                         *)
(* A term is a record tagged by its variant.  Hash-consing and the fast     *)
(* paths that hand back a shared pointer are left out: they return an equal *)
(* term.  The shortcut by maxFreeBoundVariable is kept, because it is right *)
(* only as long as that field is.                                          *)
(***************************************************************************)
EXTENDS Levels, Sequences, SequencesExt

BoundVariable(i)          == [node |-> "BoundVariable", deBruijnIndex |-> i]
FreeVariable(x, o)        == [node |-> "FreeVariable", name |-> x, origin |-> o]
Sort(l)                   == [node |-> "Sort", level |-> l]
Pi(h, d, c)               == [node |-> "Pi", displayHint |-> h, domain |-> d, codomain |-> c]
Lambda(h, d, b)           == [node |-> "Lambda", displayHint |-> h, domain |-> d, body |-> b]
Application(f, a)         == [node |-> "Application", function |-> f, argument |-> a]
Constant(c, us)           == [node |-> "Constant", name |-> c, universeArguments |-> us]
Let(h, t, v, b)           == [node |-> "Let", displayHint |-> h, type |-> t, value |-> v, body |-> b]
NaturalLiteral(n)         == [node |-> "NaturalLiteral", value |-> n]

User     == "User"
Internal == "Internal"

\* A node's subterms, how many binders of the node each lies under, and the
\* node with other subterms.
Children(e) ==
  CASE e.node = "Pi"          -> <<e.domain, e.codomain>>
    [] e.node = "Lambda"      -> <<e.domain, e.body>>
    [] e.node = "Application" -> <<e.function, e.argument>>
    [] e.node = "Let"         -> <<e.type, e.value, e.body>>
    [] OTHER                  -> << >>

Binders(e) ==
  CASE e.node \in {"Pi", "Lambda"} -> <<0, 1>>
    [] e.node = "Application"      -> <<0, 0>>
    [] e.node = "Let"              -> <<0, 0, 1>>
    [] OTHER                       -> << >>

Rebuild(e, c) ==
  CASE e.node = "Pi"          -> Pi(e.displayHint, c[1], c[2])
    [] e.node = "Lambda"      -> Lambda(e.displayHint, c[1], c[2])
    [] e.node = "Application" -> Application(c[1], c[2])
    [] e.node = "Let"         -> Let(e.displayHint, c[1], c[2], c[3])
    [] OTHER                  -> e

\* A node over the images of its subterms.
MapChildren(e, F(_, _)) ==
  LET children == Children(e)
  IN  Rebuild(e, [i \in DOMAIN children |-> F(children[i], Binders(e)[i])])

\* The cached field: the largest index that leaves the term, or -1.
RECURSIVE MaxFreeBoundVariable(_)
MaxFreeBoundVariable(e) ==
  IF e.node = "BoundVariable" THEN e.deBruijnIndex
  ELSE Max({-1} \cup {MaxFreeBoundVariable(Children(e)[i]) - Binders(e)[i] :
                         i \in DOMAIN Children(e)})

RECURSIVE Shift(_, _, _)
Shift(e, amount, cutoff) ==
  IF MaxFreeBoundVariable(e) < cutoff THEN e
  ELSE IF e.node = "BoundVariable" THEN BoundVariable(e.deBruijnIndex + amount)
  ELSE MapChildren(e, LAMBDA c, under : Shift(c, amount, cutoff + under))

RECURSIVE Substitute(_, _, _)
Substitute(e, target, replacement) ==
  IF MaxFreeBoundVariable(e) < target THEN e
  ELSE IF e.node # "BoundVariable"
    THEN MapChildren(e, LAMBDA c, under :
           Substitute(c, target + under, Shift(replacement, under, 0)))
  ELSE IF e.deBruijnIndex = target THEN replacement
  ELSE BoundVariable(e.deBruijnIndex - 1)

OpenBinder(e, x, origin) == Substitute(e, 0, FreeVariable(x, origin))

RECURSIVE CloseAtDepth(_, _, _, _)
\* A fault: a name is bound again as if no binder lay between.
CloseAtDepthFlat(e, x, origin, depth) ==
  IF e.node = "FreeVariable" /\ e.name = x /\ e.origin = origin THEN BoundVariable(0)
  ELSE MapChildren(e, LAMBDA c, under : CloseAtDepth(c, x, origin, depth))

CloseAtDepth(e, x, origin, depth) ==
  CASE e.node = "BoundVariable" ->
         IF e.deBruijnIndex >= depth THEN BoundVariable(e.deBruijnIndex + 1) ELSE e
    [] e.node = "FreeVariable" ->
         IF e.name = x /\ e.origin = origin THEN BoundVariable(depth) ELSE e
    [] OTHER -> MapChildren(e, LAMBDA c, under : CloseAtDepth(c, x, origin, depth + under))

CloseBinder(e, x, origin) == CloseAtDepth(e, x, origin, 0)

\* structurallyEqual looks past displayHint: a term's shape is what it compares.
RECURSIVE Shape(_)
Shape(e) ==
  MapChildren(IF e.node \in {"Pi", "Lambda", "Let"} THEN [e EXCEPT !.displayHint = ""] ELSE e,
              LAMBDA c, under : Shape(c))

StructurallyEqual(l, r) == Shape(l) = Shape(r)

RECURSIVE SubstituteUniverseLevels(_, _, _)
SubstituteUniverseLevels(e, parameters, replacements) ==
  CASE e.node = "Sort" -> Sort(SubstituteOneLevel(e.level, parameters, replacements))
    [] e.node = "Constant" ->
         Constant(e.name, [i \in DOMAIN e.universeArguments |->
           SubstituteOneLevel(e.universeArguments[i], parameters, replacements)])
    [] OTHER -> MapChildren(e, LAMBDA c, under :
                  SubstituteUniverseLevels(c, parameters, replacements))

RECURSIVE SpineHead(_)
SpineHead(e) == IF e.node = "Application" THEN SpineHead(e.function) ELSE e

RECURSIVE SpineArguments(_)
SpineArguments(e) ==
  IF e.node = "Application" THEN Append(SpineArguments(e.function), e.argument) ELSE << >>

ApplyArguments(head, arguments) == FoldLeft(Application, head, arguments)

From(s, i) == SubSeq(s, i, Len(s))

RECURSIVE MentionsConstant(_, _)
MentionsConstant(e, c) ==
  \/ e.node = "Constant" /\ e.name = c
  \/ \E i \in DOMAIN Children(e) : MentionsConstant(Children(e)[i], c)

(***************************************************************************)
(* A context is a sequence of entries; an entry of a let-style binder also  *)
(* carries a value.  deltaReduceLetFreeVariables replaces each let-bound    *)
(* variable by its value in one walk; the values themselves are not walked. *)
(***************************************************************************)
Assumed(x, t, o)     == [name |-> x, type |-> t, origin |-> o, value |-> << >>]
Defined(x, t, v, o)  == [name |-> x, type |-> t, origin |-> o, value |-> <<v>>]

HasLetBinders(context) == \E i \in DOMAIN context : context[i].value # << >>

EntriesOf(context, x, origin) ==
  {i \in DOMAIN context : context[i].name = x /\ context[i].origin = origin}

Latest(S) == CHOOSE i \in S : \A j \in S : j <= i

RECURSIVE WalkLets(_, _, _)
WalkLets(e, context, depth) ==
  LET values == IF e.node # "FreeVariable" THEN {}
                ELSE {i \in EntriesOf(context, e.name, e.origin) : context[i].value # << >>}
  IN  IF values # {} THEN Shift(context[Latest(values)].value[1], depth, 0)
      ELSE MapChildren(e, LAMBDA c, under : WalkLets(c, context, depth + under))

DeltaReduceLets(e, context) ==
  IF HasLetBinders(context) THEN WalkLets(e, context, 0) ELSE e
=============================================================================
