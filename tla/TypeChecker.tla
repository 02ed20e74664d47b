---------------------------- MODULE TypeChecker -----------------------------
(***************************************************************************)
(* The kernel as its callers see it: a session of calls, each a question    *)
(* about types or equality or a declaration, over one environment and the   *)
(* tables that outlive a call (src/kernel/kernel.cpp).  Conversion says     *)
(* what a call computes; Declarations what a refused inductive leaves       *)
(* behind, which is not repeated here.                                     *)
(***************************************************************************)
EXTENDS Conversion

CONSTANTS
  Library,          \* the environment a session starts with
  Submissions,      \* the declarations it may make
  TypeQuestions,    \* [context, term]
  EqualQuestions,   \* [context, left, right]
  MaxCalls          \* bound on the calls of a session

\* A constructor shorter than the inductive's parameters is Declarations' case.
ASSUME SubmissionAssumption ==
  \A s \in Submissions : s.kind = "inductive" =>
    \A i \in DOMAIN s.constructors :
      Len(Telescope(s.constructors[i].type)) >= s.numParameters

VARIABLES
  environment,
  known,            \* inferTypeCache and isDefEqTrueCache
  call,             \* the last call and its answer (history)
  calls             \* how many there were

vars == <<environment, known, call, calls>>

Empty == [types |-> {}, equals |-> {}]
Idle  == [ask |-> "nothing"]

Declare(env, c, entry) == env @@ (c :> entry)

-----------------------------------------------------------------------------
(* addInductive, stage by stage.  Every stage sees another number of        *)
(* declarations, which empties the tables (ensureKernelCacheOwner).         *)

InductiveEntry(s) ==
  [kind |-> "inductive", type |-> s.type, universeParameters |-> s.universeParameters]

ConstructorEntry(s, i) ==
  [kind |-> "constructor", type |-> s.constructors[i].type,
   universeParameters |-> s.universeParameters,
   inductiveName |-> s.name, constructorIndex |-> i - 1]

\* The environment in which constructor n + 1 is checked.
RECURSIVE WithConstructors(_, _, _)
WithConstructors(env, s, n) ==
  IF n = 0 THEN Declare(env, s.name, InductiveEntry(s))
  ELSE Declare(WithConstructors(env, s, n - 1), s.constructors[n].name, ConstructorEntry(s, n))

TerminalSort(s) == Base(s.type)
LivesInProposition(s) == TerminalSort(s) = Sort(LevelConst(0))

KindIsLegal(s) ==
  TerminalSort(s).node = "Sort" /\ s.numParameters <= Len(Telescope(s.type))

\* A constructor's Pis, what they end in, and the sorts their domains live in.
FieldsOf(s, i) == OpenedPis(s.constructors[i].type, "universeCheckField_", 0)

FieldSort(env, fields, j) ==
  KindOf(env, [k \in 1..(j - 1) |-> Assumed(fields[k].freshName, fields[k].type, Internal)],
         fields[j].type, Empty).value

SortFits(sort, s) == sort # TypeError /\ LevelLessOrEqual(sort.level, TerminalSort(s).level)

FieldsFit(env, s, fields) ==
  \A j \in (s.numParameters + 1)..Len(fields) : SortFits(FieldSort(env, fields, j), s)

ConstructorIsLegal(env, s, i) ==
  LET constructor == s.constructors[i]
      conclusion  == SpineHead(Base(constructor.type))
  IN  /\ constructor.name \notin DOMAIN env
      /\ KindOf(env, << >>, constructor.type, Empty).value # TypeError
      /\ ConstructorIsPositive(constructor, s.name)
      /\ conclusion.node = "Constant" /\ conclusion.name = s.name
      /\ LivesInProposition(s) \/ FieldsFit(env, s, FieldsOf(s, i).binders)

\* A fault: the fields of the only constructor are not looked at.
IsSubsingletonByCount(env, s) == Len(s.constructors) = 1

\* One constructor whose own fields are proofs or, literally, indices.
FieldsAreProofsOrIndices(env, s, fields, end) ==
  LET indices == From(SpineArguments(end), s.numParameters + 1)
  IN  \A j \in (s.numParameters + 1)..Len(fields) :
        \/ FieldSort(env, fields, j) = Sort(LevelConst(0))
        \/ \E i \in DOMAIN indices : indices[i] = InternalVariable(fields[j].freshName)

IsSubsingleton(env, s) ==
  /\ Len(s.constructors) = 1
  /\ FieldsAreProofsOrIndices(env, s, FieldsOf(s, 1).binders, FieldsOf(s, 1).end)

AllowLargeElimination(env, s) ==
  ~LivesInProposition(s) \/ s.constructors = << >> \/ IsSubsingleton(env, s)

RECURSIVE UnusedLevel(_, _)
UnusedLevel(parameters, k) ==
  LET name == IF k = 0 THEN "motiveLevel" ELSE Numbered("motiveLevel_", k)
  IN  IF name \in ToSet(parameters) THEN UnusedLevel(parameters, k + 1) ELSE name

RecursorName(s) == s.name \o "_recursor"

RecursorOf(s, motiveLevel, parameters) ==
  [kind |-> "recursor", type |-> BuildRecursorType(s, motiveLevel),
   universeParameters |-> parameters \o s.universeParameters,
   inductiveName |-> s.name, numParameters |-> s.numParameters,
   numConstructors |-> Len(s.constructors),
   numIndices |-> Len(Telescope(s.type)) - s.numParameters]

RecursorEntry(env, s) ==
  LET level == UnusedLevel(s.universeParameters, 0)
      motiveLevels == IF AllowLargeElimination(env, s) THEN <<level>> ELSE << >>
  IN  RecursorOf(s, IF motiveLevels = << >> THEN LevelConst(0) ELSE LevelParam(level),
                 motiveLevels)

RecursorIsLegal(full, s) ==
  /\ RecursorName(s) \notin DOMAIN full
  /\ KindOf(full, << >>, RecursorEntry(full, s).type, Empty).value # TypeError

ConstructorsAreLegal(env, s) ==
  \A i \in DOMAIN s.constructors : ConstructorIsLegal(WithConstructors(env, s, i - 1), s, i)

AllConstructors(env, s) == WithConstructors(env, s, Len(s.constructors))

\* Its type, or an error.
CheckInductive(env, s) ==
  Typing(KindOf(env, << >>, s.type, Empty), LAMBDA kind :
    IF ~KindIsLegal(s) THEN Answer(TypeError, kind.known)
    ELSE Answer(IF ConstructorsAreLegal(env, s) /\ RecursorIsLegal(AllConstructors(env, s), s)
                THEN s.type ELSE TypeError, Empty))

WithInductive(env, s) ==
  Declare(AllConstructors(env, s), RecursorName(s), RecursorEntry(AllConstructors(env, s), s))

-----------------------------------------------------------------------------
Init ==
  /\ environment = Library
  /\ known = Empty
  /\ call = Idle
  /\ calls = 0

Counted == calls < MaxCalls /\ calls' = calls + 1

\* inferType
AskType(q) ==
  /\ Counted
  /\ LET r == Infer(environment, q.context, q.term, known)
     IN  /\ known' = r.known
         /\ call' = [ask |-> "type", question |-> q, answer |-> r.value]
  /\ UNCHANGED environment

\* isDefinitionallyEqual
AskEqual(q) ==
  /\ Counted
  /\ LET r == IsDefEq(environment, q.context, q.left, q.right, known)
     IN  /\ known' = r.known
         /\ call' = [ask |-> "equal", question |-> q, answer |-> r.value]
  /\ UNCHANGED environment

\* The tables are emptied before the check.  After a declaration that was added
\* they are again, by its count; after one refused they keep what was learnt.
Added(entries, s) ==
  /\ environment' = entries /\ known' = Empty
  /\ call' = [ask |-> "declare", question |-> s, answer |-> TRUE]
Refused(learnt, s) ==
  /\ known' = learnt /\ call' = [ask |-> "declare", question |-> s, answer |-> FALSE]
  /\ UNCHANGED environment

\* With the outcome of the check: a type, or an error.
Settled(s, outcome, entries) ==
  \/ outcome.value # TypeError /\ Added(entries, s)
  \/ outcome.value = TypeError /\ Refused(outcome.known, s)

AddAxiom(s) ==
  /\ s.kind = "axiom" /\ s.name \notin DOMAIN environment
  /\ Counted
  /\ Settled(s, KindOf(environment, << >>, s.type, Empty), Declare(environment, s.name, s))

CheckDefinition(env, s) ==
  Typing(KindOf(env, << >>, s.type, Empty), LAMBDA kind :
    Required(HasType(env, << >>, s.body, s.type, kind.known), LAMBDA k : Answer(s.type, k)))

AddDefinition(s) ==
  /\ s.kind = "definition" /\ s.name \notin DOMAIN environment
  /\ Counted
  /\ Settled(s, CheckDefinition(environment, s), Declare(environment, s.name, s))

AddInductive(s) ==
  /\ s.kind = "inductive" /\ s.name \notin DOMAIN environment
  /\ Counted
  /\ Settled(s, CheckInductive(environment, s), WithInductive(environment, s))

\* A name already declared is refused before anything else happens.
Redeclare(s) ==
  /\ s.name \in DOMAIN environment
  /\ Counted
  /\ Refused(known, s)

Next ==
  \/ \E q \in TypeQuestions : AskType(q)
  \/ \E q \in EqualQuestions : AskEqual(q)
  \/ \E s \in Submissions : AddAxiom(s) \/ AddDefinition(s) \/ AddInductive(s) \/ Redeclare(s)

Spec == Init /\ [][Next]_vars
=============================================================================
