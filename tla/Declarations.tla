---------------------------- MODULE Declarations ----------------------------
(***************************************************************************)
(* The kernel's environment and the three ways into it: addAxiom,           *)
(* addDefinition and addInductive (src/kernel/kernel.cpp).  An inductive    *)
(* is checked against an environment that already holds it, one constructor *)
(* after the other, and a failure takes back what was registered so far.    *)
(*                                                                         *)
(* A term is what it mentions.  Whether a well-scoped type checks is the    *)
(* choice of the step: either outcome is one some term has.  The memo       *)
(* tables appear as the declarations they may have used (KernelCaches has   *)
(* the rest).                                                              *)
(***************************************************************************)
EXTENDS Naturals, Sequences, FiniteSets

CONSTANTS
  Names,
  RecursorOf,   \* inductiveName + "_recursor"
  Requests,     \* the declarations an elaborator may submit
  NoRequest

\* A constructor as submitted: the constants in its type, the Pis it starts
\* with, the head of its conclusion, and what the positivity check says of it.
ConstructorSpecs ==
  [name : Names, mentions : SUBSET Names, binders : Nat, target : Names,
   positive : BOOLEAN]

Submissions ==
  [kind : {"axiom", "definition", "inductive"}, name : Names,
   mentions : SUBSET Names, parameters : Nat, constructors : Seq(ConstructorSpecs)]

ASSUME RequestAssumption ==
  /\ IsFiniteSet(Names)
  /\ RecursorOf \in [Names -> Names]
  /\ \A n \in Names : RecursorOf[n] # n
  /\ Requests \subseteq Submissions
  /\ NoRequest \notin Requests

\* What the environment holds: a kind, the constants mentioned, the inductive
\* a constructor or recursor belongs to, and an inductive's constructors.
Declared(kind, mentions, of, constructors) ==
  [kind |-> kind, mentions |-> mentions, of |-> of, constructors |-> constructors]
Kinds   == {"axiom", "definition", "inductive", "constructor", "recursor"}
Entries == [kind : Kinds, mentions : SUBSET Names, of : Names,
            constructors : SUBSET Names]
Absent  == [kind |-> "absent"]

VARIABLES
  declarations,
  request,      \* the declaration being checked
  phase,        \* where its check stands
  next,         \* the constructor it has come to
  before,       \* the environment when it was submitted (history)
  ownerSize,    \* kernelCacheOwnerSize
  basis,        \* the declarations the memo tables may rest on
  torn          \* a failed declaration left its mark (history)

tables == <<ownerSize, basis>>
vars   == <<declarations, request, phase, next, before, tables, torn>>

In(d)      == {n \in Names : d[n] # Absent}
InScope    == In(declarations)
Graph      == {<<n, declarations[n]>> : n \in InScope}

\* mutant: a name may be declared twice
Overwritable(name) == TRUE

Fresh(name) == name \notin InScope

\* mutant: constants are not looked up
Unscoped(mentions) == TRUE

Scoped(mentions) == mentions \subseteq InScope

ConstructorNames(r) == {r.constructors[i].name : i \in DOMAIN r.constructors}
NamesOf(r) ==
  {r.name} \cup (IF r.kind = "inductive"
                 THEN ConstructorNames(r) \cup {RecursorOf[r.name]} ELSE {})

-----------------------------------------------------------------------------
Init ==
  /\ declarations = [n \in Names |-> Absent]
  /\ request = NoRequest
  /\ phase = "idle"
  /\ next = 1
  /\ before = declarations
  /\ ownerSize = 0
  /\ basis = {}
  /\ torn = FALSE

\* mutant: the tables are told apart by address alone
SizeIgnored == TRUE

SizeMatches == ownerSize = Cardinality(InScope)

\* inferType, weakHeadNormalForm, isDefinitionallyEqual: the tables are first
\* made those of the environment as it is.
Consult ==
  /\ basis' = (IF SizeMatches THEN basis ELSE {}) \cup Graph
  /\ ownerSize' = Cardinality(InScope)

Declare(name, entry) == declarations' = [declarations EXCEPT ![name] = entry]

Finish ==
  /\ request' = NoRequest
  /\ phase' = "idle"
  /\ next' = 1
  /\ before' = declarations'

Succeed == Finish /\ UNCHANGED torn
Fail    == Finish /\ torn' = (torn \/ declarations' # before)

\* mutant: rollback forgets the constructors
RollbackInductiveOnly ==
  declarations' = [declarations EXCEPT ![request.name] = Absent]

\* The lambda `rollback` of addInductive.
Rollback ==
  declarations' = [n \in Names |-> IF n \in NamesOf(request)
                                   THEN Absent ELSE declarations[n]]

-----------------------------------------------------------------------------
\* The elaborator asks the kernel something between declarations.
Query ==
  /\ phase = "idle"
  /\ Consult
  /\ UNCHANGED <<declarations, request, phase, next, before, torn>>

\* The entry of an add...: a name already declared is refused with nothing
\* changed, otherwise KernelInstrumentationScope empties the tables.
Begin(r) ==
  /\ phase = "idle"
  /\ Fresh(r.name)
  /\ request' = r
  /\ phase' = "type"
  /\ before' = declarations
  /\ basis' = {}
  /\ UNCHANGED <<declarations, next, ownerSize, torn>>

\* The declared type, the body or the kind does not check.
TypeFails ==
  /\ phase = "type"
  /\ Consult
  /\ UNCHANGED declarations
  /\ Fail

\* addAxiom and addDefinition emplace once everything is checked.
AddChecked ==
  /\ phase = "type"
  /\ request.kind \in {"axiom", "definition"}
  /\ Scoped(request.mentions)
  /\ Consult
  /\ Declare(request.name,
             Declared(request.kind, request.mentions, request.name, {}))
  /\ Succeed

\* addInductive registers the inductive before its constructors are checked.
PreRegister ==
  /\ phase = "type"
  /\ request.kind = "inductive"
  /\ Scoped(request.mentions)
  /\ Consult
  /\ Declare(request.name, Declared("inductive", request.mentions, request.name,
                                    ConstructorNames(request)))
  /\ phase' = "constructor"
  /\ UNCHANGED <<request, next, before, torn>>

InConstructor == phase = "constructor" /\ next \in DOMAIN request.constructors
Current       == request.constructors[next]

AddConstructor ==
  /\ InConstructor
  /\ Fresh(Current.name)
  /\ Scoped(Current.mentions)
  /\ Current.positive
  /\ Current.target = request.name
  /\ Consult
  /\ Declare(Current.name, Declared("constructor", Current.mentions, request.name, {}))
  /\ next' = next + 1
  /\ UNCHANGED <<request, phase, before, torn>>

\* Its name is taken, or it is not a type, not positive, about something else,
\* or too large: everything the request names is erased.
ConstructorFails ==
  /\ InConstructor
  /\ \/ ~Fresh(Current.name) /\ UNCHANGED tables
     \/ Fresh(Current.name) /\ Consult
  /\ Rollback
  /\ Fail

\* mutant: the loop over the constructors ends one early
InRecursorEarly == phase = "constructor" /\ next = Len(request.constructors)

InRecursor == phase = "constructor" /\ next = Len(request.constructors) + 1
Recursor   == RecursorOf[request.name]
Buildable  == \A i \in DOMAIN request.constructors :
                request.constructors[i].binders >= request.parameters

\* The generated type mentions the inductive, what its kind and constructors
\* mention, and the constructors.
RecursorMentions ==
  {request.name} \cup request.mentions \cup ConstructorNames(request)
    \cup UNION {request.constructors[i].mentions : i \in DOMAIN request.constructors}

\* mutant: nobody asks whether the recursor's name is taken
AddRecursorAnyway ==
  /\ InRecursor
  /\ Buildable
  /\ Consult
  /\ Declare(Recursor, Declared("recursor", RecursorMentions, request.name, {}))
  /\ Succeed

AddRecursor ==
  /\ InRecursor
  /\ Fresh(Recursor)
  /\ Buildable
  /\ Consult
  /\ Declare(Recursor, Declared("recursor", RecursorMentions, request.name, {}))
  /\ Succeed

\* Its name is taken, or a field or the generated type does not check.
RecursorFails ==
  /\ InRecursor
  /\ \/ ~Fresh(Recursor) /\ UNCHANGED tables
     \/ Fresh(Recursor) /\ Consult
  /\ Rollback
  /\ Fail

\* buildRecursorType throws outside every try: a constructor has fewer binders
\* than the inductive has parameters, and nothing is taken back.
RecursorUnbuilt ==
  /\ InRecursor
  /\ Fresh(Recursor)
  /\ ~Buildable
  /\ UNCHANGED declarations
  /\ UNCHANGED tables \/ Consult
  /\ Fail

Next ==
  \/ Query
  \/ \E r \in Requests : Begin(r)
  \/ TypeFails \/ AddChecked \/ PreRegister
  \/ AddConstructor \/ ConstructorFails
  \/ AddRecursor \/ RecursorFails \/ RecursorUnbuilt

Spec == Init /\ [][Next]_vars

-----------------------------------------------------------------------------
(* Properties. *)

\* Every variable keeps its type, and a request is open exactly while its
\* check is under way.
TypeOK ==
  /\ declarations \in [Names -> Entries \cup {Absent}]
  /\ before \in [Names -> Entries \cup {Absent}]
  /\ request \in Requests \cup {NoRequest}
  /\ phase \in {"idle", "type", "constructor"}
  /\ (phase = "idle") = (request = NoRequest)
  /\ phase = "constructor" =>
       /\ request.kind = "inductive"
       /\ next \in 1..(Len(request.constructors) + 1)
  /\ phase # "constructor" => next = 1
  /\ ownerSize \in Nat
  /\ basis \subseteq Names \X Entries
  /\ torn \in BOOLEAN

\* Nothing in the environment refers to a name that is not in it, also while
\* an inductive is half registered: no rollback leaves a dangling constant.
Closed == ~torn => \A n \in InScope : declarations[n].mentions \subseteq InScope

\* Outside a declaration every inductive has all its constructors and its
\* recursor, and every constructor and recursor its inductive.
Complete ==
  ~torn /\ phase = "idle" =>
    \A n \in InScope :
      LET d == declarations[n]
      IN CASE d.kind = "inductive" ->
                /\ \A c \in d.constructors :
                     /\ c \in InScope
                     /\ declarations[c].kind = "constructor"
                     /\ declarations[c].of = n
                /\ RecursorOf[n] \in InScope
                /\ declarations[RecursorOf[n]].kind = "recursor"
           [] d.kind = "constructor" ->
                d.of \in InScope /\ n \in declarations[d.of].constructors
           [] d.kind = "recursor" -> d.of \in InScope /\ RecursorOf[d.of] = n
           [] OTHER -> TRUE

\* What d's declarations rest on.  An inductive, its constructors and its
\* recursor count as one.
DependsOn(d) ==
  {edge \in Names \X Names :
     \E n \in In(d) : \E k \in d[n].mentions \cap In(d) :
       edge = <<d[n].of, d[k].of>> /\ d[n].of # d[k].of}

\* Every set of declarations has one that rests on no other of the set.
Acyclic(d) ==
  LET edges == DependsOn(d)
  IN \A S \in SUBSET In(d) :
       S # {} => \E n \in S : \A m \in S : <<n, m>> \notin edges

\* No proof rests on itself: no set of declarations is such that each one
\* mentions another one of the set.
NoCircularity == ~torn => Acyclic(declarations)

\* Answers kept from before rest on declarations that are all still there and
\* the same, whenever the tables pass for this environment's: a rolled back
\* inductive is never what makes two terms equal.
TablesCurrent == ownerSize = Cardinality(InScope) => basis \subseteq Graph

\* A failed declaration leaves the environment as it found it, unless the
\* request names something already declared or a constructor too short for
\* the inductive's parameters.
FailureIsClean ==
  [][phase # "idle" /\ phase' = "idle" /\ torn' # torn =>
       \/ NamesOf(request) \cap In(before) # {}
       \/ ~Buildable]_vars

\* The environment as the callers of add... see it: a submission that is
\* still open has not changed it.
Published == {<<n, before[n]>> : n \in In(before)}

Atomic == INSTANCE AtomicEnvironment WITH
  environment <- Published, submitted <- request

\* addInductive "atomically adds: the inductive itself, each of its
\* constructors, and an automatically-generated recursor" (kernel.hpp): however
\* many steps a declaration takes, and wherever it fails, the environment goes
\* from what it was to what all of it adds, or to one of the three ends a
\* refusal has.
DeclaresAtomically == Atomic!Spec

\* addInductive "atomically adds" (kernel.hpp): "addInductive on failure
\* leaves the env unchanged (rollback)" (main.cpp).
AtomicallyAdds == ~torn
=============================================================================
