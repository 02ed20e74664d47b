----------------------------- MODULE Registries -----------------------------
(***************************************************************************)
(* The registries of the elaborator: which function an operator dispatches   *)
(* to on a carrier, which chain of functions reads one type as another,      *)
(* which term is the canonical instance or bundle of a structure, which      *)
(* operations fold.  Statements of a module fill them, the module's cache     *)
(* records what it added, and a later process loads the caches of the         *)
(* modules it imports, with theirs, one after another.                      *)
(*                                                                         *)
(* A module is verified once, in any order make allows; its imports and its   *)
(* statements are any its text may hold.  A statement that is refused ends    *)
(* the process, and nothing is written: the module may be tried again.       *)
(***************************************************************************)
EXTENDS Naturals, Sequences, FiniteSets

CONSTANTS
  Modules, NoModule, NoCache,
  Types,       \* type heads, the keys of coercions
  Names,       \* what statements register: functions, witnesses, instances
  Structures,  \* structure classes, with the carrier the key of an instance
  Aliases,     \* overloaded names
  Home,        \* the module that declares a name
  Heads,       \* the pairs of heads a name's type allows a coercion between
  Operands,    \* the carriers whose operator may dispatch to a name
  Certifies,   \* the operation a name proves to be a monoid's, or NoName
  Shape,       \* what an `instance` of the name registers
  KeyOf,       \* ... and under which structure and carrier
  NoName,
  Text,        \* the statements a module's source may hold
  MaxStatements, \* bound: statements in a module
  MaxImports     \* bound: imports of a module

Shapes == {"bundle", "predicate", "forgetful", "none"}

Statements ==
  [kind : {"coercion"}, from : Types, to : Types, name : Names]
  \cup [kind : {"operator", "fold"}, on : Types, name : Names]
  \cup [kind : {"instance"}, name : Names]
  \cup [kind : {"overload"}, alias : Aliases, name : Names]

ASSUME RegistryAssumption ==
  /\ NoModule \notin Modules
  /\ NoName \notin Names
  /\ Home \in [Names -> Modules]
  /\ Heads \in [Names -> SUBSET (Types \X Types)]
  /\ Operands \in [Names -> SUBSET Types]
  /\ Certifies \in [Names -> Names \cup {NoName}]
  /\ Shape \in [Names -> Shapes]
  /\ KeyOf \in [Names -> Structures \X Types]
  /\ Text \in [Modules -> SUBSET Statements]
  /\ MaxStatements \in Nat /\ MaxImports \in Nat

VARIABLES
  caches,    \* what each verified module's cache records
  running,   \* the module being verified
  imports,   \* its imports, in order
  stack,     \* the calls of loadCacheRecursive under way
  loaded,    \* alreadyLoaded
  env,       \* the registries of the process's Environment
  before,    \* their snapshot, taken when everything is loaded
  statements,\* statements elaborated so far
  ended      \* what a verified module's process ended with (history)

process == <<running, imports, stack, loaded, env, before, statements>>
vars    == <<caches, process, ended>>

\* The entries of g, and those of f wherever f has one.
Over(f, g) ==
  [k \in DOMAIN f \cup DOMAIN g |-> IF k \in DOMAIN f THEN f[k] ELSE g[k]]

Without(f, D) == [k \in DOMAIN f \ D |-> f[k]]

Empty == [k \in {} |-> NoName]

NoRegistries ==
  [coercions |-> Empty, operators |-> Empty, folds |-> Empty,
   instances |-> Empty, bundles |-> Empty,
   forgetful |-> Empty, overloads |-> Empty]

Init ==
  /\ caches = [m \in Modules |-> NoCache]
  /\ running = NoModule
  /\ imports = <<>> /\ stack = <<>> /\ loaded = {}
  /\ env = NoRegistries /\ before = NoRegistries
  /\ statements = 0
  /\ ended = [m \in Modules |-> [registries |-> NoRegistries, with |-> {}]]

-----------------------------------------------------------------------------
(* Loading: the caches of the imports, and of what they import, each once     *)
(* and each after those it depends on.                                      *)

Verified == {m \in Modules : caches[m] # NoCache}

ImportLists ==
  {s \in UNION {[1..n -> Verified] : n \in 0..MaxImports} :
     \A i, j \in DOMAIN s : s[i] = s[j] => i = j}

Frame(m, list) == [of |-> m, left |-> list]

Begin(m, list) ==
  /\ running = NoModule
  /\ m \notin Verified
  /\ running' = m
  /\ imports' = list
  /\ stack' = <<Frame(m, list)>>
  /\ UNCHANGED <<caches, loaded, env, before, statements, ended>>

Top  == stack[Len(stack)]
Rest == SubSeq(stack, 1, Len(stack) - 1)
Dropped == Append(Rest, [Top EXCEPT !.left = Tail(@)])

LoadAgain ==
  /\ stack # <<>> /\ Top.left # <<>>
  /\ Head(Top.left) \in loaded
  /\ stack' = Dropped
  /\ UNCHANGED <<caches, running, imports, loaded, env, before, statements, ended>>

LoadCache ==
  /\ stack # <<>> /\ Top.left # <<>>
  /\ Head(Top.left) \notin loaded
  /\ stack' = Append(Dropped, Frame(Head(Top.left), caches[Head(Top.left)].imports))
  /\ UNCHANGED <<caches, running, imports, loaded, env, before, statements, ended>>

\* Those of a list that another does not have, in their order.
Unseen(list, seen) ==
  LET taken[i \in 0..Len(list)] ==
        IF i = 0 THEN <<>>
        ELSE IF \E j \in DOMAIN seen : seen[j] = list[i] THEN taken[i - 1]
        ELSE Append(taken[i - 1], list[i])
  IN taken[Len(list)]

At(f, k) == IF k \in DOMAIN f THEN f[k] ELSE <<>>

\* Candidates an alias or a structure has already are not added again.
Joined(f, g) ==
  [k \in DOMAIN f \cup DOMAIN g |-> At(f, k) \o Unseen(At(g, k), At(f, k))]

Chained(f, g) == [k \in DOMAIN f \cup DOMAIN g |-> At(f, k) \o At(g, k)]

\* What loading a cache does to the registries: keys are overwritten.
Loaded(e, d) ==
  [coercions |-> Over(d.coercions, e.coercions),
   operators |-> Over(d.operators, e.operators),
   folds     |-> Over(d.folds, e.folds),
   instances |-> Over(d.instances, e.instances),
   bundles   |-> Over(d.bundles, e.bundles),
   forgetful |-> Chained(e.forgetful, d.forgetful),
   overloads |-> Joined(e.overloads, d.overloads)]

Register ==
  /\ Len(stack) > 1 /\ Top.left = <<>>
  /\ env' = Loaded(env, caches[Top.of].delta)
  /\ loaded' = loaded \cup {Top.of}
  /\ stack' = Rest
  /\ UNCHANGED <<caches, running, imports, before, statements, ended>>

StartStatements ==
  /\ Len(stack) = 1 /\ Top.left = <<>>
  /\ stack' = <<>>
  /\ before' = env
  /\ UNCHANGED <<caches, running, imports, loaded, env, statements, ended>>

-----------------------------------------------------------------------------
(* Statements. *)

InScope(n) == Home[n] \in loaded \cup {running}

\* mutant: the new edge goes before the chain that leads to it
ExtendedBackwards(c, s) ==
  LET from == {s.from} \cup {X \in Types : <<X, s.from>> \in DOMAIN c /\ X # s.to}
      to   == {s.to} \cup {Y \in Types : <<s.to, Y>> \in DOMAIN c}
      keys == {k \in from \X to : k[1] # k[2]}
  IN [k \in keys |-> <<s.name>> \o At(c, <<k[1], s.from>>) \o At(c, <<s.to, k[2]>>)]

\* mutant: only one side of the new edge is extended
ExtendedOneSide(c, s) ==
  LET keys == {<<s.from, s.to>>}
              \cup {<<X, s.to>> : X \in {Z \in Types : <<Z, s.from>> \in DOMAIN c /\ Z # s.to}}
  IN [k \in keys |-> Append(At(c, <<k[1], s.from>>), s.name)]

\* The new edge, and it between every chain that leads to its source and every
\* chain that leads on from its target.
Extended(c, s) ==
  LET from == {s.from} \cup {X \in Types : <<X, s.from>> \in DOMAIN c /\ X # s.to}
      to   == {s.to} \cup {Y \in Types : <<s.to, Y>> \in DOMAIN c}
      keys == {k \in from \X to : k[1] # k[2]}
  IN [k \in keys |-> At(c, <<k[1], s.from>>) \o <<s.name>> \o At(c, <<s.to, k[2]>>)]

Diamond(c, additions) ==
  \E k \in DOMAIN additions \cap DOMAIN c : additions[k] # c[k]

\* One name for a key: the same again is accepted, another is ambiguous.
Free(registry, key, n) == key \in DOMAIN registry => registry[key] = n

Put(registry, key, n) == Over([k \in {key} |-> n], registry)

CoercionFits(s) ==
  /\ s.from # s.to /\ <<s.from, s.to>> \in Heads[s.name]
  /\ ~Diamond(env.coercions, Extended(env.coercions, s))

OperatorFits(s) == s.on \in Operands[s.name] /\ Free(env.operators, s.on, s.name)

\* mutant: the witness is not compared with what the operator dispatches to
FoldFitsUnchecked(s) ==
  /\ Certifies[s.name] # NoName /\ s.on \in Operands[Certifies[s.name]]
  /\ s.on \in DOMAIN env.operators
  /\ Free(env.folds, s.on, s.name)

\* The operator must be there, and dispatch to what the witness is about.
FoldFits(s) ==
  /\ Certifies[s.name] # NoName /\ s.on \in Operands[Certifies[s.name]]
  /\ s.on \in DOMAIN env.operators
  /\ env.operators[s.on] = Certifies[s.name]
  /\ Free(env.folds, s.on, s.name)

InstanceFits(s) ==
  \/ Shape[s.name] = "bundle" /\ Free(env.bundles, KeyOf[s.name], s.name)
  \/ Shape[s.name] = "predicate" /\ Free(env.instances, KeyOf[s.name], s.name)
  \/ Shape[s.name] = "forgetful"

Fits(s) ==
  /\ InScope(s.name)
  /\ \/ s.kind = "coercion" /\ CoercionFits(s)
     \/ s.kind = "operator" /\ OperatorFits(s)
     \/ s.kind = "fold" /\ FoldFits(s)
     \/ s.kind = "instance" /\ InstanceFits(s)
     \/ s.kind = "overload"

Listed(lists, key, n) ==
  Over([k \in {key} |-> At(lists, key) \o Unseen(<<n>>, At(lists, key))], lists)

WithInstance(n) ==
  CASE Shape[n] = "bundle"    -> [env EXCEPT !.bundles = Put(@, KeyOf[n], n)]
    [] Shape[n] = "predicate" -> [env EXCEPT !.instances = Put(@, KeyOf[n], n)]
    [] OTHER -> [env EXCEPT !.forgetful = Listed(@, KeyOf[n][1], n)]

With(s) ==
  CASE s.kind = "coercion" -> [env EXCEPT !.coercions = Over(Extended(@, s), @)]
    [] s.kind = "operator" -> [env EXCEPT !.operators = Put(@, s.on, s.name)]
    [] s.kind = "fold"     -> [env EXCEPT !.folds = Put(@, s.on, s.name)]
    [] s.kind = "instance" -> WithInstance(s.name)
    [] OTHER -> [env EXCEPT !.overloads = Listed(@, s.alias, s.name)]

AtStatements == running # NoModule /\ stack = <<>>

Statement(s) ==
  /\ AtStatements /\ statements < MaxStatements
  /\ Fits(s)
  /\ env' = With(s)
  /\ statements' = statements + 1
  /\ UNCHANGED <<caches, running, imports, stack, loaded, before, ended>>

ProcessEnds ==
  /\ running' = NoModule
  /\ imports' = <<>> /\ loaded' = {} /\ stack' = <<>>
  /\ env' = NoRegistries /\ before' = NoRegistries
  /\ statements' = 0

\* A statement throws: the module does not verify.
Refuse(s) ==
  /\ AtStatements /\ statements < MaxStatements
  /\ ~Fits(s)
  /\ ProcessEnds
  /\ UNCHANGED <<caches, ended>>

Remaining(f, g) ==
  LET kept == [k \in DOMAIN f |-> Unseen(f[k], At(g, k))]
  IN [k \in {j \in DOMAIN f : kept[j] # <<>>} |-> kept[k]]

\* mutant: of the coercions only the declared edges are recorded
DirectDelta(e, b) ==
  [coercions |-> LET new == Without(e.coercions, DOMAIN b.coercions)
                 IN [k \in {j \in DOMAIN new : Len(new[j]) = 1} |-> new[k]],
   operators |-> Without(e.operators, DOMAIN b.operators),
   folds     |-> Without(e.folds, DOMAIN b.folds),
   instances |-> Without(e.instances, DOMAIN b.instances),
   bundles   |-> Without(e.bundles, DOMAIN b.bundles),
   forgetful |-> Remaining(e.forgetful, b.forgetful),
   overloads |-> Remaining(e.overloads, b.overloads)]

\* What the cache records: the entries under keys the snapshot does not have.
Delta(e, b) ==
  [coercions |-> Without(e.coercions, DOMAIN b.coercions),
   operators |-> Without(e.operators, DOMAIN b.operators),
   folds     |-> Without(e.folds, DOMAIN b.folds),
   instances |-> Without(e.instances, DOMAIN b.instances),
   bundles   |-> Without(e.bundles, DOMAIN b.bundles),
   forgetful |-> Remaining(e.forgetful, b.forgetful),
   overloads |-> Remaining(e.overloads, b.overloads)]

WriteCache ==
  /\ AtStatements
  /\ caches' = [caches EXCEPT ![running] =
                  [imports |-> imports, delta |-> Delta(env, before)]]
  /\ ended' = [ended EXCEPT ![running] = [registries |-> env, with |-> loaded]]
  /\ ProcessEnds

Next ==
  \/ \E m \in Modules, list \in ImportLists : Begin(m, list)
  \/ LoadAgain \/ LoadCache \/ Register \/ StartStatements
  \/ running # NoModule /\ \E s \in Text[running] : Statement(s) \/ Refuse(s)
  \/ WriteCache

Spec == Init /\ [][Next]_vars

-----------------------------------------------------------------------------
(* What the elaborator reads. *)

Reach(a, b) == a = b \/ <<a, b>> \in DOMAIN env.coercions

Above(a, b) == {t \in Types : Reach(a, t) /\ Reach(b, t)}

\* mutant: of the types above both, the widest
CommonWidest(a, b) ==
  LET widest == {t \in Above(a, b) : \A u \in Above(a, b) : Reach(u, t)}
  IN CASE Reach(a, b) -> b
       [] ~Reach(a, b) /\ Reach(b, a) -> a
       [] ~Reach(a, b) /\ ~Reach(b, a) ->
            IF Cardinality(widest) = 1 THEN CHOOSE t \in widest : TRUE ELSE NoName

\* The carrier a binary operator runs at (combineOperands): one operand's when the
\* other reaches it, else the least of the types above both, if there is one.
Common(a, b) ==
  LET least == {t \in Above(a, b) : \A u \in Above(a, b) : Reach(t, u)}
  IN CASE Reach(a, b) -> b
       [] ~Reach(a, b) /\ Reach(b, a) -> a
       [] ~Reach(a, b) /\ ~Reach(b, a) ->
            IF Cardinality(least) = 1 THEN CHOOSE t \in least : TRUE ELSE NoName

-----------------------------------------------------------------------------
(* Properties. *)

\* A chain leads from the one type to the other by functions whose types allow it.
Leads(chain, X, Y) ==
  \E path \in [0..Len(chain) -> Types] :
    /\ path[0] = X /\ path[Len(chain)] = Y
    /\ \A i \in 1..Len(chain) : <<path[i - 1], path[i]>> \in Heads[chain[i]]

\* Whatever was composed, overwritten or loaded, the chain found under two types
\* reads a term of the one as a term of the other (statements.cpp 630-674,
\* main.cpp 4917-4921): the elaborator applies it without another look.
ChainsLead ==
  \A k \in DOMAIN env.coercions : Leads(env.coercions[k], k[1], k[2])

\* Loading the cache of a module, and what it imports, gives exactly the registries
\* the module's own process ended with: the differences the caches record
\* (main.cpp 5395-5517) and their order of loading lose nothing (main.cpp
\* 4809-4976).
CachesReplay ==
  (AtStatements /\ statements = 0 /\ Len(imports) = 1) => env = ended[imports[1]].registries

\* The modules loaded, and the one running, form a line: of any two one was
\* verified with the other loaded.
Line ==
  \A m, n \in loaded : m \in ended[n].with \/ n \in ended[m].with \/ m = n

\* The registry is transitively closed (statements.cpp 625-674, relied on at 877)
\* when the modules loaded form a line.  Modules registering A to B and B to C
\* without each other leave no chain from A to C in a module that imports both.
LinesAreClosed ==
  (AtStatements /\ Line) =>
    \A j, k \in DOMAIN env.coercions :
      (j[2] = k[1] /\ j[1] # k[2]) => <<j[1], k[2]>> \in DOMAIN env.coercions

\* On such a line a fold operation is the operator of its carrier still, whatever
\* was declared after it (statements.cpp 389-408).
FoldsAgree ==
  (AtStatements /\ Line) =>
    \A t \in DOMAIN env.folds :
      t \in DOMAIN env.operators /\ env.operators[t] = Certifies[env.folds[t]]

OneWay == \A k \in DOMAIN env.coercions : <<k[2], k[1]>> \notin DOMAIN env.coercions

\* On such a line, with no two types that read as each other, the carrier of a sum
\* of three does not depend on how it is bracketed (combineOperands,
\* statements.cpp 865-931).
JoinsAssociate ==
  (AtStatements /\ Line /\ OneWay) =>
    \A a, b, c \in Types :
      LET left == Common(a, b)  right == Common(b, c)
      IN (left # NoName /\ right # NoName) =>
           LET one == Common(left, c)  two == Common(a, right)
           IN (one # NoName /\ two # NoName) => one = two
=============================================================================
