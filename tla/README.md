# math-verifier in TLA+

math-verifier is a proof checker: a small dependent-type kernel, an elaborator
that turns `.math` source into kernel terms, a prover that fills gaps, and a
driver that verifies one module per process against cached interfaces, under
`make -jN`.  This directory holds TLA+ models of its stateful core, the TLC runs
that check them, and TLAPS proofs about them.

The kernel is the trusted part.  What it accepts depends on more than its typing
rules: memo tables that outlive the call that filled them, cycle cutting by
in-flight sets, budgets that end a computation anywhere, declarations that are
registered before they are checked, and cache files that stand for checks made
by another process.  Around it the elaborator keeps registries that caches
replay, and a search whose counters every exception must give back.  Those are
what is modelled.

## 1. Inventory

Lines are of `src/src` where no directory is given.

| Part | State | Operations | Hard part | Model |
|---|---|---|---|---|
| Reduction and conversion, `kernel/kernel.cpp` 82-340, 1180-2203 | `whnfCache`, `isDefEqTrueCache`, two in-flight sets, `loopShortCircuitEpoch`, cache owner and size, recursion depth, fuel | `weakHeadNormalForm`, `isDefinitionallyEqual`, `ensureKernelCacheOwner`, `invalidateKernelCaches` | mutual recursion with exceptions, stale tables, stack-dependent answers | `KernelCaches`; the rules in `Conversion` |
| Environment and declarations, `kernel.cpp` 2486-3264 | `Environment::declarations` | `addAxiom`, `addDefinition`, `addInductive` | registration before checking, failure at each step, rollback | `Declarations`, refining `AtomicEnvironment`; the checks in `TypeChecker` |
| Type inference, `kernel.cpp` 2203-2480 | `inferTypeCache`, keyed by a fingerprint of the context | `inferType` | one table for many contexts | `Conversion`, `TypeChecker` |
| Universe levels, `kernel/level.cpp` | none | `makeLevelMax`, `makeLevelIMax`, `levelsDefinitionallyEqual`, `levelLessOrEqual` | soundness where `imax` meets zero | `Levels` |
| Terms, `kernel/expression.hpp`, `kernel.cpp` 340-1180 | hash-consing table | `shift`, `substitute`, `openBinder`, `closeBinder`, recursor types and rules, positivity | de Bruijn arithmetic; one recursor described twice | `Terms`, `Inductives` |
| Naturals, `kernel.cpp` 1236-1325, 1874-1929 | none | literals, constructor views, accelerated operations | three forms of one number | `Conversion` |
| Build and verify driver, `main.cpp` 4809-6212, `Makefile` 605-654 | sources, `.iface`, `.iface.srchash`, `.mathv`, modification times | `kernel verify`, `kernel deps`, make's recipes | parallel processes over shared files, edits and crashes at any moment | `BuildCache`, refining `VerifiedLibrary` |
| Interface sealing, `main.cpp` 5521-6018 | an interface module's obligations, its view | obligation checks, exports, filters, closure validation | names that dangle or are lost; caches of two ages read together | `Sealing` |
| Serialization, `kernel/serialize.cpp` | a file | `writeCacheFile`, `readCacheFile` | interrupted writes | write and rename in `BuildCache` |
| Registries, `elaborator/statements.cpp` 150-935, `main.cpp` 4905-4986, 5395-5517 | operators, coercion chains, folds, instances, bundles, aliases | the registering statements, loading a cache, recording the difference, `combineOperands` | closure kept edge by edge, merges in load order | `Registries` |
| Module driver, `elaborator/driver.cpp`, `statements.cpp` | the elaborator object | `runModule`, `elaborateDefinition`, retries | state left by a failed statement | `Elaboration` |
| Auto-prover, `elaborator/prover.cpp`, `calc.cpp`, `inference.cpp`, `internal.hpp` 6760-7200 | effort budget (limit, snapshot, tripped, active), depths, flags | `autoProveClaim` and everything that calls it back | nested budgets over a counter others reset; four ways out of every scope | `Elaboration` |
| Opacity, `elaborator/dispatch.cpp` 327-360, `internal.hpp` 1233-1268 | `pendingOpacityRestores_`, `Definition::opacity` | `unfold`, quotient aliases, `OpacityRestoreScope` | flips that throw half way, restores on every exit, tables that follow | `Elaboration`; the tables in `KernelCaches` |
| Unifier, tactics, `ring`, desugaring, lemma search | searches | proof-producing | size | not modelled (section 7) |
| Lexer, parser, printer, errors, warnings, Lean exporter | none | text | none | not modelled |

How the parts meet.  The elaborator calls the kernel's three `add...` functions,
which call `inferType`, `weakHeadNormalForm` and `isDefinitionallyEqual`; it
also calls these directly, thousands of times per proof, speculatively (it
catches their exceptions and tries something else), between opacity flips, and
about a second environment (the lemma search's snapshot of the library).  Prover,
citations and the scan over the facts in scope call one another.  All of it runs
on one thread.  The processes of a parallel build meet only in files: each reads
interfaces other processes wrote, replays their registrations, and make decides
what runs by modification times.

What makes each part correct: a TRUE of the kernel is a conversion of the
environment asked about, now; what is memoised is what a fresh kernel would say;
every call returns; reduction keeps types, recursors agree with their rules, and
equal proofs never separate data; the environment is closed, complete and
well-founded whatever fails; every scope of the elaborator leaves the controls it
found; a registry that was loaded is the one that was recorded; a sealed view is
closed and backed by verified declarations; a successful make means every proof of
the present sources checks (section 6 has the exceptions); a proof edit costs its own
module only.

The hazards, each at its line and with the properties aimed at it, are in
`PROJECT.json`.

## 2. The modules

`MC*` modules give the constants values for TLC, `*Proofs` modules hold the
theorems.  `Terms`, `Inductives`, `Conversion`, `TypeChecker` (recursion over
terms) and `MCKernelCaches` (the reference answers) use `RECURSIVE` operators and have
no theorems; `Levels` recurs by functions on the levels of a bounded height, and has.

    VerifiedLibrary   <- BuildCache   <- BuildCacheProofs
    AtomicEnvironment <- Declarations <- DeclarationsProofs
    KernelCaches      <- KernelCachesProofs        (the engine as a machine)
                      <- FreshKernel <- FreshKernelProofs  (against one without tables)
    Levels <- Terms <- Inductives <- Conversion <- TypeChecker   (the rules)
    Elaboration       <- ElaborationProofs
    Levels            <- LevelsProofs
    Registries        <- RegistriesProofs   (what chains lead to, what loading restores)
    Sealing           <- SealingProofs

### KernelCaches

One frame of `stack` is one C++ frame of the two wrappers with its body; `depth`
is `kernelReductionDepth`.  `mode` says whether the top of the stack is about to
enter a wrapper, runs a body, or has a reply (a value, a truth, or one of the
two exceptions) for the caller below.  `Frames.pc` is where a body stopped to
make a call.  There is one action per branch of the wrappers (`EnterWhnfHit`,
`EnterWhnfLoop`, `EnterWhnf`, `ReturnWhnf`, `ThrowWhnf`, ...) and per rule of the
bodies (`WhnfDelta`, `WhnfZeta`, `WhnfHeadReduced`, ..., `EqIrrelevance`,
`EqGivesUp`), and between calls the elaborator's `BeginDeclaration`,
`CommitDeclaration`, `FailDeclaration`, `Unfold`, `UnfoldThrows`,
`RestoreOpacity` and `Call`.

Syntax is a table of constants (`Kind`, `HeadOf`, `BodyOf`, `Contractum`,
`Reduct`, `Verdict`, `Goals`, `TypeOf`, ...) and its meaning one more,
`Convertible`, with the assumptions that tie them: convertibility is an
equivalence that contains every rule and grows with the reducible definitions.
TLC evaluates the assumptions on its instance.

`excuses` is a history variable: why, since the tables were last cleared, an
entry may differ from a fresh answer (a budget ran out; an `unfold` threw half
way).  It appears in properties only.

`FreshKernel` says what a kernel with no tables, no in-flight sets and no budgets
answers: the rules of the two bodies, each given the answers of the calls it makes
(`Reduced`, `Equal`, ...).  `Fresh` is any table of answers those rules reproduce
(`FreshAssumption`).  Every library has one: the rules are strict in the answers they
wait for, so there is a least, in which a diverging call has no answer (`NoReply`).
`MCFresh` iterates the rules ten times from nothing, and TLC evaluates the assumption, so
ten is enough for the instances.  The recomputation is the one
`MATH_WHNF_CACHE_VERIFY` makes on every hit, run to the end.

Abstracted: `inferType` is the table `TypeOf` (its own calls to the engine and its
cache are not steps); contexts and let-bound variables; literals and accelerated
natural operations (all of these are in `Conversion`); the step limit (off by
default), the switch that disables the caches, and the two poison-check
diagnostics.  The opacity-tolerant fallback at the end of
`isDefinitionallyEqualImpl` is dead code: `isHardOpaqueConstant` answers true for
everything.  `epoch` restarts with each outside call; only differences within one
call are ever looked at.

### Levels, Terms, Inductives, Conversion, TypeChecker

The rules of the kernel as functions over terms that are records tagged by their
variant.  `Levels` is the normalising constructors, the order and what a level means
(`LevelValue`); its levels nest at most `MaxHeight` constructors, so that a walk over
one is a function TLC computes and a proof can unfold. `Terms` the moves
under and out of binders, with the shortcut by `maxFreeBoundVariable`; `Inductives`
the recursor's type, its reduction rule and strict positivity, derived from a
declaration by the two independent walks of the code; `Conversion` the rules of
reduction, equality and inference with the tables of types and of equalities
threaded through (each function returns an answer and the tables it leaves);
`TypeChecker` a session of calls, one action per call (`AskType`, `AskEqual`,
`AddAxiom`, `AddDefinition`, `AddInductive`, `Redeclare`), over one environment.

`MCTypeChecker` holds a library (naturals with their accelerated operations,
points, two propositions with proofs), sixteen submissions (lists, vectors, equality, trees
and polymorphic roses of higher order, towers over a universe, disjunction, witnesses, pairs over two universes, a universe too
small for its code, a definition that must be refused, ...) and some hundred
questions, with the properties.

Abstracted: hashes are ideal; fuel, depth, cycles and the table of normal forms
are in `KernelCaches`; what a refused inductive leaves behind is in `Declarations`.

### Declarations and AtomicEnvironment

`declarations` is `Environment::declarations` with each term reduced to the names it
mentions.  A submission goes through `Begin`, `AddChecked` or `PreRegister`,
`AddConstructor` in order, `AddRecursor`, or fails at any of these; `Rollback` is
the lambda of that name.  Whether a well-scoped type checks is a choice, as
either happens to some type.  `basis` is what the memo tables may rest on and
`ownerSize` the size half of the ownership test.  `before` and `torn` are history:
the environment when the submission began, and whether a failure ever left a
mark.

`AtomicEnvironment` is what `kernel.hpp` promises: a declaration is one step, which adds
all of it or refuses it.  There is no half registered inductive, no rollback and no
memo table.  `Declarations` implements it with `environment` mapped to what was declared
when the open submission began (`Published`: what a caller of `add...` can tell; while a
submission is open nobody else looks).  The two marks a refusal of the code may leave are
steps of their own: `Erase` (the rollback erases what had one of the names) and `Abandon`
(a sound inductive of the wrong shape stays without its recursor); the refinement says
that nothing else a failure does is ever seen.

### Elaboration

The control state of the elaborator.  A frame of `stack` is one scope: its kind
(a statement, a definition, a claim, a calc step, a scan, a citation's resolution,
a sublemma, ...), the RAII guard or manual save around it (`Guards`), the catch
clauses around that (`Handlers`), whether it armed the budget, and the controls it
found (`saved`).  `prover` is the elaborator's members: the window
(`active`, `tripped`, `snapshot`, `limit`), the depths of claims, chained premises and
symmetry flips, and the flags.  `thrown` is the exception on its way up: nothing, an
ordinary error, the budget's error without a goal ("raw") or reissued with it
("rich").  `Leave` is what a frame's destructors do, whatever leaves it; `After`
what its handlers let through.  Entering is `Claim`, `CalcStep`, `Tactic`, `Citation`,
`Source`; `Work` charges the budget; `Opening` unfolds, with a throw between two names
possible; `Declaration`, `Driver` are `elaborateDefinition` and the loop over
statements with its retry.  `steps` is `kernelStepCounter`, which each `add...` resets.

Abstracted: what is proved and by which lemma.  Any search, reading or check may
return or fail.  Sites that tell `TypeError` from `ElaborateError` leave the same state,
so the two are one.

### Registries

One process at a time verifies a module: `Begin` fixes its imports, `LoadAgain`,
`LoadCache` and `Register` walk the caches depth first as `loadCacheRecursive` does,
`StartStatements` takes the snapshots, `Statement` executes a registering statement
with all the checks it makes (`Fits`, `CoercionFits`, `Diamond`, ...) and the closure it
computes (`Extended`), `Refuse` ends the process without a cache, `WriteCache` records
`Delta`, the difference to the snapshots.  Between processes any module may be tried in
any order, with any imports among the verified.  `Common` is `combineOperands`: the
carrier two operands are brought to.  `ended` is history: the registries a module's
process ended with, and what it had loaded.

Abstracted: functions are names with the types they may lead between; a term's
elaboration is left out, and so is what is done with a chain that was found.

### BuildCache and VerifiedLibrary

`source`, `iface`, `sidecar` and `full` are the files; `kernel` the binary.  Make's
comparison of times is the relation it computes, `outdated`: the targets that do
not exist or are older than a prerequisite.  `jobs` are the `kernel verify`
processes, each with the source it read and the interfaces it has loaded, one
loading step per interface; then stage 1 writes interface and sidecar in two
steps, stage 2 writes the full cache.  `claim` follows what a user may believe:
"green" after a successful make with no edit since it began.  Edits happen at
any moment, crashes while make runs, relinks and cleans between makes, a write
may fail wherever there is one.

`Interface` and `Proves` are the elaborator and the sealing of interface modules: any
functions of the kernel, the module, its source, the interfaces loaded, and what the
full caches state that sealing reads.  These reads are steps of the job too
(`ReadFull`, one per cache): the implementation's, for its `implements` clause, and those
of the walk over the kept imports (`Walk`), each the full cache where there is one.  Make
orders no stage 1 after them, so they may be of any age.  All that is assumed is
`SealingAssumption`: a full cache that states what its interface states, or none at
all, tells sealing nothing the interface does not, as an interface has every
name, type and `implements` clause of its full cache.  `Records` is the dependencies a
cache records: those of a sealed one leave the construction out, so consumers
never load it (`Loads`).  `superseded` is history: the targets last sealed in view of a
full cache that stated other than its interface.

`VerifiedLibrary` is the promise: a build is a step that looks at the library as it
is and either has verified all of it from nothing or says nothing.  It has no files,
no processes, no times.  `BuildCache` implements it with `building` mapped to
`make # "idle"`, `verified` to `claim = "green"` and `exempt` to `raced` (targets whose
source was edited while their own recipe ran) with `superseded`; loads, writes, failures
and crashes of jobs are stutters, apart from a write that adds to `exempt` or takes from it
(`Overlook`, of interface modules only, and `Recheck`).

Abstracted: equal hashes are equal sources; modification times never tie; the
fallback to a full cache when an interface is missing (it cannot be, under make,
once prerequisites are built), verify by hand, several source roots.  What
sealing checks and writes is `Sealing`'s.  Not modelled: imports that change (the generated dependency file has the kernel as an
order-only prerequisite and is itself a target), jobs that outlive a make killed
alone, and files make deletes on SIGINT.

### Sealing

A declaration is its name, its kind, what its type mentions and what its body
mentions.  `Verifies` is what a process checks of a module over the interfaces it
loads; `Seals` what it checks of an interface module besides.  `SealedDeclarations`,
`Kept` and `SealedWiring` are what the cache of an interface module holds;
`ReachableCaches` the walk over the kept imports by which the code decides what a
consumer will see.  That walk reads an import's full cache where there is one; the
theorems and registrations it copies are read from interfaces.  `Stage1` and `Stage2`
are the two recipes with make's order between them; an interface is written only
if it differs, and one left as it was is tried again by every make (`kept`).
Edits change a module's declarations, imports' statements, obligations and export
lists, and leave imports alone; imports have no cycle (`SealingAssumption`).  `superseded` is history: the interfaces whose sealing read a full cache that
its own interface had overtaken.

Abstracted: equal mentions stand for definitionally equal types; a theorem is any
declaration that is a proof; the ordering of files within one write, crashes and
parallel loads are `BuildCache`'s.

## 3. The runs

| Run | Instance | Shows |
|---|---|---|
| `kernel_caches` | two environments, an alias and a late definition, 5 queries, depth 6, fuel 6; 82 417 states | `CachesSound`, `AnswersExact` |
| `kernel_budgets` | one environment, 11 queries over looping, diverging, recursive and ill-typed expressions, depth 4, fuel 6; 43 515 states | `InFlightMatchesStack`, `AnswersSound`, `MemoExact`, `CallsReturn` |
| `declarations` | 7 sound requests with each kind of failure, 5 ill ones, 11 names; 1 626 states | `Closed`, `Complete`, `NoCircularity`, `TablesCurrent`, `FailureIsClean`, and the refinement `DeclaresAtomically` |
| `type_inference` | the library of `MCTypeChecker`, sessions of two calls; 4 927 states | `AnswersAreFresh`, `TypesHaveSorts`, `ReductionPreservesTypes`, `LevelFreeIotaPreservesTypes`, `FieldsFitTheirUniverse`, `EqualProofsAgree`, `NumeralsAgree` |
| `elaboration` | one sealed alias, budget 2, trial budget 1, caps 2, 6 frames; 2 477 391 states | `TypeOK`, `WindowsOutliveNoReset`, `ClaimTripsAreReal`, `BareTripsStayInside`, `ScansDoNotSearch`, `ScopesRestore`, `OpacityRestored` |
| `registries` | 4 modules, 4 types, 2 imports and 2 statements each; 420 322 states | `ChainsLead`, `CachesReplay`, `LinesAreClosed`, `FoldsAgree`, `JoinsAssociate` |
| `sealing` | a kept module, a construction, theorems about it, the interface; 3 edits; 127 693 states | `SealedStatementsReadable`, `ExportsUsable`, `NothingSpellableIsLost`, `SealIsBacked` |
| `build_cache` | 4 modules, one of them sealed, 2 texts of the first, 2 kernels, 2 jobs, 2 upsets; 401 231 states | `GreenMeansVerified`, `ViewsHold`, `ProofEditsStayLocal`, `BuildEnds`, and the refinement `BuildsFromNothing` |
| `memo_stack`, `collision_erases`, `make_cures_stale`, `shared_names` | the instances above, or parts of them | the violations of section 6 |

Bounds, and why they are enough.

- `KernelCaches`: `MaxDepth` and `MaxFuel` stand for 500 and `defaultFuel`; with 4 to 6
  each of them trips at every kind of frame, and `kernel_caches` has enough left for
  the longest query to finish.  An entry goes wrong between two calls, and the state
  space holds every sequence of calls.
- `Declarations` has no bound: the names run out.
- `MaxHeight` = 8 in `type_inference` and `shared_names`: TLC would stop at a level
  that is higher, and meets none.
- `MaxCalls` = 2 in `type_inference`: one call to fill a table and one to read it, or a
  declaration and a question about it.  The properties compare with a kernel without
  tables, so longer sessions repeat the same pairs.
- `Elaboration`: with a budget of two steps a claim trips at its first, its second or
  no charge; caps of two distinguish "may nest" from "may nest no more"; six frames
  hold a statement, a definition, a claim, a guard's claim, a trial and one more
  beneath; `MaxRestores` 2 is one more than the names.
- `Registries`: two imports make a diamond and two statements an extension at both
  ends; the fourth module can load three others that had not seen each other.
- `Sealing`: three edits are a change below the interface, one beside it and one of its
  own contract, in any order with the builds between them.
- `BuildCache`: `MaxUpsets` counts edits, relinks, cleans, crashes and failed writes; two
  of them are a hazard and its sequel, and any number of makes may follow.  `middle` seals
  the construction `built`, which imports nothing, keeps `base` and is imported by `top`, which loads `base`
  through it: the least library with an indirect import, a construction consumers do not
  load, and a kept import whose full cache sealing reads.  What `middle` says is taken from
  what it finds `base` to state.  `base` has two texts: to the first kernel the second differs
  in a statement, to the second kernel in a proof only.

Deadlock is checked except where the system may stop: a module that failed to
elaborate (`elaboration`), a session with its calls used up (`type_inference`,
`shared_names`), a library that is verified or that nothing verifies any more
(`registries`, `sealing`), and in the violation runs.

Fairness.  `KernelCaches`: weak fairness of the kernel's own steps, a function that
is running keeps running; nothing is fair about being called.  `BuildCache`: weak
fairness of `Build`, the steps of make and its jobs, which are running processes;
nothing is fair about the user, edits or crashes.  The others state no liveness.

Every property has a mutant in `PROJECT.json`: a plausible bug in one definition
(marked "mutant" or "A fault" in the modules) under which TLC finds the property
violated.

## 4. What is proved

For every value of the constants that satisfies the named assumptions.

`KernelCachesProofs`: `TypeCorrect`, `CachesAreSound`, `AnswersAreSound`.  Soundness of
the tables is not inductive alone: an entry is written on return, from what the
frame did before.  `IInv` reads the stack as a proof in progress.  Each frame has
established what its place in the code says (`FrameSound`: the subject is
convertible to the argument, the parameters compared so far agree, both sides are
reduced ...), each frame was entered for the call the one below waits for
(`Linked`), the reply on its way is sound for that call (`ReplySound`), and while
anything runs the tables belong to its environment (`ModeOK`).  Steps between calls
keep the tables sound because definitions only become more reducible
(convertibility is monotone) or the tables are dropped.  Assumptions:
`EnvironmentAssumption`, `BoundsAssumption`, `SyntaxAssumption` and the three about
`Convertible`.  Nothing is assumed of termination or confluence, and the proof
does not need the epoch: memoising above a cut cycle costs exactness, never
soundness.

The module's last theorem, `InFlightIsTheStack`, is from `IInv` and `StackInv`: the sets
hold what the frames work on, no two frames work on the same (`AtMostOnce`), and while a
frame is open the recorded size is the environment's.  The second is why the entry a frame
erases is nobody else's; the third why `ensureKernelCacheOwner`, which empties the
sets, does so only with no frame on the stack.  Four lemmas are the ways a step
moves the stack (`StackStays`, `StackEmpty`, `StackGrows`, `StackShrinks`) and each action
is one of them; every exit of a body, by answer or exception, is a `StackShrinks`.

Last, `KernelSpendsWork` and `WorkRunsOut`: why a call ends.  `Work` reads the stack from
its oldest frame: the fuel the frame has, how far its body is from the end of its turn, how
many comparisons its list still holds; the place above the top frame is the call being
entered or the reply.  A turn of a loop spends fuel, within a turn a body only moves on, a
frame that leaves is worth more than its reply, and a frame that is pushed, whatever
fuel it has, less than the call it enters.  What happens higher up never matters to what is
below, so the lexicographic order falls at every kernel step, and it is well-founded
(`WFLexProductOrdering` of the library).  `FuelInv`: a frame never has more fuel than
its caller passed.  TLC checked the order on the instance of `kernel_budgets`.
`KernelNeverStalls` is the other half: while a call is in progress a kernel step is
possible.  It rests on `ReplyFits` (an expression comes back to a frame that waits for one, a
truth value to one that waits for that) and `CallersWait` (every frame under the top
one is suspended), and on `IInv` for the list a loop is in.  `KernelMoves` writes the guards
out, as the prover does not know ENABLED; on the instance of `kernel_budgets` TLC found
it equal to `ENABLED Kernel` in every reachable state.

`LevelsProofs`: `ConstructorsMeanWhatTheySay`, `LessOrEqualIsSound`, `SubstitutionMeansUpdate`,
`InstantiationIsSimultaneous`, `LaterArgumentsOverwrite`, for levels of any height.
`LevelValue` is what a level is worth when its parameters are naturals, `imax` being 0 where
its right side is.  The walks are recursive functions, and a function defined by
recursion has its equation only if one with that equation exists: `EveryHeight` builds it
height by height, as the absence of a least height that has none.  `LessOrEqualIsSound` is
the core of `FieldsFitTheirUniverse`: each rule of `levelLessOrEqual` is sound if its
recursive calls are, the delicate ones being those at `imax`, where a side is below a maximum
only if it is below the part that does not vanish.  The last two say what instantiating
parameters one after another computes (section 6).  No assumption but
`MaxHeightIsNat`.

`FreshKernelProofs`: `MemoIsExact` and `AnswersAreExact`: memoisation changes nothing but
time.  `IInv` looks back at what a frame has done; `EInv` looks ahead.  `FrameExact` says
that what a frame has left to do, done by a fresh kernel, ends as the fresh kernel
answers the frame's call, and `FramesExact` claims it of the frames whose `epochBefore` is
still the epoch.  A cut cycle raises the epoch and so ends every claim on the stack at
once (`CutEndsClaims`), which is why a result is memoised only if the epoch has not
moved.  Epochs grow up the stack (`EpochsGrow`), so a frame that returns with its claim
intact returns to one with its claim intact or to one that makes none.  `ReplyExact` is the
same for a reply on its way, and `MemoExact` what is written down.  The size test of
`ensureKernelCacheOwner` suffices because declarations are only ever added
(`OwnerOlder`): tables made before a declaration are on record for a smaller environment
until they are dropped.  The one thing `EInv` cannot do without is `excuses`: a budget that
trips is turned into a FALSE without raising the epoch (`memo_stack`), and an `unfold` that
throws changes opacities under the tables.  Assumptions: those above, without any use of
`Convertible` beyond what `IInv` needs, and `FreshAssumption`; nothing of termination or
confluence.

`DeclarationsProofs`: `TypeCorrect`, `EnvironmentIsClosed`, `InductivesAreWhole`,
`NothingRestsOnItself`, `TablesStayCurrent`, `FailuresAreClean`.  `DInv` compares the environment with the one
the open submission met: what was there is unchanged (`Extends`), what is new belongs
to one inductive, and the one it met was closed and acyclic.  That is why a
rollback restores it when no name collided, and why an inductive registered before
it is checked closes no cycle.  `BasisOK` explains the size test: while an inductive
is half registered the tables rest on what is there; a rollback makes the
environment smaller than the recorded size, so they are dropped at the next use.
`WInv` adds what completeness needs: what is registered of an open inductive is what its
submission names (`HalfWhole`), so that the recursor, the last piece, finds the
inductive and every constructor there; a declaration only gains names, and gaining
keeps every other inductive whole (`GainingKeepsWhole`).

`DeclaringIsAtomic` is the refinement of `AtomicEnvironment`.  Its invariant `AInv` says that
what is registered of the open inductive is exactly what the abstract step would add of
it, and that every check the abstract step asks for has been made on what is registered
so far.  All steps but the last of a submission are then stutters, and the last is
`AcceptSingle`, `AcceptInductive`, `Refuse`, `Erase` or `Abandon` according to how it ended; a
rollback that met no foreign name removes exactly what was added.

`ElaborationProofs`: `TypeCorrect`, `ScopesRestored`, `OpacitiesRestored`, `WindowsSafe`,
`ClaimTripsReal`, `BareTripsInside`, `ScansIdle`, for every set of definitions, budget, cap
and depth.  That a scope gives back what it found is a fact about the whole stack
above it.  The invariant says of each frame that, if all the frames above it were left
now, by whatever exception, the controls would be those it saved, up to the latch of a
trip (`StackOK`); that a window's counters are read only under the window (`ProverOK`); and
that undoing the pending notes from the scope's start gives the opacities from before
the definition (`ScopeOK`, with `Undoes`).  For the trips (`WindowsOK`) it says, at each
depth of the stack, that a resolution, a lemma it tries, or a lowered limit is in a window
only if a resolution opened that window, as what else elaborates a citation in one is
a scan; and that a trip without such a resolution below it is over a used budget.  Pushing and popping a frame preserve this by
one lemma each (`Pushed`, `Popped`, `Adjusted`), and each action is an instance.
Assumption: `ElaborationAssumption` (sorts of the constants).

`RegistriesProofs`: `ChainsAlwaysLead`, `OnlyVerifiedLoads`, for any modules, types,
functions and texts.  `IInv`: the chains in the running registry, in the snapshot and in
every recorded difference lead from their first type to their second (`EnvLeads`,
`CachesLead`), and only verified modules are on the loader's stack (`OnlyVerified`).  The
lemmas follow the operations: `EmptyLeads`, `OneLeads`, `ChainsCompose`, `ExtendedLeads`
(a declaration), `OverLeads` (loading overwrites), `WithoutLeads` (the difference).

Its second part: `LoadingReplays`, `LinesClosed`, `FoldsAgreeOnLines`,
`JoinsAssociative`.  The first says that a process which loads a module ends with what the
module's own process had, although one ran statements and the other replays
differences, in an order of its own.  `ReplayInv` has four parts beside `IInv`.  `OrderInv`: the
loader's stack is a path of imports and what is loaded is closed under them.
`HistoryReplays`: loading any verified module from nothing leads to the registries its
process ended with.  `ProcessReplays`: so does what the running process has done so far.
`FollowsImport`: a module that has only loaded one import is where that import's process
was.  Loading is deterministic but not a definition that could be unfolded, so "leads to"
is stated as reachability: every set of states closed under the loader's move (`Moves`,
`Moved`) that has the first has the last (`Arrives`).  `DeltaRestores` is the core: the recorded
difference over the snapshot gives back the registry, for maps that overwrite and
lists that append; `Unseen` is a recursive function, and `UnseenOf` what it returns.  On modules
that form a line every registry is then the last one's, and `LinesClosed` and
`FoldsAgreeOnLines` follow from what one statement does to a closed registry
(`ExtendedClosed`, `StatementGood`).  `Arrives` quantifies over all sets and TLC cannot evaluate
it; the first-order parts of `ReplayInv` were checked on the instance of the run.

`SealingProofs`: `TypeCorrect`, `StatementsReadable`, `ExportsAreUsable`, `SpellableIsKept`,
`SealsAreBacked`, for any modules, imports, texts and edits.  `SInv`: imports never change
and the recorded edges are imports; what is not out of date exists, and a full cache has
what its source declares (`Present`); a statement of an interface stands in its module's
source or in an interface above it (`Traced`); an interface that is not out of date
exports from what it imports (`ExportsImported`) and, if sealed over current caches, is
readable, usable and complete (`SealsHold`).  Each conjunct speaks of a module and what is above it, so it stays
while nothing above changes and is rebuilt by the two recipes.  `ClosureIsLeast` says
that the closure the code walks is the least closed set, which turns each question
about a walk into one about closed sets: `WalkSeesLoaded` that the walk over the kept
imports, by which sealing decides, reaches what a consumer will load when no full
cache was overtaken; dually the exports are the largest closed set.  That every kept
statement has a source is an argument along a well-founded order, as imports have no
cycle.  TLC checked `SInv` on the run's 127 693 states.

`BuildCacheProofs`: `TypeCorrect`, `LoadedViewsHold`, `SuccessIsVerified`,
`UpstreamProofsStayUpstream`, `BuildKeepsPromise`.  `BInv`: jobs run after their
prerequisites and before their dependents (`SlotsOK`), work on what is there (`JobOK`),
and every target that is neither outdated, raced nor superseded is what a clean build would make
it.  The transitive closure enters in `ViewComplete`: what a job has loaded, when
nothing is left to load, is what its module loads now, and all of it a prerequisite, though a
sealed import records fewer modules than it was made from.  `BuildKeepsPromise` is the refinement: initial states map to initial
states and each step to a step of `VerifiedLibrary` or a stutter, from `BInv` and
`ExistOK` (a finished target exists), whose interfaces on disk are the witness
the abstract step asks for.  `BuildSpendsSteps` and `BuildNeverStalls` are why a make ends.
`StepsLeft` is the set of what is still to be done: to take a target, to load each
interface of it, to write, to finish.  Each step of the build takes something off or
ends the make, and nothing but another make adds to it; the set is finite, so a make
takes at most as many steps as it started with, whatever the user edits meanwhile.
That one can be taken is the graph: among the modules not finished, one with a
least closure waits for none of the others, and with no job running there is a slot.
`BuildMoves` writes the guards out; TLC found it equal to `ENABLED Build` in the
401 231 states of `build_cache`.  The assumptions are `BuildAssumption` (the modules are
finitely many, imports have no cycle, a sealed module imports its construction and what it
keeps), `ElaborationAssumption` (elaborator and sealing are functions of what they read) and
`SealingAssumption`.  The last is used where a target is neither raced nor superseded: the caches
its seal read then agreed with its view, so that the seal could have been made without
them.  Nothing is assumed of full caches that disagree.

## 5. What is only model-checked

- Liveness: `CallsReturn`, `BuildEnds`.  The abstract specification has no fairness.  Of
  both it is proved that the steps run out and that there is one as long as it has not
  ended; the last inference, that a step which stays possible is taken, is weak
  fairness and needs ENABLED.
- Everything over terms, which recursive operators compute: the seven properties of
  `type_inference`.  Of `FieldsFitTheirUniverse` the comparison of levels is proved.
- `LevelFreeIotaPreservesTypes` and `ClaimTripsAreReal` are what is true of more general
  claims the code does not keep (section 6).
- `MemoIndependentOfStack` is violated (`memo_stack`): `MemoIsExact` is what remains of it.
- The type invariants of `KernelCaches`, `Declarations`, `BuildCache` and `Sealing` are
  proved, and checked by no run.

## 6. Findings

With a run:

- `memo_stack`: a FALSE given because a budget ran out does not count as a
  short-circuit, so the stuck normal form computed above it is memoised, although
  the comment says the answer depends on the expression only.  Sound, not exact.
- `shared_names`: two variables found equal as proofs in one context are answered equal
  in another context of the same declaration where they are data: the table of
  equalities is keyed by the terms alone.
- `collision_erases`: `addInductive`'s rollback erases the declaration that already
  had a constructor's or recursor's name.
- `make_cures_stale`: a stop between interface and sidecar leaves a dependency that
  every consumer calls stale and that the suggested make does not rebuild.

Seen while modelling, without a run of its own:

- Kernel.  `buildRecursorType` may throw outside the try blocks (`kernel.cpp` 3233,
  2716-2720), and the inductive stays without its recursor; `FailureIsClean` excepts it.
  An `unfold` that throws at a later name has flipped the earlier ones and skips
  `invalidateKernelCaches` (`dispatch.cpp` 335-357, against `kernel.hpp` 490-492); `MemoExact`
  excuses it.  `contextFingerprint` combines names and types by XOR without their positions
  (`kernel.cpp` 303-319), so `[x : A, y : B]` and `[y : A, x : B]` share a key; the
  model takes the hash to be ideal.  `substituteUniverseLevels` substitutes parameters one
  after another (606-613), where `kernel.hpp` 376-379 maps each name to its entry: an argument
  that mentions a later parameter is overwritten (`LaterArgumentsOverwrite`;
  `InstantiationIsSimultaneous` says when it does not matter).  `deltaReduceLetFreeVariables` "iterates to a fixed point" (1692) but walks
  once.  `levelLessOrEqual` leaves `max(u, v) <= max(v, u)` undecided.  The comments at
  1785-1798, 1810-1812 and 2081-2087 describe an opacity-tolerant retry that 1769-1772 turns
  off.  `kernel.hpp` says positivity is not checked; the code checks it.
- Kernel, levels.  `buildIotaReduction` walks the constructor's type with its parameters
  substituted and its universe arguments not (`kernel.cpp` 943), so a level parameter in the
  telescope or an index of a recursive argument stays in the reduct, which then has no type,
  against the kernel's own property test (`main.cpp` 2060) and 1019-1022.  `Towers` of
  `MCTypeChecker` is such an inductive, its recursor's rule at level 0 is ill-typed, and
  `LevelFreeIotaPreservesTypes` excepts it.  None was looked for in the library.
- Elaborator.  `elaborator.hpp` 31-38 says the budget's error is caught at one place; some
  thirty sites catch it (`BareTripsStayInside` is what remains true).  `unfold` in an axiom, an
  obligation or an inductive has no `OpacityRestoreScope` (only `elaborateDefinition`,
  `statements.cpp` 2257), so the name stays transparent for the rest of the module;
  `OpacityRestored` speaks of definitions.  The retry of a `decreasing` definition by the
  deep route always fails, its step definition having been added already.
- Elaborator, budget.  Step 5e opens a window and fills the premises of a fact under
  `RedundancyBudgetGuard` in it (`inference.cpp` 3320-3326 and 2830-2859 by way of `prover.cpp`
  1420, `induction.cpp` 3087-3101).  The limit is taken from a window already spent, the trip
  stays latched when the limit comes back, and the retry at full budget meant for this case
  (3103-3143) stops at once: what `internal.hpp` 7154-7158 calls poisoning the rest of the
  claim.  `ClaimTripsAreReal` excepts the windows of step 5e.  Some citations fail that had
  budget left; nothing is accepted for it.
- Registries.  They are not closed again at load: modules that register A to B and
  B to C without each other leave no chain from A to C in a module importing both, and
  of two entries under one key the later load wins silently, although
  `docs/conventions/structures-and-inference.md` 116-118 and `statements.cpp` 877 call the
  registry closed and free of diamonds.  `LinesAreClosed`, `FoldsAgree` and `JoinsAssociate`
  therefore speak of modules that form a line.  Whether a round trip S to T, T to S is
  accepted depends on what else was registered first.
- Sealing.  The walk over the kept imports and the check of the `implements` clause read an
  existing full cache (`main.cpp` 5617-5628, 5531-5535), though stage 1 waits for interfaces
  only and the comment at 5713-5718 warns of exactly this for the other reads.  Sealed
  before a kept import's stage 2 has run again, an interface is not what a build from nothing
  would make: it may keep a statement that mentions a name the import no longer has, or skip
  one it has gained; and make ends with nothing left to do.
  The properties of `sealing` except it (`superseded`, `Settled`), `SealIsBacked` does not.  An obligation about an inductive is
  checked and silently not sealed (5575-5580); bodies of an interface module's own
  definitions are not part of the closure check, and of the registrations only those of
  dropped modules are filtered (5851-5955): the interface's own are recorded whatever they
  mention, so `ExportsUsable` and its theorem speak of the others.
- Build.  `GreenMeansVerified` and `BuildsFromNothing` have two exceptions: a source edited
  while its own recipe ran, which make cannot notice, and an interface module sealed in
  view of a full cache that stated other than its interface (see Sealing).  The second lasts
  until the module's recipe runs again, and what is built on such an interface is
  verified against it as it stands.

## 7. Not modelled, and why

- Proof-producing code (tactics, `ring`, `linarith`-like normalisers, induction,
  equality, the unifier, argument inference, surface desugaring) is most of the source
  and sequential.  Its state between calls is what `Elaboration` and `Registries` have;
  its result is a term the kernel checks, so its errors cost proofs, not soundness.  A
  model of it would be the algorithms again, over data no small instance represents.
  For the same reason the share of source lines the map names stays low.
- Lexer, parser, printer, warnings, lemma index, exporter: text, without state between
  calls.
- Of the registries: the congruence lemmas, and the check that an overload alias does not take
  the name of a declaration (`statements.cpp` 556-561).
- The byte format of caches; hash functions and hash-consing (assumed ideal);
  GMP.
- In the build: regeneration of the dependency file when imports change, several source
  roots, a verify run by hand, jobs that outlive a killed make.
- In the kernel: diagnostics switched on by environment variables.

Open: that a call of `KernelCaches` whose fresh answer exists gets it, given enough budget and
no cycle (`AnswersAreExact` speaks of the calls that met neither); imports that change, and sealing with crashes, as one model with `BuildCache`.
