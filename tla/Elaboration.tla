---------------------------- MODULE Elaboration ----------------------------
(***************************************************************************)
(* The control state of the elaborator while a module is elaborated: the     *)
(* effort budget of the auto-prover, the counters and flags that keep its    *)
(* tactics, citations and speculative readings from re-entering one another, *)
(* and the opacities opened for one declaration.                            *)
(*                                                                         *)
(* All of it is global to the elaborator and set by scopes that are left in  *)
(* any of four ways: a return, an ElaborateError or TypeError (here one      *)
(* "error": every site that tells them apart leaves the same state), the     *)
(* AutoProverBudgetError of a search out of budget ("raw"), or the same      *)
(* reissued with the goal ("rich").  A frame of `stack` is one such scope.    *)
(* What is proved, and by which lemma, is left out: any call may succeed or  *)
(* fail.                                                                    *)
(***************************************************************************)
EXTENDS Naturals, Sequences

CONSTANTS
  Names,            \* the definitions a declaration may unfold
  Sealed,           \* those declared opaque
  Aliases,          \* those whose body is a quotient
  Budget,           \* autoProveBudgetLimit_; 0: no bound
  RedundancyBudget, \* the limit of a speculative re-proof; 0: not lowered
  ChainCap,         \* kBackwardChainDepthCap
  MaxDepth,         \* nested prover calls before the search is given up
  MaxSteps,         \* bound: kernel steps since the last declaration
  MaxFrames,        \* bound: frames
  MaxRestores       \* bound: pending restores

ASSUME ElaborationAssumption ==
  /\ Sealed \subseteq Names
  /\ Aliases \subseteq Names
  /\ {Budget, RedundancyBudget, MaxSteps, MaxFrames, MaxRestores} \subseteq Nat
  /\ {ChainCap, MaxDepth} \subseteq Nat \ {0}

Opacities == {"opaque", "transparent"}
Declared  == [n \in Names |-> IF n \in Sealed THEN "opaque" ELSE "transparent"]
Restores  == Seq(Names \X Opacities)

\* How control passes through a frame.
Thrown     == {"no", "error", "raw", "rich"}
OverBudget == {"raw", "rich"}

Kinds    == {"statement", "axiom", "definition", "attempt", "claim", "calc",
             "scan", "resolve", "sublemma", "retry"}
Guards   == {"none", "chaining", "flip", "reductio", "probe", "window", "scan",
             "sideCondition", "uncapped"}
Handlers == {"none", "errors", "all", "convert", "report"}
Rungs    == 0..6  \* the tactics of a claim, in the order they are tried

Controls ==
  [active : BOOLEAN,    \* autoProveBudgetActive_: a window is open
   tripped : BOOLEAN,   \* autoProveBudgetTripped_
   snapshot : Nat,      \* autoProveStepSnapshot_; 0 when no window is open
   limit : Nat,         \* autoProveBudgetLimit_
   depth : Nat,         \* autoProveDepth_
   chaining : Nat,      \* backwardChainingDepth_
   flips : Nat,         \* symmetryFlipDepth_
   reductio : BOOLEAN,  \* inReductioAttempt_
   scan : BOOLEAN,      \* inSpeculativeContextScan_
   uncapped : BOOLEAN]  \* bridgeProveCapOverride_ > 0, and inDeepRetry_

Frames == [kind : Kinds, guard : Guards, handler : Handlers, armed : BOOLEAN,
           rung : Rungs, saved : Controls]
Scopes == [start : Nat, before : [Names -> Opacities]]

\* Between two declarations nothing is open.
Fresh == [active |-> FALSE, tripped |-> FALSE, snapshot |-> 0, limit |-> Budget,
          depth |-> 0, chaining |-> 0, flips |-> 0, reductio |-> FALSE,
          scan |-> FALSE, uncapped |-> FALSE]
NoScope == [start |-> 0, before |-> Declared]

VARIABLES
  opacity,   \* of each definition, now
  pending,   \* pendingOpacityRestores_
  scope,     \* the OpacityRestoreScope of the definition: its startSize
  steps,     \* kernelStepCounter
  prover,    \* the controls
  stack,
  thrown,    \* what is on its way up, or left the module
  declined   \* bridgeDeclines_ > 0

opacityVars == <<opacity, pending, scope>>
vars        == <<opacityVars, steps, prover, stack, thrown, declined>>

Init ==
  /\ opacity = Declared /\ pending = <<>> /\ scope = NoScope
  /\ steps = 0
  /\ prover = Fresh
  /\ stack = <<>>
  /\ thrown = "no"
  /\ declined = FALSE

Top     == stack[Len(stack)]
Below   == SubSeq(stack, 1, Len(stack) - 1)
In(K)   == thrown = "no" /\ stack # <<>> /\ Top.kind \in K
Room    == Len(stack) < MaxFrames

Frame(kind, guard, handler) ==
  [kind |-> kind, guard |-> guard, handler |-> handler, armed |-> FALSE,
   rung |-> 0, saved |-> prover]

\* Elaborating what is written in the source; the rest is the prover's own.
Surface == {"definition", "axiom", "attempt"}
-----------------------------------------------------------------------------
(* The budget. *)

\* The counter may have been reset since the snapshot was taken.
Consumed(c)  == IF steps >= c.snapshot THEN steps - c.snapshot ELSE steps
Exhausted(c) == c.active /\ (c.tripped \/ Consumed(c) >= c.limit)
Charged(c)   == IF Exhausted(c) THEN [c EXCEPT !.tripped = TRUE] ELSE c
Charge(c)    == IF Exhausted(c) THEN "raw" ELSE "no"

CanArm(c) == ~c.active /\ c.limit > 0
Arm(c)    == [c EXCEPT !.active = TRUE, !.tripped = FALSE, !.snapshot = steps]

\* A fault: a resolution's window is left open.
DisarmClaimsOnly(f, c) ==
  IF f.armed /\ f.kind # "resolve"
  THEN [c EXCEPT !.active = FALSE, !.tripped = FALSE, !.snapshot = 0] ELSE c

\* A snapshot without a window is never read again.
Disarm(f, c) ==
  IF f.armed THEN [c EXCEPT !.active = FALSE, !.tripped = FALSE, !.snapshot = 0]
  ELSE c

Lowered(c) == IF RedundancyBudget > 0 THEN RedundancyBudget ELSE c.limit

\* What a guard's constructor does ...
Guarded(guard, c) ==
  CASE guard = "chaining" -> [c EXCEPT !.chaining = @ + 1]
    [] guard = "flip"     -> [c EXCEPT !.flips = @ + 1]
    [] guard = "reductio" -> [c EXCEPT !.reductio = TRUE]
    [] guard = "scan"     -> [c EXCEPT !.scan = TRUE]
    [] guard = "uncapped" -> [c EXCEPT !.uncapped = TRUE]
    [] guard = "probe"    -> [c EXCEPT !.limit = Lowered(c)]
    [] guard = "window"   -> [c EXCEPT !.limit = Lowered(c), !.snapshot = steps,
                                       !.tripped = FALSE, !.active = TRUE]
    [] OTHER -> c

\* ... and its destructor.
Unguarded(f, c) ==
  CASE f.guard = "chaining" -> [c EXCEPT !.chaining = @ - 1]
    [] f.guard = "flip"     -> [c EXCEPT !.flips = @ - 1]
    [] f.guard = "reductio" -> [c EXCEPT !.reductio = FALSE]
    [] f.guard = "scan"     -> [c EXCEPT !.scan = f.saved.scan]
    [] f.guard = "uncapped" -> [c EXCEPT !.uncapped = f.saved.uncapped]
    [] f.guard = "probe"    -> [c EXCEPT !.limit = f.saved.limit]
    [] f.guard = "window"   -> [c EXCEPT !.limit = f.saved.limit,
                                         !.snapshot = f.saved.snapshot,
                                         !.tripped = f.saved.tripped,
                                         !.active = f.saved.active]
    [] f.guard = "sideCondition" -> [c EXCEPT !.depth = f.saved.depth,
                                              !.chaining = f.saved.chaining]
    [] OTHER -> c

Surfaced(f, c) == IF f.kind = "claim" THEN [c EXCEPT !.depth = @ - 1] ELSE c

\* A fault: the premise's depth is not given back when the budget trips.
LeaveLeaking(f, c, x) ==
  IF f.guard = "chaining" /\ f.kind = "claim" /\ x \in OverBudget
  THEN Surfaced(f, Disarm(f, c))
  ELSE Unguarded(f, Surfaced(f, Disarm(f, c)))

\* What leaving a frame, by x or by a return, does to the controls.
Leave(f, c, x) == Unguarded(f, Surfaced(f, Disarm(f, c)))

\* A fault: the owner of the budget lets the bare error pass.
ReissuedNever(f, x) == x

\* The claim that armed the budget puts the goal into the error.
Reissued(f, x) ==
  IF f.kind = "claim" /\ f.armed /\ x = "raw" THEN "rich" ELSE x

\* What is left of x when it has passed the frame and the catch around it.
After(f, x) ==
  LET y == Reissued(f, x)
  IN CASE f.kind = "calc" /\ f.armed /\ y \in OverBudget -> "no"
       [] f.handler = "errors" /\ y = "error" -> "no"
       [] f.handler = "all" -> "no"
       [] f.handler = "convert" /\ y \in OverBudget -> "error"
       [] f.handler = "report" -> "error"
       [] OTHER -> y

-----------------------------------------------------------------------------
(* Entering and leaving. *)

\* autoProveClaim: the depth, its bound, the budget when it is the outermost
\* claim, and the first charge of autoProveClaimTactics.
Claim(guard, handler, callers) ==
  LET guarded == Guarded(guard, prover)
      deeper  == [guarded EXCEPT !.depth = @ + 1]
      tooDeep == deeper.depth > MaxDepth
      arms    == ~tooDeep /\ deeper.depth = 1 /\ CanArm(deeper)
      ready   == IF arms THEN Arm(deeper) ELSE deeper
      frame   == [Frame("claim", guard, handler) EXCEPT !.armed = arms, !.rung = 1]
  IN /\ Room
     /\ stack' = Append(callers, frame)
     /\ prover' = IF tooDeep THEN ready ELSE Charged(ready)
     /\ thrown' = IF tooDeep THEN "error" ELSE Charge(ready)
     /\ UNCHANGED <<opacityVars, steps, declined>>

\* autoProveCalcStep arms the budget whatever the depth.
CalcStep(handler) ==
  LET arms  == CanArm(prover)
      ready == IF arms THEN Arm(prover) ELSE prover
      frame == [Frame("calc", "none", handler) EXCEPT !.armed = arms]
  IN /\ Room
     /\ stack' = Append(stack, frame)
     /\ prover' = Charged(ready)
     /\ thrown' = Charge(ready)
     /\ UNCHANGED <<opacityVars, steps, declined>>

\* A scope that does nothing else on entry.
Enter(kind, guard, handler) ==
  /\ Room
  /\ stack' = Append(stack, Frame(kind, guard, handler))
  /\ prover' = Guarded(guard, prover)
  /\ UNCHANGED <<opacityVars, steps, thrown, declined>>

Inner == {"attempt", "claim", "calc", "scan", "resolve", "sublemma"}

Return ==
  /\ In(Inner)
  /\ stack' = Below
  /\ prover' = Leave(Top, prover, "no")
  /\ UNCHANGED <<opacityVars, steps, thrown, declined>>

Rising(K) == thrown # "no" /\ stack # <<>> /\ Top.kind \in K

\* A scan goes on with its next fact after an error, and step 5e with its
\* next slot after anything.
Continues == \/ Top.kind = "scan" /\ thrown = "error"
             \/ Top.kind = "resolve"

Unwind ==
  /\ Rising(Inner)
  /\ ~Continues
  /\ stack' = Below
  /\ prover' = Leave(Top, prover, thrown)
  /\ thrown' = After(Top, thrown)
  /\ UNCHANGED <<opacityVars, steps, declined>>

NextCandidate ==
  /\ Rising(Inner)
  /\ Continues
  /\ thrown' = "no"
  /\ UNCHANGED <<opacityVars, steps, prover, stack, declined>>

-----------------------------------------------------------------------------
(* The kernel, and the charges in the prover's loops. *)

\* Reductions and comparisons; they are charged for afterwards.
Reduce ==
  /\ In(Kinds)
  /\ steps < MaxSteps
  /\ steps' = steps + 1
  /\ UNCHANGED <<opacityVars, prover, stack, thrown, declined>>

\* autoProveSpend, where it throws.
Spend ==
  /\ In({"claim", "calc", "scan", "sublemma"})
  /\ Exhausted(prover)
  /\ prover' = Charged(prover)
  /\ thrown' = "raw"
  /\ UNCHANGED <<opacityVars, steps, stack, declined>>

\* No proof found, an argument not inferred, a term that does not type.
Fail ==
  /\ In(Kinds)
  /\ thrown' = "error"
  /\ UNCHANGED <<opacityVars, steps, prover, stack, declined>>

-----------------------------------------------------------------------------
(* The tactics, in the order in which a claim tries them. *)

\* The claim has come as far as tactic r; it never goes back.
Trying(r)  == In({"claim"}) /\ Top.rung <= r
Callers(r) == [stack EXCEPT ![Len(stack)].rung = r]

TryAutoProveEqualityGoal == Trying(1) /\ CalcStep("errors")
CalcDescends             == In({"calc"}) /\ CalcStep("none")
TryOrderedFieldTier      == Trying(1) /\ Claim("none", "errors", Callers(1))
TryConjunctionIntro      == Trying(1) /\ Claim("none", "errors", Callers(1))

TryContextFactMatch ==
  /\ Trying(2)
  /\ Room
  /\ stack' = Append(Callers(2), Frame("scan", "scan", "none"))
  /\ prover' = Guarded("scan", prover)
  /\ UNCHANGED <<opacityVars, steps, thrown, declined>>

TryDisjunctionIntro      == Trying(3) /\ Claim("none", "errors", Callers(3))
TryContextEqualityBridge == Trying(4) /\ Claim("none", "errors", Callers(4))

\* After so many recursive proofs the bridge refuses, unless it is uncapped.
BridgeDeclines ==
  /\ Trying(4)
  /\ ~prover.uncapped
  /\ declined' = TRUE
  /\ UNCHANGED <<opacityVars, steps, prover, stack, thrown>>

TrySymmetryFlip ==
  Trying(5) /\ prover.flips = 0 /\ Claim("flip", "errors", Callers(5))

\* Only for a claim the author wrote.
TryReductio ==
  /\ Trying(6)
  /\ ~prover.reductio /\ ~prover.scan
  /\ prover.depth = 1
  /\ Claim("reductio", "all", Callers(6))

\* The last chance of an outermost claim: every tactic again, with the lets
\* unfolded (the code does so once; that it goes back is what counts here).
ZetaRetry ==
  /\ Trying(6)
  /\ prover.depth = 1
  /\ stack' = Callers(1)
  /\ prover' = Charged(prover)
  /\ thrown' = Charge(prover)
  /\ UNCHANGED <<opacityVars, steps, declined>>

-----------------------------------------------------------------------------
(* Citations: the premises of a lemma that is applied. *)

\* inferCallWithHoles runs for a citation in the source, for each lemma a
\* scan tries, and for a lemma that may prove a premise.
Citing == In(Surface \cup {"scan", "sublemma"})

\* A fault: the prover is asked in the middle of a scan.
FallbackAlways == Citing /\ Claim("none", "all", stack)

\* Step 5b, fallback 2: a premise that is no hypothesis.
DischargeFallback == Citing /\ ~prover.scan /\ Claim("none", "all", stack)

\* A fault: in a scan as well.
AutoFillPremiseAlways ==
  Citing /\ (Claim("probe", "all", stack) \/ Claim("none", "all", stack))

\* autoFillHintForClaim, for the lemma cited and for a fact universal over data
\* that may be the premise of one: the fact's own premise is proved under the
\* lower limit and, if that trips, once more.
AutoFillPremise ==
  /\ Citing /\ ~prover.scan
  /\ Claim("probe", "all", stack) \/ Claim("none", "all", stack)

\* A fault: one level more than the cap.
MayChainOnce(c) == c.chaining <= ChainCap /\ c.depth = 0

MayChain(c) == c.chaining < ChainCap /\ c.depth = 0

\* Step 5d.
DischargePremise == Citing /\ MayChain(prover) /\ Claim("chaining", "all", stack)

\* Step 5e arms the budget as a claim does, and disarms it at its end.
ResolvePremises ==
  /\ Citing
  /\ MayChain(prover)
  /\ Room
  /\ stack' = Append(stack, [Frame("resolve", "none", "none") EXCEPT !.armed = CanArm(prover)])
  /\ prover' = IF CanArm(prover) THEN Arm(prover) ELSE prover
  /\ UNCHANGED <<opacityVars, steps, thrown, declined>>

\* A slot of step 5e charges the budget, at its cap declines ...
ResolveSlot ==
  /\ In({"resolve"})
  /\ Exhausted(prover)
  /\ prover' = Charged(prover)
  /\ thrown' = "raw"
  /\ UNCHANGED <<opacityVars, steps, stack, declined>>

\* ... and else is tried by a lemma that shares its metavariables, or by
\* guessing the one that is left.
TrySubLemmaSharingMetavars ==
  /\ In({"resolve"}) /\ ~Exhausted(prover)
  /\ prover.chaining < ChainCap
  /\ Enter("sublemma", "chaining", "all")

TryGuessUndeterminedPremise ==
  In({"resolve"}) /\ ~Exhausted(prover) /\ Claim("none", "all", stack)

-----------------------------------------------------------------------------
(* Where the source asks the prover. *)

\* A step without a reason, `done`, a disjunction of cases: the error is the
\* step's.
BareStep       == In(Surface) /\ Claim("none", "none", stack)
ProveCitedFact == In(Surface) /\ Claim("none", "errors", stack)
ProveUnaided   == In(Surface) /\ Claim("none", "all", stack)

\* A case of finite_check out of budget is an error like another.
FiniteCheckCase == In(Surface) /\ Claim("none", "convert", stack)

\* `by substituting`: first in a cheap window of its own, then in full.
Substitute ==
  /\ In(Surface)
  /\ Claim("window", "all", stack) \/ Claim("none", "errors", stack)

SubstitutedPremise ==
  In(Surface) /\ prover.chaining < ChainCap /\ Claim("chaining", "all", stack)

DischargeTrailingSideConditions ==
  In(Surface) /\ Claim("sideCondition", "all", stack)

\* A rewrite's residual equality goes to the calc prover.
RewriteStep == In(Surface) /\ CalcStep("errors")

\* The prefix of a chain of readings: one that fails gives way to the next.
TryReading == In(Surface) /\ Enter("attempt", "none", "all")

RecoverClaimHint == In(Surface) /\ Enter("attempt", "none", "errors")

\* The citation once more, against False.
CiteAgainstFalse ==
  In(Surface) /\ ~prover.reductio /\ Enter("attempt", "reductio", "errors")

\* A step proved once more, or cited with less, under the lower limit.
Probe == In(Surface) /\ Enter("attempt", "probe", "all")

-----------------------------------------------------------------------------
(* Opacity, and the declarations themselves. *)

\* unfold opens any definition ...
Unfold(n) ==
  /\ In(Surface)
  /\ Len(pending) < MaxRestores
  /\ pending' = Append(pending, <<n, opacity[n]>>)
  /\ opacity' = [opacity EXCEPT ![n] = "transparent"]
  /\ UNCHANGED <<scope, steps, prover, stack, thrown, declined>>

\* ... and a quotient alias is opened where its constructors are used.
EngageOpaqueQuotientAlias(n) ==
  /\ In(Surface)
  /\ n \in Aliases /\ opacity[n] = "opaque"
  /\ Len(pending) < MaxRestores
  /\ pending' = Append(pending, <<n, opacity[n]>>)
  /\ opacity' = [opacity EXCEPT ![n] = "transparent"]
  /\ UNCHANGED <<scope, steps, prover, stack, thrown, declined>>

\* The oldest note about n that is later than the first k.
FirstNote(n, k) ==
  LET notes == {i \in (k + 1)..Len(pending) : pending[i][1] = n}
  IN CHOOSE i \in notes : \A j \in notes : i <= j

LastNote(n, k) ==
  LET notes == {i \in (k + 1)..Len(pending) : pending[i][1] = n}
  IN CHOOSE i \in notes : \A j \in notes : j <= i

Noted(n, k) == \E i \in (k + 1)..Len(pending) : pending[i][1] = n

\* A fault: the notes are undone from the oldest.
UndoneInOrder(k) ==
  [n \in Names |-> IF Noted(n, k) THEN pending[LastNote(n, k)][2] ELSE opacity[n]]

\* What undoing the notes back to the first k leaves: they are undone from the
\* newest, so that the oldest about a name is the last to be written.
Undone(k) ==
  [n \in Names |-> IF Noted(n, k) THEN pending[FirstNote(n, k)][2] ELSE opacity[n]]

\* ~OpacityRestoreScope
RestoreOpacities ==
  /\ opacity' = Undone(scope.start)
  /\ pending' = SubSeq(pending, 1, scope.start)
  /\ scope' = NoScope

OpenDefinition ==
  /\ In({"statement"})
  /\ scope' = [start |-> Len(pending), before |-> opacity]
  /\ stack' = Append(stack, Frame("definition", "none", "none"))
  /\ UNCHANGED <<opacity, pending, steps, prover, thrown, declined>>

\* addDefinition, addAxiom and addInductive reset the counter, whether or not
\* they accept.
Register ==
  /\ In({"definition", "axiom"})
  /\ steps' = 0
  /\ thrown' \in {"no", "error"}
  /\ UNCHANGED <<opacityVars, prover, stack, declined>>

CloseDefinition ==
  /\ stack # <<>> /\ Top.kind = "definition"
  /\ RestoreOpacities
  /\ stack' = Below
  /\ UNCHANGED <<steps, prover, thrown, declined>>

-----------------------------------------------------------------------------
(* The driver. *)

StartStatement ==
  /\ stack = <<>> /\ thrown = "no"
  /\ \E kind \in {"statement", "axiom"} :
       stack' = <<Frame(kind, "none", "none")>>
  /\ declined' = FALSE
  /\ UNCHANGED <<opacityVars, steps, prover, thrown>>

\* What leaves a statement leaves the module, unless the driver tries again.
EndStatement ==
  /\ stack # <<>> /\ Top.kind \in {"statement", "axiom"}
  /\ stack' = Below
  /\ UNCHANGED <<opacityVars, steps, prover, thrown, declined>>

\* The statement again, with an uncapped bridge, for the sake of the message:
\* describeDeepEqualityRoute.
DescribeDeepEqualityRoute ==
  /\ stack = <<>> /\ thrown = "error" /\ declined
  /\ \E kind \in {"statement", "axiom"} :
       stack' = <<Frame("retry", "uncapped", "report"),
                  [Frame(kind, "none", "none") EXCEPT !.saved = Guarded("uncapped", prover)]>>
  /\ prover' = Guarded("uncapped", prover)
  /\ thrown' = "no"
  /\ declined' = FALSE
  /\ UNCHANGED <<opacityVars, steps>>

EndRetry ==
  /\ stack # <<>> /\ Top.kind = "retry"
  /\ stack' = Below
  /\ prover' = Leave(Top, prover, thrown)
  /\ thrown' = After(Top, thrown)
  /\ UNCHANGED <<opacityVars, steps, declined>>

Flow   == Return \/ Unwind \/ NextCandidate
Work   == Reduce \/ Spend \/ Fail
Tactic ==
  \/ TryAutoProveEqualityGoal \/ CalcDescends \/ TryOrderedFieldTier
  \/ TryConjunctionIntro \/ TryContextFactMatch \/ TryDisjunctionIntro
  \/ TryContextEqualityBridge \/ BridgeDeclines \/ TrySymmetryFlip
  \/ TryReductio \/ ZetaRetry
Citation ==
  \/ DischargeFallback \/ AutoFillPremise \/ DischargePremise
  \/ ResolvePremises \/ ResolveSlot
  \/ TrySubLemmaSharingMetavars \/ TryGuessUndeterminedPremise
Source ==
  \/ BareStep \/ ProveCitedFact \/ ProveUnaided \/ FiniteCheckCase \/ Substitute
  \/ SubstitutedPremise \/ DischargeTrailingSideConditions \/ RewriteStep
  \/ TryReading \/ RecoverClaimHint \/ CiteAgainstFalse \/ Probe
Opening     == \E n \in Names : Unfold(n) \/ EngageOpaqueQuotientAlias(n)
Declaration == OpenDefinition \/ Register \/ CloseDefinition
Driver ==
  StartStatement \/ EndStatement \/ DescribeDeepEqualityRoute \/ EndRetry

Next == Flow \/ Work \/ Tactic \/ Citation \/ Source \/ Opening \/ Declaration \/ Driver

Spec == Init /\ [][Next]_vars
-----------------------------------------------------------------------------
(* Properties. *)

\* Every variable keeps its type; the depths stay within their caps.
TypeOK ==
  /\ opacity \in [Names -> Opacities]
  /\ pending \in Restores
  /\ scope \in Scopes
  /\ steps \in 0..MaxSteps
  /\ prover \in Controls
  /\ prover.depth <= MaxDepth + 1
  /\ prover.chaining <= ChainCap
  /\ prover.flips <= 1
  /\ stack \in Seq(Frames)
  /\ thrown \in Thrown
  /\ declined \in BOOLEAN

\* A trip is latched in the window it happened in, and is the one thing a
\* scope may leave behind.
Untripped(c) == [c EXCEPT !.tripped = FALSE]

\* However a scope is left, by a return or by any exception, every counter,
\* flag and limit of the prover is again what it was when the scope was
\* entered: a discharge out of budget must not lower the cap for the rest of
\* the file (inference.cpp, step 5d).
ScopesRestore ==
  [][Len(stack') < Len(stack) => Untripped(prover') = Untripped(Top.saved)]_vars

\* A definition's elaboration leaves every opacity as it found it, whatever
\* was unfolded, twice or not, and whatever was thrown.
OpacityRestored ==
  [][stack # <<>> /\ Top.kind = "definition" /\ Len(stack') < Len(stack)
       => opacity' = scope.before]_vars

\* The counter is never behind the snapshot of an open window: a declaration
\* is never added inside a search, and the guard against the reset in
\* autoProveSpend never hides a use of the budget.
WindowsOutliveNoReset == prover.active => steps >= prover.snapshot

\* A resolution of step 5e has opened the window, here or further out.
Resolving == \E i \in 1..Len(stack) : stack[i].kind = "resolve" /\ stack[i].armed

\* A search in the author's own claim or calc step is reported out of budget
\* only when its window is: no trip survives the window, and no limit is lowered
\* inside it, "poisoning the rest of the claim" (internal.hpp, CheapProveWindow).
\* Where step 5e has opened the window this fails: it fills a sublemma's premise
\* under the lower limit.
ClaimTripsAreReal ==
  prover.tripped =>
    prover.active /\ (Resolving \/ Consumed(prover) >= prover.limit)

\* A search that ran out of budget reaches the author with its goal: the bare
\* error is reissued or absorbed before it reaches what the source says.
BareTripsStayInside ==
  thrown = "raw" =>
    stack # <<>> /\ Top.kind \in {"claim", "calc", "scan", "resolve", "sublemma"}

\* The scan over the facts in scope never starts a search of its own, whatever
\* lemma it tries (induction.cpp: the prover -> scan -> citation-fill loop).
ScansDoNotSearch ==
  \A i, j \in 1..Len(stack) : i < j /\ stack[i].kind = "scan" => stack[j].kind # "claim"
=============================================================================
