---------------------------- MODULE KernelCaches ----------------------------
(***************************************************************************)
(* The reduction engine of the kernel (src/kernel/kernel.cpp) as the       *)
(* machine it is: weakHeadNormalForm and isDefinitionallyEqual call each    *)
(* other on one thread, share memo tables that outlive the call, cut        *)
(* cycles with in-flight sets, and give up on fuel and on depth.  Between   *)
(* calls the elaborator declares definitions, opens opaque ones for the     *)
(* rest of a declaration, closes them again, and asks about a second        *)
(* environment.                                                            *)
(*                                                                         *)
(* The syntax is a table: an expression is a model value, and the constants *)
(* say what it is headed by and what each rule makes of it.  The control is *)
(* the code's: one frame of `stack` per C++ frame, one action per wrapper   *)
(* branch and per rule.                                                    *)
(***************************************************************************)
EXTENDS Naturals, Sequences, FiniteSets

CONSTANTS
  Environments,   \* the environments the elaborator queries
  Module,         \* the one it declares into
  Names,          \* the definitions that matter to the expressions below
  InitialStatus,  \* how each environment starts out
  Expressions,
  NoExpression,   \* a null ExpressionPointer, a query that threw
  Queries,        \* the calls made from outside the kernel
  MaxDepth,       \* kernelMaxReductionDepth
  MaxFuel,        \* defaultFuel
  Nobody          \* no name, and a null owner

(***************************************************************************)
(* The syntax table.  The functions are total: their value is irrelevant    *)
(* on an expression of another kind.                                       *)
(***************************************************************************)
CONSTANTS
  Kind,           \* "constant", "let", "application" or "value"
  NameOf,         \* of a constant
  BodyOf,         \* of a constant: the body, universe arguments substituted
  IllFormed,      \* constants with the wrong number of universe arguments
  LetBody,        \* of a let: the body with the value substituted
  HeadOf,         \* of an application: the head of its spine
  WithHead,       \* of an application and a head: the spine re-applied
  Lambdas,        \* the heads beta contracts
  Contractum,     \* of an application and a lambda its head reduced to
  Saturated,      \* applications headed by a constant that inspects one of
                  \* its arguments: a recursor, Quotient.lift
  Target,         \* of a saturated application: the argument inspected
  IotaMatches,    \* the pairs of such an application and a reduced target
  Parameters,     \* of such a pair: the parameter comparisons, in order
  Reduct,         \* of such a pair: what iota yields
  Verdict,        \* of two weak head normal forms: the structural case
  Goals,          \* of two weak head normal forms: the sub-comparisons
  TypeOf,         \* inferType; NoExpression when it throws
  PropositionSort

(***************************************************************************)
(* What the answers mean.  Convertible[R] is the definitional equality of   *)
(* an environment whose reducible definitions are R.                       *)
(***************************************************************************)
CONSTANT Convertible

Statuses  == {"absent", "stuck", "opaque", "transparent"}
Pairs     == Expressions \X Expressions
Calls     == [op : {"whnf", "isDefEq"}, left : Expressions, right : Expressions]

Whnf(e)       == [op |-> "whnf", left |-> e, right |-> e]
IsDefEq(pair) == [op |-> "isDefEq", left |-> pair[1], right |-> pair[2]]
PairOf(call)  == <<call.left, call.right>>

ASSUME BoundsAssumption ==
  /\ MaxDepth \in Nat \ {0}
  /\ MaxFuel \in Nat

ASSUME EnvironmentAssumption ==
  /\ Module \in Environments
  /\ IsFiniteSet(Names)
  /\ InitialStatus \in [Environments -> [Names -> Statuses]]
  /\ Queries \subseteq Calls
  /\ Nobody \notin Names \cup Environments
  /\ NoExpression \notin Expressions

ASSUME SyntaxAssumption ==
  /\ Kind \in [Expressions -> {"constant", "let", "application", "value"}]
  /\ NameOf \in [Expressions -> Names]
  /\ BodyOf \in [Expressions -> Expressions]
  /\ LetBody \in [Expressions -> Expressions]
  /\ HeadOf \in [Expressions -> Expressions]
  /\ WithHead \in [Pairs -> Expressions]
  /\ Contractum \in [Pairs -> Expressions]
  /\ Target \in [Expressions -> Expressions]
  /\ Parameters \in [Pairs -> Seq(Pairs)]
  /\ Reduct \in [Pairs -> Expressions]
  /\ Verdict \in [Pairs -> {"equal", "differ", "binder", "spine", "none"}]
  /\ Goals \in [Pairs -> Seq(Pairs)]
  /\ TypeOf \in [Expressions -> Expressions \cup {NoExpression}]
  /\ PropositionSort \in Expressions
  /\ \A pair \in Pairs : Verdict[pair] \in {"binder", "spine"} => Goals[pair] # <<>>

\* Convertibility is an equivalence that contains every rule of the kernel
\* and is closed under its congruences; more reducible definitions only add.
ASSUME ConversionAssumption ==
  /\ Convertible \in [SUBSET Names -> SUBSET Pairs]
  /\ \A R, S \in SUBSET Names : R \subseteq S => Convertible[R] \subseteq Convertible[S]
  /\ \A R \in SUBSET Names :
       /\ \A e \in Expressions : <<e, e>> \in Convertible[R]
       /\ \A e, f \in Expressions :
            <<e, f>> \in Convertible[R] => <<f, e>> \in Convertible[R]
       /\ \A e, f, g \in Expressions :
            <<e, f>> \in Convertible[R] /\ <<f, g>> \in Convertible[R]
              => <<e, g>> \in Convertible[R]

ASSUME ReductionAssumption ==
  \A R \in SUBSET Names : \A e \in Expressions :
    /\ Kind[e] = "constant" /\ NameOf[e] \in R /\ e \notin IllFormed
         => <<e, BodyOf[e]>> \in Convertible[R]
    /\ Kind[e] = "let" => <<e, LetBody[e]>> \in Convertible[R]
    /\ Kind[e] = "application" =>
         \A h \in Expressions : <<HeadOf[e], h>> \in Convertible[R] =>
           /\ <<e, WithHead[<<e, h>>]>> \in Convertible[R]
           /\ h \in Lambdas => <<e, Contractum[<<e, h>>]>> \in Convertible[R]
    /\ e \in Saturated =>
         \A target \in Expressions :
           (/\ <<Target[e], target>> \in Convertible[R]
            /\ <<e, target>> \in IotaMatches
            /\ \A i \in 1..Len(Parameters[<<e, target>>]) :
                 Parameters[<<e, target>>][i] \in Convertible[R])
           => <<e, Reduct[<<e, target>>]>> \in Convertible[R]

ASSUME ComparisonAssumption ==
  \A R \in SUBSET Names : \A pair \in Pairs :
    /\ Verdict[pair] = "equal" => pair \in Convertible[R]
    /\ (/\ Verdict[pair] \in {"binder", "spine"}
        /\ \A i \in 1..Len(Goals[pair]) : Goals[pair][i] \in Convertible[R])
       => pair \in Convertible[R]
    /\ (/\ TypeOf[pair[1]] # NoExpression
        /\ TypeOf[pair[2]] # NoExpression
        /\ TypeOf[TypeOf[pair[1]]] # NoExpression
        /\ <<TypeOf[TypeOf[pair[1]]], PropositionSort>> \in Convertible[R]
        /\ <<TypeOf[pair[1]], TypeOf[pair[2]]>> \in Convertible[R])
       => pair \in Convertible[R]

-----------------------------------------------------------------------------
VARIABLES
  status,       \* per environment and name: declared? with a body? opacity
  opened,       \* pendingOpacityRestores_: names opened by this declaration
  adding,       \* the name addDefinition is checking, or Nobody
  owner,        \* kernelCacheOwner; Nobody is nullptr
  ownerSize,    \* kernelCacheOwnerSize
  whnfCache,
  trueCache,    \* isDefEqTrueCache
  whnfInFlight,
  eqInFlight,   \* isDefEqInFlight
  epoch,        \* loopShortCircuitEpoch
  env,          \* the environment of the call being answered
  query,        \* the call made from outside
  stack, depth, \* the wrapper frames, and kernelReductionDepth
  mode,         \* "idle", "enter" a wrapper, "run" its body, "reply" to a caller
  reply,
  excuses       \* why a table may now hold an answer a fresh call would not give

environmentVars == <<status, opened, adding>>
ownerVars       == <<owner, ownerSize>>
tables          == <<whnfCache, trueCache>>
inFlight        == <<whnfInFlight, eqInFlight>>
callVars        == <<env, query>>
control         == <<stack, depth, mode, reply>>
vars == <<environmentVars, ownerVars, tables, inFlight, epoch, callVars,
          control, excuses>>

\* The declarations of an environment that reduce, and how many it has.
Transparent(s)   == {n \in Names : s[n] = "transparent"}
Reducible(e)     == Transparent(status[e])
DeclarationCount(e) == Cardinality({n \in Names : status[e][n] # "absent"})

\* A frame: the call, where its body stands, the expression whnf works on or
\* the reduced left side, the reduced target or right side, the loop index
\* over parameters or goals, the fuel left, and epochBefore.
PCs    == {"start", "head", "target", "parameter",
           "left", "right", "compare", "goal", "irrelevance", "kind", "types"}
Frames == [call : Calls, pc : PCs, subject : Expressions, other : Expressions,
           next : Nat, fuel : Nat, epochBefore : Nat]

Replies == [kind : {"none", "value", "truth", "exhausted", "typeError"},
            value : Expressions, truth : BOOLEAN]
NoReply          == [kind |-> "none", value |-> PropositionSort, truth |-> FALSE]
ValueReply(e)    == [kind |-> "value", value |-> e, truth |-> FALSE]
TruthReply(b)    == [kind |-> "truth", value |-> PropositionSort, truth |-> b]
ThrowReply(kind) == [kind |-> kind, value |-> PropositionSort, truth |-> FALSE]

NewFrame(call, fuel, count) ==
  [call |-> call, pc |-> "start", subject |-> call.left, other |-> call.right,
   next |-> 0, fuel |-> fuel, epochBefore |-> count]
IdleFrame == NewFrame(Whnf(PropositionSort), 0, 0)

\* The call a suspended frame waits for, read off the place it stopped at.
Asked(f) ==
  IF f.pc = "head"           THEN Whnf(HeadOf[f.subject])
  ELSE IF f.pc = "target"    THEN Whnf(Target[f.subject])
  ELSE IF f.pc = "parameter" THEN IsDefEq(Parameters[<<f.subject, f.other>>][f.next])
  ELSE IF f.pc = "left"      THEN Whnf(f.call.left)
  ELSE IF f.pc = "right"     THEN Whnf(f.call.right)
  ELSE IF f.pc = "goal"      THEN IsDefEq(Goals[<<f.subject, f.other>>][f.next])
  ELSE IF f.pc = "kind"      THEN Whnf(TypeOf[TypeOf[f.subject]])
  ELSE IF f.pc = "types"     THEN IsDefEq(<<TypeOf[f.subject], TypeOf[f.other]>>)
  ELSE f.call

\* The call being entered or just answered, and the fuel passed with it.
CallAt(d) == IF d = 0 THEN query ELSE Asked(stack[d])
FuelAt(d) == IF d = 0 THEN MaxFuel ELSE stack[d].fuel
TheCall   == CallAt(depth)
Top       == stack[depth]

-----------------------------------------------------------------------------
Init ==
  /\ status = InitialStatus
  /\ opened = {}
  /\ adding = Nobody
  /\ owner = Nobody
  /\ ownerSize = 0
  /\ whnfCache = {} /\ trueCache = {}
  /\ whnfInFlight = {} /\ eqInFlight = {}
  /\ epoch = 0
  /\ env = Module
  /\ query = Whnf(PropositionSort)
  /\ stack = [i \in 1..MaxDepth |-> IdleFrame]
  /\ depth = 0
  /\ mode = "idle"
  /\ reply = NoReply
  /\ excuses = {}

-----------------------------------------------------------------------------
(* What happens between two calls into the kernel. *)

\* KernelInstrumentationScope, at the entry of addDefinition: everything is
\* cleared, ownership is not.
BeginDeclaration(name) ==
  /\ mode = "idle"
  /\ adding = Nobody
  /\ status[Module][name] = "absent"
  /\ adding' = name
  /\ whnfCache' = {} /\ trueCache' = {}
  /\ whnfInFlight' = {} /\ eqInFlight' = {}
  /\ excuses' = {}
  /\ UNCHANGED <<status, opened, ownerVars, epoch, callVars, control>>

\* The emplace at the end of addDefinition, with the opacity it was given.
CommitDeclaration(opacity) ==
  /\ mode = "idle"
  /\ adding # Nobody
  /\ status' = [status EXCEPT ![Module][adding] = opacity]
  /\ adding' = Nobody
  /\ UNCHANGED <<opened, ownerVars, tables, inFlight, epoch, callVars, control,
                 excuses>>

\* A check of addDefinition throws before the emplace.
FailDeclaration ==
  /\ mode = "idle"
  /\ adding # Nobody
  /\ adding' = Nobody
  /\ UNCHANGED <<status, opened, ownerVars, tables, inFlight, epoch, callVars,
                 control, excuses>>

\* mutant: the opacity changes and the tables stay
KeepKernelCaches == UNCHANGED <<ownerVars, tables, inFlight, excuses>>

\* invalidateKernelCaches
InvalidateKernelCaches ==
  /\ whnfCache' = {} /\ trueCache' = {}
  /\ whnfInFlight' = {} /\ eqInFlight' = {}
  /\ owner' = Nobody
  /\ excuses' = {}
  /\ UNCHANGED ownerSize

\* The names of an `unfold` expression up to the last one flipped.
Flip(names) ==
  /\ mode = "idle"
  /\ adding = Nobody
  /\ names # {}
  /\ \A n \in names : status[Module][n] = "opaque"
  /\ status' = [status EXCEPT ![Module] =
                  [n \in Names |-> IF n \in names THEN "transparent" ELSE @[n]]]
  /\ opened' = opened \cup names
  /\ UNCHANGED <<adding, epoch, callVars, control>>

Unfold(names) == Flip(names) /\ InvalidateKernelCaches

\* A later name of the expression is not a definition: the throw leaves the
\* earlier ones flipped and never reaches invalidateKernelCaches.
UnfoldThrows(names) ==
  /\ Flip(names)
  /\ excuses' = excuses \cup {"unfold"}
  /\ UNCHANGED <<ownerVars, tables, inFlight>>

\* ~OpacityRestoreScope
RestoreOpacity ==
  /\ mode = "idle"
  /\ adding = Nobody
  /\ opened # {}
  /\ status' = [status EXCEPT ![Module] =
                  [n \in Names |-> IF n \in opened THEN "opaque" ELSE @[n]]]
  /\ opened' = {}
  /\ InvalidateKernelCaches
  /\ UNCHANGED <<adding, epoch, callVars, control>>

\* A call from outside.  Epochs are only compared within one call, so it
\* starts from zero here instead of growing for ever.
Call(e, q) ==
  /\ mode = "idle"
  /\ env' = e
  /\ query' = q
  /\ epoch' = 0
  /\ mode' = "enter"
  /\ UNCHANGED <<environmentVars, ownerVars, tables, inFlight, stack, depth, reply,
                 excuses>>

Deliver ==
  /\ mode = "reply"
  /\ depth = 0
  /\ mode' = "idle"
  /\ reply' = NoReply
  /\ UNCHANGED <<environmentVars, ownerVars, tables, inFlight, epoch, callVars,
                 stack, depth, excuses>>

-----------------------------------------------------------------------------
(* The wrappers weakHeadNormalForm and isDefinitionallyEqual, on the way in. *)

\* mutant: ownership by address alone
OwnedByAddress == owner = env

Owned == owner = env /\ ownerSize = DeclarationCount(env)

\* ReductionDepthGuard
EnterTooDeep ==
  /\ mode = "enter"
  /\ depth = MaxDepth
  /\ mode' = "reply"
  /\ reply' = ThrowReply("exhausted")
  /\ UNCHANGED <<environmentVars, ownerVars, tables, inFlight, epoch, callVars,
                 stack, depth, excuses>>

\* ensureKernelCacheOwner, when it has something to do
ClaimCaches ==
  /\ mode = "enter"
  /\ depth < MaxDepth
  /\ ~Owned
  /\ owner' = env
  /\ ownerSize' = DeclarationCount(env)
  /\ whnfCache' = {} /\ trueCache' = {}
  /\ whnfInFlight' = {} /\ eqInFlight' = {}
  /\ excuses' = {}
  /\ UNCHANGED <<environmentVars, epoch, callVars, control>>

Entering(op) ==
  /\ mode = "enter"
  /\ depth < MaxDepth
  /\ Owned
  /\ TheCall.op = op

\* The wrapper answers without running the body.
Answer(r) ==
  /\ mode' = "reply"
  /\ reply' = r
  /\ UNCHANGED <<stack, depth>>

\* The wrapper runs the body, in a frame of its own.
Push ==
  /\ depth' = depth + 1
  /\ stack' = [stack EXCEPT ![depth + 1] =
                 NewFrame(TheCall, FuelAt(depth), epoch)]
  /\ mode' = "run"
  /\ UNCHANGED reply

EnterWhnfHit ==
  /\ Entering("whnf")
  /\ \E pair \in whnfCache : pair[1] = TheCall.left /\ Answer(ValueReply(pair[2]))
  /\ UNCHANGED <<environmentVars, ownerVars, tables, inFlight, epoch, callVars, excuses>>

WhnfMissed == \A pair \in whnfCache : pair[1] # TheCall.left

EnterWhnfLoop ==
  /\ Entering("whnf")
  /\ WhnfMissed
  /\ TheCall.left \in whnfInFlight
  /\ epoch' = epoch + 1
  /\ Answer(ValueReply(TheCall.left))
  /\ UNCHANGED <<environmentVars, ownerVars, tables, inFlight, callVars, excuses>>

EnterWhnf ==
  /\ Entering("whnf")
  /\ WhnfMissed
  /\ TheCall.left \notin whnfInFlight
  /\ whnfInFlight' = whnfInFlight \cup {TheCall.left}
  /\ Push
  /\ UNCHANGED <<environmentVars, ownerVars, tables, eqInFlight, epoch, callVars, excuses>>

EnterEqHit ==
  /\ Entering("isDefEq")
  /\ PairOf(TheCall) \in trueCache
  /\ Answer(TruthReply(TRUE))
  /\ UNCHANGED <<environmentVars, ownerVars, tables, inFlight, epoch, callVars, excuses>>

EnterEqLoop ==
  /\ Entering("isDefEq")
  /\ PairOf(TheCall) \notin trueCache
  /\ PairOf(TheCall) \in eqInFlight
  /\ epoch' = epoch + 1
  /\ Answer(TruthReply(FALSE))
  /\ UNCHANGED <<environmentVars, ownerVars, tables, inFlight, callVars, excuses>>

EnterEq ==
  /\ Entering("isDefEq")
  /\ PairOf(TheCall) \notin trueCache
  /\ PairOf(TheCall) \notin eqInFlight
  /\ eqInFlight' = eqInFlight \cup {PairOf(TheCall)}
  /\ Push
  /\ UNCHANGED <<environmentVars, ownerVars, tables, whnfInFlight, epoch, callVars, excuses>>

-----------------------------------------------------------------------------
(* ... and on the way out. *)

\* The frame is gone: its in-flight entry is erased on every path, and a
\* result is memoised iff no cycle was cut below it.
Leave(r) ==
  /\ depth' = depth - 1
  /\ stack' = [stack EXCEPT ![depth] = IdleFrame]
  /\ mode' = "reply"
  /\ reply' = r

Untouched == UNCHANGED <<environmentVars, ownerVars, epoch, callVars>>

LeaveWhnf(r) ==
  /\ Leave(r)
  /\ whnfInFlight' = whnfInFlight \ {Top.call.left}
  /\ UNCHANGED <<eqInFlight, trueCache>>

LeaveEq(r) ==
  /\ Leave(r)
  /\ eqInFlight' = eqInFlight \ {PairOf(Top.call)}
  /\ UNCHANGED <<whnfInFlight, whnfCache>>

\* mutant: results above a cut cycle are memoised too
AlwaysMemoise == TRUE

NothingCut == Top.epochBefore = epoch

ReturnWhnf(e) ==
  /\ LeaveWhnf(ValueReply(e))
  /\ whnfCache' = whnfCache \cup (IF NothingCut THEN {<<Top.call.left, e>>} ELSE {})
  /\ UNCHANGED excuses

\* mutant: the exception leaves the in-flight entry behind
ThrowWhnfForgetting(kind) ==
  /\ Leave(ThrowReply(kind))
  /\ UNCHANGED <<whnfCache, trueCache, inFlight, excuses>>

ThrowWhnf(kind) ==
  /\ LeaveWhnf(ThrowReply(kind))
  /\ UNCHANGED <<whnfCache, excuses>>

ReturnEq(answer) ==
  /\ LeaveEq(TruthReply(answer))
  /\ trueCache' = trueCache \cup
                    (IF answer /\ NothingCut THEN {PairOf(Top.call)} ELSE {})

ThrowEq(kind) ==
  /\ LeaveEq(ThrowReply(kind))
  /\ UNCHANGED <<trueCache, excuses>>

Running(op, pc) == mode = "run" /\ Top.call.op = op /\ Top.pc = pc
Answered(pc, kinds) ==
  mode = "reply" /\ depth > 0 /\ Top.pc = pc /\ reply.kind \in kinds

\* The body continues in the same frame, or suspends on a call of its own.
Continue(f) ==
  /\ stack' = [stack EXCEPT ![depth] = f]
  /\ mode' = "run"
  /\ reply' = NoReply
  /\ UNCHANGED <<depth, tables, inFlight, excuses>>

Suspend(f) ==
  /\ stack' = [stack EXCEPT ![depth] = f]
  /\ mode' = "enter"
  /\ reply' = NoReply
  /\ UNCHANGED <<depth, tables, inFlight, excuses>>

-----------------------------------------------------------------------------
(* weakHeadNormalFormUncached: one turn of its loop. *)

\* mutant: a turn of the loop is free
Unspent(f) == f

Spent(f) == [f EXCEPT !.fuel = @ - 1]
HasBody(e) == Kind[e] = "constant" /\ NameOf[e] \in Reducible(env)

WhnfOutOfFuel ==
  /\ Running("whnf", "start")
  /\ Top.fuel <= 1
  /\ ThrowWhnf("exhausted")
  /\ Untouched

WhnfTurn == Running("whnf", "start") /\ Top.fuel > 1

WhnfIllFormed ==
  /\ WhnfTurn
  /\ HasBody(Top.subject)
  /\ Top.subject \in IllFormed
  /\ ThrowWhnf("typeError")
  /\ Untouched

WhnfDelta ==
  /\ WhnfTurn
  /\ HasBody(Top.subject)
  /\ Top.subject \notin IllFormed
  /\ Continue([Spent(Top) EXCEPT !.subject = BodyOf[@]])
  /\ Untouched

WhnfZeta ==
  /\ WhnfTurn
  /\ Kind[Top.subject] = "let"
  /\ Continue([Spent(Top) EXCEPT !.subject = LetBody[@]])
  /\ Untouched

WhnfReduceHead ==
  /\ WhnfTurn
  /\ Kind[Top.subject] = "application"
  /\ Suspend([Spent(Top) EXCEPT !.pc = "head"])
  /\ Untouched

WhnfStuck ==
  /\ WhnfTurn
  /\ \/ Kind[Top.subject] = "value"
     \/ Kind[Top.subject] = "constant" /\ ~HasBody(Top.subject)
  /\ ReturnWhnf(Top.subject)
  /\ Untouched

\* The head came back: beta, a rule that inspects an argument, or stuck.
WhnfHeadReduced ==
  /\ Answered("head", {"value"})
  /\ LET head == reply.value
         application == WithHead[<<Top.subject, head>>]
     IN \/ /\ head \in Lambdas
           /\ Continue([Top EXCEPT !.pc = "start", !.subject = Contractum[<<@, head>>]])
        \/ /\ head \notin Lambdas
           /\ Kind[head] # "application" /\ application \in Saturated
           /\ Suspend([Top EXCEPT !.pc = "target", !.subject = application])
        \/ /\ head \notin Lambdas
           /\ Kind[head] = "application" \/ application \notin Saturated
           /\ ReturnWhnf(application)
  /\ Untouched

Contract(f) == Continue([f EXCEPT !.pc = "start", !.subject = Reduct[<<@, f.other>>]])

\* The inspected argument came back: the parameters are compared first.
WhnfTargetReduced ==
  /\ Answered("target", {"value"})
  /\ LET f == [Top EXCEPT !.other = reply.value]
     IN \/ /\ <<Top.subject, reply.value>> \notin IotaMatches
           /\ ReturnWhnf(Top.subject)
        \/ /\ <<Top.subject, reply.value>> \in IotaMatches
           /\ Parameters[<<f.subject, f.other>>] = <<>>
           /\ Contract(f)
        \/ /\ <<Top.subject, reply.value>> \in IotaMatches
           /\ Parameters[<<f.subject, f.other>>] # <<>>
           /\ Suspend([f EXCEPT !.pc = "parameter", !.next = 1])
  /\ Untouched

WhnfParameterCompared ==
  /\ Answered("parameter", {"truth"})
  /\ \/ /\ ~reply.truth
        /\ ReturnWhnf(Top.subject)
     \/ /\ reply.truth
        /\ Top.next < Len(Parameters[<<Top.subject, Top.other>>])
        /\ Suspend([Top EXCEPT !.next = @ + 1])
     \/ /\ reply.truth
        /\ Top.next = Len(Parameters[<<Top.subject, Top.other>>])
        /\ Contract(Top)
  /\ Untouched

\* catch (...) { erase; throw; }
WhnfUnwinds ==
  /\ Answered(Top.pc, {"exhausted", "typeError"})
  /\ Top.call.op = "whnf"
  /\ ThrowWhnf(reply.kind)
  /\ Untouched

-----------------------------------------------------------------------------
(* isDefinitionallyEqualImpl. *)

EqStart ==
  /\ Running("isDefEq", "start")
  /\ \/ /\ Top.fuel <= 1
        /\ ReturnEq(FALSE)
        /\ excuses' = excuses \cup {"budget"}
     \/ /\ Top.fuel > 1
        /\ Top.call.left = Top.call.right
        /\ ReturnEq(TRUE)
        /\ UNCHANGED excuses
     \/ /\ Top.fuel > 1
        /\ Top.call.left # Top.call.right
        /\ Suspend([Spent(Top) EXCEPT !.pc = "left"])
  /\ Untouched

EqLeftReduced ==
  /\ Answered("left", {"value"})
  /\ Suspend([Top EXCEPT !.pc = "right", !.subject = reply.value])
  /\ Untouched

EqRightReduced ==
  /\ Answered("right", {"value"})
  /\ Continue([Top EXCEPT !.pc = "compare", !.other = reply.value])
  /\ Untouched

EqCompare ==
  /\ Running("isDefEq", "compare")
  /\ LET pair == <<Top.subject, Top.other>>
     IN \/ /\ Top.subject = Top.other \/ Verdict[pair] = "equal"
           /\ ReturnEq(TRUE)
           /\ UNCHANGED excuses
        \/ /\ Top.subject # Top.other
           /\ Verdict[pair] = "differ"
           /\ ReturnEq(FALSE)
           /\ UNCHANGED excuses
        \/ /\ Top.subject # Top.other
           /\ Verdict[pair] \in {"binder", "spine"}
           /\ Suspend([Top EXCEPT !.pc = "goal", !.next = 1])
        \/ /\ Top.subject # Top.other
           /\ Verdict[pair] = "none"
           /\ Continue([Top EXCEPT !.pc = "irrelevance"])
  /\ Untouched

\* A binder is decided by its parts; a spine (and eta) may still be a proof.
EqGoalCompared ==
  /\ Answered("goal", {"truth"})
  /\ LET pair == <<Top.subject, Top.other>>
     IN \/ /\ reply.truth
           /\ Top.next < Len(Goals[pair])
           /\ Suspend([Top EXCEPT !.next = @ + 1])
        \/ /\ reply.truth
           /\ Top.next = Len(Goals[pair])
           /\ ReturnEq(TRUE)
           /\ UNCHANGED excuses
        \/ /\ ~reply.truth
           /\ Verdict[pair] = "binder"
           /\ ReturnEq(FALSE)
           /\ UNCHANGED excuses
        \/ /\ ~reply.truth
           /\ Verdict[pair] # "binder"
           /\ Continue([Top EXCEPT !.pc = "irrelevance"])
  /\ Untouched

Typed(e) == TypeOf[e] # NoExpression

\* Proof irrelevance: both sides prove the same proposition.
EqIrrelevance ==
  /\ Running("isDefEq", "irrelevance")
  /\ \/ /\ Typed(Top.subject) /\ Typed(TypeOf[Top.subject])
        /\ Suspend([Top EXCEPT !.pc = "kind"])
     \/ /\ ~(Typed(Top.subject) /\ Typed(TypeOf[Top.subject]))
        /\ ReturnEq(FALSE)
        /\ UNCHANGED excuses
  /\ Untouched

\* mutant: any two terms of one type are equal, whatever the sort
EqKindIgnored ==
  /\ Answered("kind", {"value"})
  /\ \/ /\ Typed(Top.other)
        /\ Suspend([Top EXCEPT !.pc = "types"])
     \/ /\ ~Typed(Top.other)
        /\ ReturnEq(FALSE)
        /\ UNCHANGED excuses
  /\ Untouched

EqKindReduced ==
  /\ Answered("kind", {"value"})
  /\ \/ /\ reply.value = PropositionSort /\ Typed(Top.other)
        /\ Suspend([Top EXCEPT !.pc = "types"])
     \/ /\ ~(reply.value = PropositionSort /\ Typed(Top.other))
        /\ ReturnEq(FALSE)
        /\ UNCHANGED excuses
  /\ Untouched

EqTypesCompared ==
  /\ Answered("types", {"truth"})
  /\ ReturnEq(reply.truth)
  /\ UNCHANGED excuses
  /\ Untouched

\* A budget ran out somewhere below: a conservative FALSE, the epoch as it was.
EqGivesUp ==
  /\ Answered(Top.pc, {"exhausted"})
  /\ Top.call.op = "isDefEq"
  /\ ReturnEq(FALSE)
  /\ excuses' = excuses \cup {"budget"}
  /\ Untouched

\* A TypeError is swallowed by the irrelevance test and rethrown elsewhere.
EqTypeError ==
  /\ Answered(Top.pc, {"typeError"})
  /\ Top.call.op = "isDefEq"
  /\ \/ /\ Top.pc \in {"kind", "types"}
        /\ ReturnEq(FALSE)
        /\ UNCHANGED excuses
     \/ /\ Top.pc \notin {"kind", "types"}
        /\ ThrowEq("typeError")
  /\ Untouched

-----------------------------------------------------------------------------
Elaborator ==
  \/ \E n \in Names : BeginDeclaration(n)
  \/ \E o \in {"opaque", "transparent"} : CommitDeclaration(o)
  \/ FailDeclaration
  \/ \E S \in SUBSET Names : Unfold(S) \/ UnfoldThrows(S)
  \/ RestoreOpacity
  \/ \E e \in Environments, q \in Queries : Call(e, q)

Wrapper ==
  \/ EnterTooDeep \/ ClaimCaches
  \/ EnterWhnfHit \/ EnterWhnfLoop \/ EnterWhnf
  \/ EnterEqHit \/ EnterEqLoop \/ EnterEq
  \/ Deliver

WhnfBody ==
  \/ WhnfOutOfFuel \/ WhnfIllFormed \/ WhnfDelta \/ WhnfZeta \/ WhnfReduceHead
  \/ WhnfStuck \/ WhnfHeadReduced \/ WhnfTargetReduced \/ WhnfParameterCompared
  \/ WhnfUnwinds

EqBody ==
  \/ EqStart \/ EqLeftReduced \/ EqRightReduced \/ EqCompare \/ EqGoalCompared
  \/ EqIrrelevance \/ EqKindReduced \/ EqTypesCompared \/ EqGivesUp \/ EqTypeError

Kernel == Wrapper \/ WhnfBody \/ EqBody
Next   == Elaborator \/ Kernel

\* The kernel is a running function: it takes its steps.
Spec == Init /\ [][Next]_vars /\ WF_vars(Kernel)
-----------------------------------------------------------------------------
(* Properties. *)

\* Every variable keeps its type: frames above `depth` are idle ones, the
\* tables hold pairs of expressions, the owner is an environment or null.
TypeOK ==
  /\ status \in [Environments -> [Names -> Statuses]]
  /\ opened \in SUBSET Names
  /\ adding \in Names \cup {Nobody}
  /\ owner \in Environments \cup {Nobody}
  /\ ownerSize \in Nat
  /\ whnfCache \in SUBSET Pairs /\ trueCache \in SUBSET Pairs
  /\ whnfInFlight \in SUBSET Expressions /\ eqInFlight \in SUBSET Pairs
  /\ epoch \in Nat
  /\ env \in Environments /\ query \in Calls
  /\ stack \in [1..MaxDepth -> Frames] /\ depth \in 0..MaxDepth
  /\ mode \in {"idle", "enter", "run", "reply"}
  /\ reply \in Replies
  /\ excuses \subseteq {"budget", "unfold"}

\* What it means for an answer to a call to be sound.
Sound(call, r) ==
  /\ r.kind = "value" => <<call.left, r.value>> \in Convertible[Reducible(env)]
  /\ r.kind = "truth" /\ r.truth => PairOf(call) \in Convertible[Reducible(env)]

\* Acceptance by the kernel needs a TRUE.  No table ever holds an answer that
\* is wrong for the environment it is kept for, whatever was declared, opened,
\* closed or asked of another environment since it was computed: every pair
\* of isDefEqTrueCache is convertible and every whnfCache entry is convertible
\* to its key, under the opacities in force now.
CachesSound ==
  owner # Nobody => whnfCache \cup trueCache \subseteq Convertible[Reducible(owner)]

\* The same for what a caller outside the kernel is told.
AnswersSound == mode = "reply" /\ depth = 0 => Sound(query, reply)

\* The in-flight sets are exactly the calls on the stack, also after fuel ran
\* out, the depth guard threw or a TypeError unwound half of it: an entry left
\* behind would make a later, unrelated call short-circuit.
InFlightMatchesStack ==
  LET Frame(op) == {i \in 1..depth : stack[i].call.op = op}
  IN /\ whnfInFlight = {stack[i].call.left : i \in Frame("whnf")}
     /\ eqInFlight = {PairOf(stack[i].call) : i \in Frame("isDefEq")}
     /\ \A i, j \in 1..depth : stack[i].call = stack[j].call => i = j

\* Every call returns: fuel bounds each loop, the depth guard and the
\* in-flight sets bound the nesting.
CallsReturn == (mode = "enter") ~> (mode = "idle")
=============================================================================
