------------------------- MODULE KernelCachesProofs -------------------------
(***************************************************************************)
(* No table of the kernel ever holds a wrong answer and no caller is ever   *)
(* told one: CachesSound and AnswersSound of KernelCaches, for every        *)
(* library, every depth and fuel bound and every history of declarations,   *)
(* opacity changes and queries.                                            *)
(*                                                                         *)
(* The invariant is the call stack read as a proof in progress: each frame  *)
(* has established what its place in the code says it has, each frame was   *)
(* entered for the call its caller waits for, and the tables and the reply  *)
(* on its way up are sound under the opacities in force.                    *)
(* InFlightMatchesStack has an invariant of its own.  Last comes why every  *)
(* call ends: a rank that each step of the kernel lowers, and a step to take *)
(* as long as it has not.                                                  *)
(***************************************************************************)
EXTENDS KernelCaches, FiniteSetTheorems, WellFoundedInduction, TLAPS

\* What a frame has established, C being the convertibility in force.
FrameSound(C, f) ==
  /\ f.call.op = "whnf" =>
       /\ f.pc \in {"start", "head", "target", "parameter"}
       /\ <<f.call.left, f.subject>> \in C
  /\ f.call.op = "isDefEq" =>
       f.pc \in {"start", "left", "right", "compare", "goal", "irrelevance",
                 "kind", "types"}
  /\ f.pc = "head" => Kind[f.subject] = "application"
  /\ f.pc \in {"target", "parameter"} => f.subject \in Saturated
  /\ f.pc = "parameter" =>
       /\ <<Target[f.subject], f.other>> \in C
       /\ <<f.subject, f.other>> \in IotaMatches
       /\ f.next \in 1..Len(Parameters[<<f.subject, f.other>>])
       /\ \A i \in 1..(f.next - 1) : Parameters[<<f.subject, f.other>>][i] \in C
  /\ f.pc \in {"right", "compare", "goal", "irrelevance", "kind", "types"} =>
       <<f.call.left, f.subject>> \in C
  /\ f.pc \in {"compare", "goal", "irrelevance", "kind", "types"} =>
       <<f.call.right, f.other>> \in C
  /\ f.pc = "goal" =>
       /\ Verdict[<<f.subject, f.other>>] \in {"binder", "spine"}
       /\ f.next \in 1..Len(Goals[<<f.subject, f.other>>])
       /\ \A i \in 1..(f.next - 1) : Goals[<<f.subject, f.other>>][i] \in C
  /\ f.pc \in {"kind", "types"} => Typed(f.subject) /\ Typed(TypeOf[f.subject])
  /\ f.pc = "types" =>
       /\ Typed(f.other)
       /\ <<TypeOf[TypeOf[f.subject]], PropositionSort>> \in C

Now == Convertible[Reducible(env)]

SoundFor(C, call, r) ==
  /\ r.kind = "value" => <<call.left, r.value>> \in C
  /\ r.kind = "truth" /\ r.truth => PairOf(call) \in C

Linked       == \A i \in 1..depth : stack[i].call = CallAt(i - 1)
FramesSound  == \A i \in 1..depth : FrameSound(Now, stack[i])
ReplySound   == mode = "reply" => SoundFor(Now, TheCall, reply)
ModeOK ==
  /\ depth > 0 => owner = env
  /\ mode = "idle" => depth = 0
  /\ mode = "run" => depth > 0 /\ Top.pc \in {"start", "compare", "irrelevance"}
  /\ adding # Nobody => status[Module][adding] = "absent"

IInv == TypeOK /\ Linked /\ FramesSound /\ ReplySound /\ CachesSound /\ ModeOK

-----------------------------------------------------------------------------
(* Convertibility, one rule at a time. *)

\* The opacities an environment can have index the conversion relation.
LEMMA NowIsConvertibility ==
  ASSUME TypeOK
  PROVE  /\ \A e \in Environments : Reducible(e) \in SUBSET Names
         /\ Now \in SUBSET Pairs
  BY ConversionAssumption DEF TypeOK, Reducible, Transparent, Now

\* A convertibility is an equivalence between expressions.
IsConvertibility(C) == \E R \in SUBSET Names : C = Convertible[R]

LEMMA Equivalence ==
  ASSUME NEW C, IsConvertibility(C)
  PROVE  /\ C \in SUBSET Pairs
         /\ \A e \in Expressions : <<e, e>> \in C
         /\ \A e, f \in Expressions : <<e, f>> \in C => <<f, e>> \in C
         /\ \A e, f, g \in Expressions :
              <<e, f>> \in C /\ <<f, g>> \in C => <<e, g>> \in C
  BY ConversionAssumption DEF IsConvertibility

LEMMA NowEquivalence ==
  ASSUME TypeOK
  PROVE  IsConvertibility(Now)
  BY NowIsConvertibility DEF IsConvertibility, Now, TypeOK

-----------------------------------------------------------------------------
(* Types of the pieces. *)

LEMMA CallsTyped ==
  /\ \A e \in Expressions : Whnf(e) \in Calls
  /\ \A p \in Pairs : IsDefEq(p) \in Calls
  /\ \A c \in Calls : PairOf(c) \in Pairs
  /\ \A c \in Calls : c.left \in Expressions /\ c.right \in Expressions
  BY DEF Calls, Pairs, Whnf, IsDefEq, PairOf

\* A suspended frame waits for a well-formed call.
LEMMA AskedTyped ==
  ASSUME NEW C, NEW f \in Frames, FrameSound(C, f)
  PROVE  Asked(f) \in Calls
<1> USE SyntaxAssumption
<1>0. /\ f.call \in Calls /\ f.pc \in PCs
      /\ f.subject \in Expressions /\ f.other \in Expressions
      /\ f.call.left \in Expressions /\ f.call.right \in Expressions
      /\ <<f.subject, f.other>> \in Pairs
  BY CallsTyped DEF Frames, Pairs
<1>1. CASE f.pc = "head"
  <2>1. HeadOf[f.subject] \in Expressions
    BY <1>0
  <2> QED BY <1>1, <2>1, CallsTyped DEF Asked
<1>2. CASE f.pc = "target"
  <2>1. Target[f.subject] \in Expressions
    BY <1>0
  <2> QED BY <1>2, <2>1, CallsTyped DEF Asked
<1>3. CASE f.pc = "parameter"
  <2>1. Parameters[<<f.subject, f.other>>][f.next] \in Pairs
    BY <1>0, <1>3 DEF FrameSound
  <2> QED BY <1>3, <2>1, CallsTyped DEF Asked
<1>4. CASE f.pc = "left"
  BY <1>0, <1>4, CallsTyped DEF Asked
<1>5. CASE f.pc = "right"
  BY <1>0, <1>5, CallsTyped DEF Asked
<1>6. CASE f.pc = "goal"
  <2>1. Goals[<<f.subject, f.other>>][f.next] \in Pairs
    BY <1>0, <1>6 DEF FrameSound
  <2> QED BY <1>6, <2>1, CallsTyped DEF Asked
<1>7. CASE f.pc = "kind"
  <2>1. TypeOf[f.subject] \in Expressions /\ TypeOf[TypeOf[f.subject]] \in Expressions
    BY <1>0, <1>7 DEF FrameSound, Typed
  <2> QED BY <1>7, <2>1, CallsTyped DEF Asked
<1>8. CASE f.pc = "types"
  <2>1. <<TypeOf[f.subject], TypeOf[f.other]>> \in Pairs
    BY <1>0, <1>8 DEF FrameSound, Typed, Pairs
  <2> QED BY <1>8, <2>1, CallsTyped DEF Asked
<1>9. CASE f.pc \in {"start", "compare", "irrelevance"}
  BY <1>0, <1>9 DEF Asked
<1> QED BY <1>0, <1>1, <1>2, <1>3, <1>4, <1>5, <1>6, <1>7, <1>8, <1>9 DEF PCs

LEMMA CallAtTyped ==
  ASSUME IInv, NEW d \in 0..depth
  PROVE  CallAt(d) \in Calls
<1>1. CASE d = 0
  BY <1>1 DEF IInv, TypeOK, CallAt
<1>2. CASE d # 0
  <2>1. d \in 1..depth /\ d \in 1..MaxDepth /\ stack[d] \in Frames
    BY <1>2, BoundsAssumption DEF IInv, TypeOK
  <2>2. FrameSound(Now, stack[d])
    BY <2>1 DEF IInv, FramesSound
  <2> QED BY <1>2, <2>1, <2>2, AskedTyped DEF CallAt
<1> QED BY <1>1, <1>2

LEMMA RepliesTyped ==
  /\ NoReply \in Replies
  /\ \A e \in Expressions : ValueReply(e) \in Replies
  /\ \A b \in BOOLEAN : TruthReply(b) \in Replies
  /\ \A k \in {"exhausted", "typeError"} : ThrowReply(k) \in Replies
  BY SyntaxAssumption DEF Replies, NoReply, ValueReply, TruthReply, ThrowReply

LEMMA IdleFrameTyped == IdleFrame \in Frames
  BY SyntaxAssumption DEF IdleFrame, NewFrame, Frames, Calls, Whnf, PCs

-----------------------------------------------------------------------------
(* The three ways a kernel step moves the stack. *)

LEMMA TopTyped ==
  ASSUME IInv, depth > 0
  PROVE  /\ depth \in 1..MaxDepth /\ depth \in 1..depth
         /\ Top \in Frames /\ FrameSound(Now, Top)
         /\ owner = env /\ env \in Environments
  BY BoundsAssumption DEF IInv, TypeOK, FramesSound, ModeOK, Top

LEMMA NowUnchanged ==
  ASSUME UNCHANGED <<status, env>>
  PROVE  Now' = Now
  BY DEF Now, Reducible, Transparent

\* A frame that continues or suspends keeps its call and what it established.
LEMMA StepInFrame ==
  ASSUME IInv, depth > 0, Untouched,
         NEW f \in Frames, f.call = Top.call, FrameSound(Now, f),
         \/ Continue(f) /\ f.pc \in {"start", "compare", "irrelevance"}
         \/ Suspend(f)
  PROVE  IInv'
<1>0. /\ stack' = [stack EXCEPT ![depth] = f]
      /\ depth' = depth /\ reply' = NoReply
      /\ mode' \in {"run", "enter"}
      /\ mode' = "run" => f.pc \in {"start", "compare", "irrelevance"}
      /\ UNCHANGED <<tables, inFlight, excuses, environmentVars, ownerVars, epoch, callVars>>
  BY DEF Continue, Suspend, Untouched
<1>1. Now' = Now
  BY <1>0, NowUnchanged DEF environmentVars, callVars
<1>2. /\ depth \in 1..MaxDepth /\ depth \in Nat
      /\ stack \in [1..MaxDepth -> Frames]
      /\ stack'[depth] = f
      /\ \A i \in 1..MaxDepth : i # depth => stack'[i] = stack[i]
  BY <1>0, TopTyped, BoundsAssumption DEF IInv, TypeOK
<1>3. TypeOK'
  BY <1>0, <1>2, RepliesTyped
     DEF IInv, TypeOK, tables, inFlight, environmentVars, ownerVars, callVars
<1>4. Linked'
  <2> SUFFICES ASSUME NEW i \in 1..depth
               PROVE  stack'[i].call = CallAt(i - 1)'
    BY <1>0 DEF Linked
  <2>1. i \in 1..MaxDepth /\ stack'[i].call = stack[i].call
    <3>1. i \in 1..MaxDepth
      BY <1>2, BoundsAssumption
    <3>2. CASE i = depth
      BY <1>2, <3>1, <3>2 DEF Top
    <3>3. CASE i # depth
      BY <1>2, <3>1, <3>3
    <3> QED BY <3>1, <3>2, <3>3
  <2>2. CallAt(i - 1)' = CallAt(i - 1)
    <3>1. i - 1 = 0 \/ (i - 1 \in 1..MaxDepth /\ i - 1 # depth)
      BY <1>2, <2>1, BoundsAssumption
    <3> QED BY <1>0, <1>2, <3>1 DEF CallAt, callVars
  <2> QED BY <2>1, <2>2 DEF IInv, Linked
<1>5. FramesSound'
  BY <1>0, <1>1, <1>2 DEF IInv, FramesSound, TypeOK
<1>6. ReplySound'
  BY <1>0 DEF ReplySound
<1>7. CachesSound'
  BY <1>0 DEF IInv, CachesSound, Reducible, Transparent, tables, environmentVars, ownerVars
<1>8. ModeOK'
  BY <1>0, <1>2 DEF IInv, ModeOK, Top, callVars, ownerVars, environmentVars
<1> QED BY <1>3, <1>4, <1>5, <1>6, <1>7, <1>8 DEF IInv

\* A frame that returns or throws: its reply is sound for its call, and what
\* it leaves in the tables is sound.
LEMMA StepOut ==
  ASSUME IInv, depth > 0, Untouched,
         NEW r \in Replies, SoundFor(Now, Top.call, r), Leave(r),
         whnfCache' \cup trueCache' \subseteq Now,
         whnfInFlight' \subseteq Expressions, eqInFlight' \subseteq Pairs,
         excuses' \subseteq {"budget", "unfold"}
  PROVE  IInv'
<1>0. /\ stack' = [stack EXCEPT ![depth] = IdleFrame]
      /\ depth' = depth - 1 /\ mode' = "reply" /\ reply' = r
      /\ UNCHANGED <<environmentVars, ownerVars, epoch, callVars>>
  BY DEF Leave, Untouched
<1>1. Now' = Now
  BY <1>0, NowUnchanged DEF environmentVars, callVars
<1>2. /\ depth \in 1..MaxDepth /\ depth' \in 0..MaxDepth /\ depth' < depth
      /\ stack \in [1..MaxDepth -> Frames]
      /\ \A i \in 1..depth' : i \in 1..depth /\ i \in 1..MaxDepth /\ stack'[i] = stack[i]
  BY <1>0, TopTyped, BoundsAssumption DEF IInv, TypeOK
<1>3. TypeOK'
  <2>1. Now \in SUBSET Pairs
    BY NowIsConvertibility DEF IInv
  <2> QED BY <1>0, <1>2, <2>1, IdleFrameTyped
          DEF IInv, TypeOK, environmentVars, ownerVars, callVars
<1>4. \A d \in 0..depth' : CallAt(d)' = CallAt(d)
  BY <1>0, <1>2 DEF CallAt, callVars
<1>5. Linked'
  BY <1>2, <1>4 DEF IInv, Linked
<1>6. FramesSound'
  BY <1>1, <1>2 DEF IInv, FramesSound
<1>7. ReplySound'
  <2>1. TheCall' = CallAt(depth - 1)
    BY <1>0, <1>2 DEF TheCall, CallAt, callVars
  <2>2. Top.call = CallAt(depth - 1)
    BY <1>2 DEF IInv, Linked, Top
  <2>3. SoundFor(Now', TheCall', reply')
    BY <1>0, <1>1, <2>1, <2>2
  <2> QED BY <2>3 DEF ReplySound, SoundFor
<1>8. CachesSound'
  <2>1. owner = env /\ Now = Convertible[Reducible(env)]
    BY TopTyped DEF Now
  <2> QED BY <1>0, <2>1
          DEF CachesSound, Reducible, Transparent, environmentVars, ownerVars
<1>9. ModeOK'
  BY <1>0, TopTyped DEF IInv, ModeOK, ownerVars, callVars, environmentVars
<1> QED BY <1>3, <1>5, <1>6, <1>7, <1>8, <1>9 DEF IInv

\* A wrapper that answers at once.
LEMMA StepAnswered ==
  ASSUME IInv, mode = "enter",
         NEW r \in Replies, SoundFor(Now, TheCall, r), Answer(r),
         UNCHANGED <<environmentVars, ownerVars, tables, inFlight, callVars, excuses>>,
         epoch' \in Nat
  PROVE  IInv'
<1>0. /\ stack' = stack /\ depth' = depth /\ mode' = "reply" /\ reply' = r
  BY DEF Answer
<1>1. Now' = Now
  BY NowUnchanged DEF environmentVars, callVars
<1>2. TypeOK'
  BY <1>0 DEF IInv, TypeOK, environmentVars, ownerVars, tables, inFlight, callVars
<1>3. \A d : CallAt(d)' = CallAt(d)
  BY <1>0 DEF CallAt, callVars
<1>4. Linked' /\ FramesSound'
  BY <1>0, <1>1, <1>3 DEF IInv, Linked, FramesSound
<1>5. ReplySound'
  BY <1>0, <1>1, <1>3 DEF ReplySound, TheCall
<1>6. CachesSound'
  BY DEF IInv, CachesSound, Reducible, Transparent, environmentVars, ownerVars, tables
<1>7. ModeOK'
  BY <1>0 DEF IInv, ModeOK, ownerVars, callVars, environmentVars
<1> QED BY <1>2, <1>4, <1>5, <1>6, <1>7 DEF IInv

\* A wrapper that runs the body: the new frame has established nothing yet.
LEMMA StepIn ==
  ASSUME IInv, NEW op \in {"whnf", "isDefEq"}, Entering(op), Push,
         UNCHANGED <<environmentVars, ownerVars, tables, epoch, callVars, excuses>>,
         whnfInFlight' \subseteq Expressions, eqInFlight' \subseteq Pairs
  PROVE  IInv'
<1> DEFINE f == NewFrame(TheCall, FuelAt(depth), epoch)
<1>0. /\ mode = "enter" /\ depth < MaxDepth /\ owner = env
      /\ depth' = depth + 1 /\ mode' = "run" /\ reply' = reply
      /\ stack' = [stack EXCEPT ![depth + 1] = f]
  BY DEF Entering, Owned, Push
<1>1. Now' = Now
  BY NowUnchanged DEF environmentVars, callVars
<1>2. /\ depth \in 0..MaxDepth /\ depth' \in 1..MaxDepth
      /\ stack \in [1..MaxDepth -> Frames]
      /\ \A i \in 1..depth : i \in 1..MaxDepth /\ stack'[i] = stack[i]
      /\ stack'[depth'] = f
  BY <1>0, BoundsAssumption DEF IInv, TypeOK
<1>3. TheCall \in Calls /\ TheCall.left \in Expressions /\ TheCall.right \in Expressions
  <2>1. TheCall \in Calls
    BY <1>2, CallAtTyped DEF TheCall
  <2> QED BY <2>1, CallsTyped
<1>4. FuelAt(depth) \in Nat
  BY <1>2, BoundsAssumption DEF FuelAt, Frames
<1>5. f \in Frames /\ f.call = TheCall /\ f.pc = "start" /\ f.subject = TheCall.left
  <2>1. epoch \in Nat
    BY DEF IInv, TypeOK
  <2> QED BY <1>3, <1>4, <2>1 DEF NewFrame, Frames, PCs
<1>6. FrameSound(Now, f)
  <2>1. <<TheCall.left, TheCall.left>> \in Now
    BY <1>3, Equivalence, NowEquivalence DEF IInv
  <2> HIDE DEF f
  <2> QED BY <1>5, <2>1 DEF FrameSound
<1> HIDE DEF f
<1>7. TypeOK'
  BY <1>0, <1>2, <1>5
     DEF IInv, TypeOK, environmentVars, ownerVars, tables, callVars
<1>8. \A d \in 0..depth : CallAt(d)' = CallAt(d)
  BY <1>2 DEF CallAt, callVars
<1>9. Linked'
  <2> SUFFICES ASSUME NEW i \in 1..depth'
               PROVE  stack'[i].call = CallAt(i - 1)'
    BY DEF Linked
  <2>1. CASE i = depth'
    BY <1>0, <1>2, <1>5, <1>8, <2>1 DEF TheCall
  <2>2. CASE i # depth'
    BY <1>0, <1>2, <1>8, <2>2 DEF IInv, Linked
  <2> QED BY <2>1, <2>2
<1>10. FramesSound'
  BY <1>0, <1>1, <1>2, <1>6 DEF IInv, FramesSound
<1>11. CachesSound'
  BY DEF IInv, CachesSound, Reducible, Transparent, environmentVars, ownerVars, tables
<1>12. ModeOK' /\ ReplySound'
  BY <1>0, <1>2, <1>5
     DEF IInv, ModeOK, ReplySound, Top, callVars, ownerVars, environmentVars
<1> QED BY <1>7, <1>9, <1>10, <1>11, <1>12 DEF IInv

-----------------------------------------------------------------------------
(* Between calls. *)

LEMMA InitSound == Init => IInv
<1> SUFFICES ASSUME Init PROVE IInv
  OBVIOUS
<1>1. TypeOK
  BY SyntaxAssumption, EnvironmentAssumption, BoundsAssumption, IdleFrameTyped,
     RepliesTyped, CallsTyped
     DEF Init, TypeOK
<1>2. Linked /\ FramesSound /\ ReplySound /\ CachesSound /\ ModeOK
  BY <1>1, EnvironmentAssumption, BoundsAssumption
     DEF Init, Linked, FramesSound, ReplySound, CachesSound, ModeOK
<1> QED BY <1>1, <1>2 DEF IInv

\* With no frame on the stack only the tables and the pending name matter.
LEMMA StepAtRest ==
  ASSUME IInv, depth = 0, depth' = 0, TypeOK', CachesSound',
         mode' \in {"idle", "enter"},
         adding' # Nobody => status'[Module][adding'] = "absent"
  PROVE  IInv'
<1>1. Linked' /\ FramesSound'
  BY DEF Linked, FramesSound
<1>2. ReplySound' /\ ModeOK'
  BY DEF ReplySound, ModeOK
<1> QED BY <1>1, <1>2 DEF IInv

LEMMA BeginKeeps ==
  ASSUME IInv, NEW n \in Names, BeginDeclaration(n)
  PROVE  IInv'
<1>1. depth = 0 /\ depth' = 0 /\ mode' = "idle"
  BY DEF IInv, ModeOK, BeginDeclaration, control
<1>2. TypeOK'
  BY DEF IInv, TypeOK, BeginDeclaration, ownerVars, callVars, control
<1>3. CachesSound'
  BY DEF CachesSound, BeginDeclaration
<1> QED BY <1>1, <1>2, <1>3, StepAtRest DEF BeginDeclaration

LEMMA CommitKeeps ==
  ASSUME IInv, NEW o \in {"opaque", "transparent"}, CommitDeclaration(o)
  PROVE  IInv'
<1>1. depth = 0 /\ depth' = 0 /\ mode' = "idle"
  BY DEF IInv, ModeOK, CommitDeclaration, control
<1>2. /\ adding \in Names /\ status[Module][adding] = "absent"
      /\ status \in [Environments -> [Names -> Statuses]]
  BY DEF IInv, TypeOK, ModeOK, CommitDeclaration
<1>3. TypeOK'
  BY <1>2 DEF IInv, TypeOK, CommitDeclaration, ownerVars, tables, inFlight, callVars,
              control, Statuses
<1>4. \A e \in Environments : Reducible(e) \subseteq Reducible(e)'
  BY <1>2 DEF CommitDeclaration, Reducible, Transparent
<1>5. CachesSound'
  <2> SUFFICES ASSUME owner' # Nobody
               PROVE  whnfCache' \cup trueCache' \subseteq Convertible[Reducible(owner)']
    BY DEF CachesSound, Reducible
  <2>1. owner \in Environments /\ owner' = owner
    BY DEF IInv, TypeOK, CommitDeclaration, ownerVars
  <2>2. Reducible(owner) \in SUBSET Names /\ Reducible(owner)' \in SUBSET Names
    BY DEF Reducible, Transparent
  <2>3. Convertible[Reducible(owner)] \subseteq Convertible[Reducible(owner)']
    BY <2>1, <2>2, <1>4, ConversionAssumption
  <2> QED BY <2>1, <2>3 DEF IInv, CachesSound, CommitDeclaration, ownerVars, tables
<1> QED BY <1>1, <1>3, <1>5, StepAtRest DEF CommitDeclaration

LEMMA FailKeeps ==
  ASSUME IInv, FailDeclaration
  PROVE  IInv'
<1>1. depth = 0 /\ depth' = 0 /\ mode' = "idle"
  BY DEF IInv, ModeOK, FailDeclaration, control
<1>2. TypeOK'
  BY DEF IInv, TypeOK, FailDeclaration, ownerVars, tables, inFlight, callVars, control
<1>3. CachesSound'
  BY DEF IInv, CachesSound, FailDeclaration, Reducible, Transparent, ownerVars, tables
<1> QED BY <1>1, <1>2, <1>3, StepAtRest DEF FailDeclaration

LEMMA UnfoldKeeps ==
  ASSUME IInv, NEW S \in SUBSET Names, Unfold(S)
  PROVE  IInv'
<1>1. depth = 0 /\ depth' = 0 /\ mode' = "idle"
  BY DEF IInv, ModeOK, Unfold, Flip, control
<1>2. TypeOK'
  BY EnvironmentAssumption
     DEF IInv, TypeOK, Unfold, Flip, InvalidateKernelCaches, callVars, control, Statuses
<1>3. CachesSound'
  BY DEF CachesSound, Unfold, InvalidateKernelCaches
<1> QED BY <1>1, <1>2, <1>3, StepAtRest DEF Unfold, Flip

\* The one opacity change that leaves the tables alone only opens names.
LEMMA UnfoldThrowsKeeps ==
  ASSUME IInv, NEW S \in SUBSET Names, UnfoldThrows(S)
  PROVE  IInv'
<1>1. depth = 0 /\ depth' = 0 /\ mode' = "idle"
  BY DEF IInv, ModeOK, UnfoldThrows, Flip, control
<1>2. TypeOK'
  BY EnvironmentAssumption
     DEF IInv, TypeOK, UnfoldThrows, Flip, ownerVars, tables, inFlight, callVars, control,
         Statuses
<1>3. \A e \in Environments : Reducible(e) \subseteq Reducible(e)'
  BY EnvironmentAssumption DEF IInv, TypeOK, UnfoldThrows, Flip, Reducible, Transparent
<1>4. CachesSound'
  <2> SUFFICES ASSUME owner' # Nobody
               PROVE  whnfCache' \cup trueCache' \subseteq Convertible[Reducible(owner)']
    BY DEF CachesSound, Reducible
  <2>1. owner \in Environments /\ owner' = owner
    BY DEF IInv, TypeOK, UnfoldThrows, ownerVars
  <2>2. Reducible(owner) \in SUBSET Names /\ Reducible(owner)' \in SUBSET Names
    BY DEF Reducible, Transparent
  <2>3. Convertible[Reducible(owner)] \subseteq Convertible[Reducible(owner)']
    BY <2>1, <2>2, <1>3, ConversionAssumption
  <2> QED BY <2>1, <2>3 DEF IInv, CachesSound, UnfoldThrows, ownerVars, tables
<1> QED BY <1>1, <1>2, <1>4, StepAtRest DEF UnfoldThrows, Flip

LEMMA RestoreKeeps ==
  ASSUME IInv, RestoreOpacity
  PROVE  IInv'
<1>1. depth = 0 /\ depth' = 0 /\ mode' = "idle"
  BY DEF IInv, ModeOK, RestoreOpacity, control
<1>2. TypeOK'
  BY EnvironmentAssumption
     DEF IInv, TypeOK, RestoreOpacity, InvalidateKernelCaches, callVars, control, Statuses
<1>3. CachesSound'
  BY DEF CachesSound, RestoreOpacity, InvalidateKernelCaches
<1> QED BY <1>1, <1>2, <1>3, StepAtRest DEF RestoreOpacity

LEMMA CallKeeps ==
  ASSUME IInv, NEW e \in Environments, NEW q \in Queries, Call(e, q)
  PROVE  IInv'
<1>1. depth = 0 /\ depth' = 0 /\ mode' = "enter"
  BY DEF IInv, ModeOK, Call
<1>2. TypeOK'
  BY EnvironmentAssumption
     DEF IInv, TypeOK, Call, environmentVars, ownerVars, tables, inFlight
<1>3. CachesSound'
  BY DEF IInv, CachesSound, Call, Reducible, Transparent, environmentVars, ownerVars, tables
<1> QED BY <1>1, <1>2, <1>3, StepAtRest DEF IInv, ModeOK, Call, environmentVars

LEMMA DeliverKeeps ==
  ASSUME IInv, Deliver
  PROVE  IInv'
<1>1. depth = 0 /\ depth' = 0 /\ mode' = "idle"
  BY DEF Deliver
<1>2. TypeOK'
  BY RepliesTyped
     DEF IInv, TypeOK, Deliver, environmentVars, ownerVars, tables, inFlight, callVars
<1>3. CachesSound'
  BY DEF IInv, CachesSound, Deliver, Reducible, Transparent, environmentVars, ownerVars, tables
<1> QED BY <1>1, <1>2, <1>3, StepAtRest DEF IInv, ModeOK, Deliver, environmentVars

LEMMA ElaboratorKeeps ==
  ASSUME IInv, Elaborator
  PROVE  IInv'
  BY BeginKeeps, CommitKeeps, FailKeeps, UnfoldKeeps, UnfoldThrowsKeeps, RestoreKeeps,
     CallKeeps DEF Elaborator

-----------------------------------------------------------------------------
(* The wrappers. *)

LEMMA TooDeepKeeps ==
  ASSUME IInv, EnterTooDeep
  PROVE  IInv'
<1>1. ThrowReply("exhausted") \in Replies /\ SoundFor(Now, TheCall, ThrowReply("exhausted"))
  BY RepliesTyped DEF SoundFor, ThrowReply
<1> QED BY <1>1, StepAnswered DEF EnterTooDeep, Answer, IInv, TypeOK

\* Emptied tables are sound for the environment they now belong to.
LEMMA ClaimKeeps ==
  ASSUME IInv, ClaimCaches
  PROVE  IInv'
<1>0. UNCHANGED <<status, env, query, stack, depth, mode, reply, adding>>
  BY DEF ClaimCaches, environmentVars, callVars, control
<1>1. TypeOK'
  <2>1. DeclarationCount(env) \in Nat
    BY EnvironmentAssumption, FS_Subset, FS_CardinalityType DEF DeclarationCount
  <2> QED BY <2>1 DEF IInv, TypeOK, ClaimCaches, environmentVars, callVars, control
<1>2. Now' = Now
  BY <1>0, NowUnchanged
<1>3. \A d : CallAt(d)' = CallAt(d)
  BY <1>0 DEF CallAt
<1>4. Linked' /\ FramesSound' /\ ReplySound'
  BY <1>0, <1>2, <1>3 DEF IInv, Linked, FramesSound, ReplySound, TheCall
<1>5. CachesSound'
  BY DEF CachesSound, ClaimCaches
<1>6. ModeOK'
  BY <1>0 DEF IInv, ModeOK, ClaimCaches, Top
<1> QED BY <1>1, <1>4, <1>5, <1>6 DEF IInv

\* The tables a wrapper reads are those of the environment it was asked about.
LEMMA OwnedTables ==
  ASSUME IInv, Owned
  PROVE  whnfCache \subseteq Now /\ trueCache \subseteq Now
  BY EnvironmentAssumption DEF IInv, TypeOK, CachesSound, Owned, Now

LEMMA TheCallTyped ==
  ASSUME IInv
  PROVE  /\ TheCall \in Calls /\ PairOf(TheCall) \in Pairs
         /\ TheCall.left \in Expressions /\ TheCall.right \in Expressions
<1>1. depth \in 0..depth
  BY BoundsAssumption DEF IInv, TypeOK
<1> QED BY <1>1, CallAtTyped, CallsTyped DEF TheCall

LEMMA WhnfHitKeeps ==
  ASSUME IInv, EnterWhnfHit
  PROVE  IInv'
<1>1. PICK pair \in whnfCache : pair[1] = TheCall.left /\ Answer(ValueReply(pair[2]))
  BY DEF EnterWhnfHit
<1>2. pair \in Pairs /\ pair \in Now /\ pair = <<pair[1], pair[2]>>
  BY OwnedTables DEF IInv, TypeOK, EnterWhnfHit, Entering, Pairs
<1>3. pair[2] \in Expressions /\ <<TheCall.left, pair[2]>> \in Now
  BY <1>1, <1>2 DEF Pairs
<1>4. SoundFor(Now, TheCall, ValueReply(pair[2]))
  BY <1>3 DEF SoundFor, ValueReply
<1>5. ValueReply(pair[2]) \in Replies
  BY <1>3, RepliesTyped
<1> QED BY <1>1, <1>4, <1>5, StepAnswered DEF EnterWhnfHit, Entering, IInv, TypeOK

\* A cut cycle answers with the expression itself.
LEMMA WhnfLoopKeeps ==
  ASSUME IInv, EnterWhnfLoop
  PROVE  IInv'
<1>1. <<TheCall.left, TheCall.left>> \in Now
  BY TheCallTyped, Equivalence, NowEquivalence DEF IInv
<1>2. SoundFor(Now, TheCall, ValueReply(TheCall.left))
  BY <1>1 DEF SoundFor, ValueReply
<1>3. ValueReply(TheCall.left) \in Replies
  BY TheCallTyped, RepliesTyped
<1>4. epoch' \in Nat
  BY DEF EnterWhnfLoop, IInv, TypeOK
<1> QED BY <1>2, <1>3, <1>4, StepAnswered DEF EnterWhnfLoop, Entering

LEMMA EnterWhnfKeeps ==
  ASSUME IInv, EnterWhnf
  PROVE  IInv'
<1>1. whnfInFlight' \subseteq Expressions /\ eqInFlight' \subseteq Pairs
  BY TheCallTyped DEF EnterWhnf, IInv, TypeOK
<1> QED BY <1>1, StepIn DEF EnterWhnf

LEMMA EqHitKeeps ==
  ASSUME IInv, EnterEqHit
  PROVE  IInv'
<1>1. SoundFor(Now, TheCall, TruthReply(TRUE))
  BY OwnedTables DEF EnterEqHit, Entering, SoundFor, TruthReply
<1> QED BY <1>1, RepliesTyped, StepAnswered DEF EnterEqHit, Entering, IInv, TypeOK

\* ... or with FALSE, which promises nothing.
LEMMA EqLoopKeeps ==
  ASSUME IInv, EnterEqLoop
  PROVE  IInv'
<1>1. SoundFor(Now, TheCall, TruthReply(FALSE))
  BY DEF SoundFor, TruthReply
<1>2. epoch' \in Nat
  BY DEF EnterEqLoop, IInv, TypeOK
<1> QED BY <1>1, <1>2, RepliesTyped, StepAnswered DEF EnterEqLoop, Entering

LEMMA EnterEqKeeps ==
  ASSUME IInv, EnterEq
  PROVE  IInv'
<1>1. whnfInFlight' \subseteq Expressions /\ eqInFlight' \subseteq Pairs
  BY TheCallTyped DEF EnterEq, IInv, TypeOK
<1> QED BY <1>1, StepIn DEF EnterEq

LEMMA WrapperKeeps ==
  ASSUME IInv, Wrapper
  PROVE  IInv'
  BY TooDeepKeeps, ClaimKeeps, WhnfHitKeeps, WhnfLoopKeeps, EnterWhnfKeeps,
     EqHitKeeps, EqLoopKeeps, EnterEqKeeps, DeliverKeeps DEF Wrapper

-----------------------------------------------------------------------------
(* weakHeadNormalForm's body. *)

\* What the rules are allowed to know about the frame on top.
LEMMA TopParts ==
  ASSUME IInv, depth > 0
  PROVE  /\ Top \in Frames /\ FrameSound(Now, Top)
         /\ Top.call \in Calls /\ Top.pc \in PCs
         /\ Top.call.left \in Expressions /\ Top.call.right \in Expressions
         /\ Top.subject \in Expressions /\ Top.other \in Expressions
         /\ <<Top.subject, Top.other>> \in Pairs /\ PairOf(Top.call) \in Pairs
         /\ Top.next \in Nat /\ Top.fuel \in Nat
         /\ whnfCache \subseteq Now /\ trueCache \subseteq Now
<1>1. Top \in Frames /\ FrameSound(Now, Top) /\ owner = env /\ env \in Environments
  BY TopTyped
<1>2. Top.call \in Calls /\ Top.subject \in Expressions /\ Top.other \in Expressions
  BY <1>1 DEF Frames
<1>3. owner # Nobody
  BY <1>1, EnvironmentAssumption
<1>4. whnfCache \subseteq Now /\ trueCache \subseteq Now
  BY <1>1, <1>3 DEF IInv, CachesSound, Now
<1> QED BY <1>1, <1>2, <1>4, CallsTyped DEF Frames, Pairs

\* A body runs in a frame, and the reply it waits for answers what it asked.
LEMMA AnsweredSound ==
  ASSUME IInv, NEW pc, NEW kinds, Answered(pc, kinds)
  PROVE  /\ depth > 0 /\ Top.pc = pc
         /\ reply \in Replies /\ SoundFor(Now, Asked(Top), reply)
<1>1. depth > 0 /\ depth \in Nat /\ Top.pc = pc /\ mode = "reply"
  BY DEF Answered, IInv, TypeOK
<1>2. TheCall = Asked(Top)
  BY <1>1 DEF TheCall, CallAt, Top
<1> QED BY <1>1, <1>2 DEF IInv, TypeOK, ReplySound

LEMMA ThrowWhnfKeeps ==
  ASSUME IInv, depth > 0, Untouched,
         NEW kind \in {"exhausted", "typeError"}, ThrowWhnf(kind)
  PROVE  IInv'
<1>1. SoundFor(Now, Top.call, ThrowReply(kind)) /\ ThrowReply(kind) \in Replies
  BY RepliesTyped DEF SoundFor, ThrowReply
<1>2. /\ whnfCache' \cup trueCache' \subseteq Now
      /\ whnfInFlight' \subseteq Expressions /\ eqInFlight' \subseteq Pairs
      /\ excuses' \subseteq {"budget", "unfold"}
      /\ Leave(ThrowReply(kind))
  BY TopParts DEF ThrowWhnf, LeaveWhnf, IInv, TypeOK
<1> QED BY <1>1, <1>2, StepOut

LEMMA ReturnWhnfKeeps ==
  ASSUME IInv, depth > 0, Untouched,
         NEW e \in Expressions, <<Top.call.left, e>> \in Now, ReturnWhnf(e)
  PROVE  IInv'
<1>1. SoundFor(Now, Top.call, ValueReply(e)) /\ ValueReply(e) \in Replies
  BY RepliesTyped DEF SoundFor, ValueReply
<1>2. /\ whnfCache' \cup trueCache' \subseteq Now
      /\ whnfInFlight' \subseteq Expressions /\ eqInFlight' \subseteq Pairs
      /\ excuses' \subseteq {"budget", "unfold"}
      /\ Leave(ValueReply(e))
  BY TopParts DEF ReturnWhnf, LeaveWhnf, IInv, TypeOK
<1> QED BY <1>1, <1>2, StepOut

\* The frame goes round the loop with an expression convertible to the last.
LEMMA RestartKeeps ==
  ASSUME IInv, depth > 0, Untouched, Top.call.op = "whnf",
         NEW f \in Frames, f.call = Top.call, f.pc = "start",
         <<Top.subject, f.subject>> \in Now, Continue(f)
  PROVE  IInv'
<1>1. <<Top.call.left, f.subject>> \in Now
  <2>1. <<Top.call.left, Top.subject>> \in Now
    BY TopParts DEF FrameSound
  <2>2. f.subject \in Expressions
    BY DEF Frames
  <2> QED BY <2>1, <2>2, TopParts, Equivalence, NowEquivalence DEF IInv
<1>2. FrameSound(Now, f)
  BY <1>1 DEF FrameSound
<1> QED BY <1>2, StepInFrame

\* A turn of the loop, and isDefinitionallyEqual's first step, cost one fuel.
LEMMA SpentTyped ==
  ASSUME IInv, depth > 0, Top.fuel > 1
  PROVE  /\ Spent(Top) \in Frames
         /\ Spent(Top).call = Top.call /\ Spent(Top).pc = Top.pc
         /\ Spent(Top).subject = Top.subject /\ Spent(Top).other = Top.other
  BY TopParts DEF Spent, Frames

LEMMA WhnfStartKeeps ==
  ASSUME IInv, WhnfOutOfFuel \/ WhnfIllFormed \/ WhnfDelta \/ WhnfZeta
                 \/ WhnfReduceHead \/ WhnfStuck
  PROVE  IInv'
<1>0. /\ depth > 0 /\ Top.call.op = "whnf" /\ Top.pc = "start" /\ mode = "run"
      /\ <<Top.call.left, Top.subject>> \in Now /\ Untouched
  <2>1. mode = "run" /\ Top.call.op = "whnf" /\ Top.pc = "start" /\ Untouched
    BY DEF WhnfOutOfFuel, WhnfIllFormed, WhnfDelta, WhnfZeta, WhnfReduceHead, WhnfStuck,
           WhnfTurn, Running
  <2>2. depth > 0
    BY <2>1 DEF IInv, ModeOK
  <2> QED BY <2>1, <2>2, TopParts DEF FrameSound
<1>1. CASE WhnfOutOfFuel
  BY <1>0, <1>1, ThrowWhnfKeeps DEF WhnfOutOfFuel
<1>2. CASE WhnfIllFormed
  BY <1>0, <1>2, ThrowWhnfKeeps DEF WhnfIllFormed
<1>3. CASE WhnfDelta
  <2> DEFINE f == [Spent(Top) EXCEPT !.subject = BodyOf[@]]
  <2>1. BodyOf[Top.subject] \in Expressions /\ <<Top.subject, BodyOf[Top.subject]>> \in Now
    BY <1>0, <1>3, TopParts, SyntaxAssumption, ReductionAssumption, NowIsConvertibility
       DEF WhnfDelta, HasBody, Now, IInv, TypeOK
  <2>2. /\ f \in Frames /\ f.call = Top.call /\ f.pc = "start"
        /\ f.subject = BodyOf[Top.subject]
    BY <1>0, <1>3, <2>1, SpentTyped DEF WhnfDelta, WhnfTurn, Frames
  <2>3. Continue(f)
    BY <1>3 DEF WhnfDelta
  <2> QED BY <1>0, <2>1, <2>2, <2>3, RestartKeeps
<1>4. CASE WhnfZeta
  <2> DEFINE f == [Spent(Top) EXCEPT !.subject = LetBody[@]]
  <2>1. LetBody[Top.subject] \in Expressions /\ <<Top.subject, LetBody[Top.subject]>> \in Now
    BY <1>0, <1>4, TopParts, SyntaxAssumption, ReductionAssumption, NowIsConvertibility
       DEF WhnfZeta, Now, IInv, TypeOK
  <2>2. /\ f \in Frames /\ f.call = Top.call /\ f.pc = "start"
        /\ f.subject = LetBody[Top.subject]
    BY <1>0, <1>4, <2>1, SpentTyped DEF WhnfZeta, WhnfTurn, Frames
  <2>3. Continue(f)
    BY <1>4 DEF WhnfZeta
  <2> QED BY <1>0, <2>1, <2>2, <2>3, RestartKeeps
<1>5. CASE WhnfReduceHead
  <2> DEFINE f == [Spent(Top) EXCEPT !.pc = "head"]
  <2>1. /\ f \in Frames /\ f.call = Top.call /\ f.pc = "head"
        /\ f.subject = Top.subject
    BY <1>0, <1>5, SpentTyped DEF WhnfReduceHead, WhnfTurn, Frames, PCs
  <2>2. Suspend(f) /\ Kind[Top.subject] = "application"
    BY <1>5 DEF WhnfReduceHead
  <2> HIDE DEF f
  <2>3. FrameSound(Now, f)
    BY <1>0, <2>1, <2>2 DEF FrameSound
  <2> QED BY <1>0, <2>1, <2>2, <2>3, StepInFrame
<1>6. CASE WhnfStuck
  BY <1>0, <1>6, TopParts, ReturnWhnfKeeps DEF WhnfStuck
<1> QED BY <1>1, <1>2, <1>3, <1>4, <1>5, <1>6

\* beta, or the spine on its reduced head.
LEMMA HeadReducedKeeps ==
  ASSUME IInv, WhnfHeadReduced
  PROVE  IInv'
<1> DEFINE head == reply.value
           application == WithHead[<<Top.subject, head>>]
<1>1. /\ depth > 0 /\ Top.pc = "head" /\ Untouched
      /\ reply \in Replies /\ reply.kind = "value" /\ head \in Expressions
      /\ SoundFor(Now, Asked(Top), reply)
  BY AnsweredSound DEF WhnfHeadReduced, Answered, Replies
<1>2. /\ Top.call.op = "whnf" /\ <<Top.call.left, Top.subject>> \in Now
      /\ Kind[Top.subject] = "application"
  BY <1>1, TopParts DEF FrameSound, Calls
<1>3. <<HeadOf[Top.subject], head>> \in Now
  BY <1>1 DEF SoundFor, Asked, Whnf
<1>4. /\ application \in Expressions /\ <<Top.subject, application>> \in Now
      /\ head \in Lambdas => /\ Contractum[<<Top.subject, head>>] \in Expressions
                             /\ <<Top.subject, Contractum[<<Top.subject, head>>]>> \in Now
  BY <1>1, <1>2, <1>3, TopParts, SyntaxAssumption, ReductionAssumption, NowIsConvertibility
     DEF Now, IInv, TypeOK, Pairs
<1>5. <<Top.call.left, application>> \in Now
  BY <1>1, <1>2, <1>4, TopParts, Equivalence, NowEquivalence DEF IInv
<1>6. CASE head \in Lambdas
  <2> DEFINE f == [Top EXCEPT !.pc = "start", !.subject = Contractum[<<@, head>>]]
  <2>1. /\ f \in Frames /\ f.call = Top.call /\ f.pc = "start"
        /\ f.subject = Contractum[<<Top.subject, head>>]
    BY <1>1, <1>4, <1>6, TopParts DEF Frames, PCs
  <2>2. Continue(f)
    BY <1>6 DEF WhnfHeadReduced
  <2> QED BY <1>1, <1>2, <1>4, <1>6, <2>1, <2>2, RestartKeeps
<1>7. CASE head \notin Lambdas /\ Kind[head] # "application" /\ application \in Saturated
  <2> DEFINE f == [Top EXCEPT !.pc = "target", !.subject = application]
  <2>1. /\ f \in Frames /\ f.call = Top.call /\ f.pc = "target"
        /\ f.subject = application
    BY <1>1, <1>4, TopParts DEF Frames, PCs
  <2>2. Suspend(f)
    BY <1>7 DEF WhnfHeadReduced
  <2> HIDE DEF f
  <2>3. FrameSound(Now, f)
    BY <1>2, <1>5, <1>7, <2>1 DEF FrameSound
  <2> QED BY <1>1, <2>1, <2>2, <2>3, StepInFrame
<1>8. CASE head \notin Lambdas /\ (Kind[head] = "application" \/ application \notin Saturated)
  <2>1. ReturnWhnf(application)
    BY <1>8 DEF WhnfHeadReduced
  <2> QED BY <1>1, <1>4, <1>5, <2>1, ReturnWhnfKeeps
<1> QED BY <1>6, <1>7, <1>8

\* iota: the application is its own left side with the inspected argument
\* replaced, so the rule needs every parameter comparison to have succeeded.
LEMMA ContractKeeps ==
  ASSUME IInv, depth > 0, Untouched, Top.call.op = "whnf",
         NEW f \in Frames, f.call = Top.call, f.subject = Top.subject,
         f.subject \in Saturated, <<Target[f.subject], f.other>> \in Now,
         <<f.subject, f.other>> \in IotaMatches,
         \A i \in 1..Len(Parameters[<<f.subject, f.other>>]) :
            Parameters[<<f.subject, f.other>>][i] \in Now,
         Contract(f)
  PROVE  IInv'
<1> DEFINE g == [f EXCEPT !.pc = "start", !.subject = Reduct[<<@, f.other>>]]
<1>1. /\ f.subject \in Expressions /\ f.other \in Expressions
      /\ <<f.subject, f.other>> \in Pairs
  BY DEF Frames, Pairs
<1>2. Reduct[<<f.subject, f.other>>] \in Expressions
  BY <1>1, SyntaxAssumption
<1>3. <<f.subject, Reduct[<<f.subject, f.other>>]>> \in Now
  BY <1>1, ReductionAssumption, NowIsConvertibility DEF Now, IInv, TypeOK
<1>4. /\ g \in Frames /\ g.call = Top.call /\ g.pc = "start"
      /\ g.subject = Reduct[<<f.subject, f.other>>]
  BY <1>1, <1>2 DEF Frames, PCs
<1>5. Continue(g)
  BY DEF Contract
<1> QED BY <1>3, <1>4, <1>5, RestartKeeps

LEMMA TargetReducedKeeps ==
  ASSUME IInv, WhnfTargetReduced
  PROVE  IInv'
<1> DEFINE f == [Top EXCEPT !.other = reply.value]
<1>1. /\ depth > 0 /\ Top.pc = "target" /\ Untouched
      /\ reply \in Replies /\ reply.kind = "value" /\ reply.value \in Expressions
      /\ SoundFor(Now, Asked(Top), reply)
  BY AnsweredSound DEF WhnfTargetReduced, Answered, Replies
<1>2. /\ Top.call.op = "whnf" /\ <<Top.call.left, Top.subject>> \in Now
      /\ Top.subject \in Saturated
  BY <1>1, TopParts DEF FrameSound, Calls
<1>3. <<Target[Top.subject], reply.value>> \in Now
  BY <1>1 DEF SoundFor, Asked, Whnf
<1>4. /\ f \in Frames /\ f.call = Top.call /\ f.pc = "target"
      /\ f.subject = Top.subject /\ f.other = reply.value
  BY <1>1, TopParts DEF Frames
<1>5. \/ ReturnWhnf(Top.subject)
      \/ /\ <<f.subject, f.other>> \in IotaMatches
         /\ \/ Parameters[<<f.subject, f.other>>] = <<>> /\ Contract(f)
            \/ /\ Parameters[<<f.subject, f.other>>] # <<>>
               /\ Suspend([f EXCEPT !.pc = "parameter", !.next = 1])
  BY <1>4 DEF WhnfTargetReduced
<1> HIDE DEF f
<1>6. CASE ReturnWhnf(Top.subject)
  BY <1>1, <1>2, <1>6, TopParts, ReturnWhnfKeeps
<1>7. CASE /\ <<f.subject, f.other>> \in IotaMatches
           /\ Parameters[<<f.subject, f.other>>] = <<>> /\ Contract(f)
  <2>1. \A i \in 1..Len(Parameters[<<f.subject, f.other>>]) :
          Parameters[<<f.subject, f.other>>][i] \in Now
    BY <1>7
  <2> QED BY <1>1, <1>2, <1>3, <1>4, <1>7, <2>1, ContractKeeps
<1>8. CASE /\ <<f.subject, f.other>> \in IotaMatches
           /\ Parameters[<<f.subject, f.other>>] # <<>>
           /\ Suspend([f EXCEPT !.pc = "parameter", !.next = 1])
  <2> DEFINE g == [f EXCEPT !.pc = "parameter", !.next = 1]
  <2>1. /\ g \in Frames /\ g.call = Top.call /\ g.pc = "parameter"
        /\ g.subject = Top.subject /\ g.other = reply.value /\ g.next = 1
    BY <1>4 DEF Frames, PCs
  <2>2. Parameters[<<f.subject, f.other>>] \in Seq(Pairs)
    BY <1>1, <1>4, TopParts, SyntaxAssumption DEF Pairs
  <2>3. 1 \in 1..Len(Parameters[<<f.subject, f.other>>])
    BY <1>8, <2>2
  <2> HIDE DEF g
  <2>4. FrameSound(Now, g)
    BY <1>2, <1>3, <1>4, <1>8, <2>1, <2>3 DEF FrameSound
  <2> QED BY <1>1, <1>8, <2>1, <2>4, StepInFrame DEF g
<1> QED BY <1>5, <1>6, <1>7, <1>8

LEMMA ParameterComparedKeeps ==
  ASSUME IInv, WhnfParameterCompared
  PROVE  IInv'
<1> DEFINE comparisons == Parameters[<<Top.subject, Top.other>>]
<1>1. /\ depth > 0 /\ Top.pc = "parameter" /\ Untouched
      /\ reply \in Replies /\ reply.kind = "truth"
      /\ SoundFor(Now, Asked(Top), reply)
  BY AnsweredSound DEF WhnfParameterCompared, Answered, Replies
<1>2. /\ Top.call.op = "whnf" /\ <<Top.call.left, Top.subject>> \in Now
      /\ Top.subject \in Saturated
      /\ <<Target[Top.subject], Top.other>> \in Now
      /\ <<Top.subject, Top.other>> \in IotaMatches
      /\ Top.next \in 1..Len(comparisons)
      /\ \A i \in 1..(Top.next - 1) : comparisons[i] \in Now
  BY <1>1, TopParts DEF FrameSound, Calls
<1>3. comparisons \in Seq(Pairs) /\ Len(comparisons) \in Nat
  BY TopParts, <1>1, SyntaxAssumption
<1>4. reply.truth => comparisons[Top.next] \in Now
  <2>1. comparisons[Top.next] \in Pairs
    BY <1>2, <1>3
  <2>2. PairOf(IsDefEq(comparisons[Top.next])) = comparisons[Top.next]
    BY <2>1 DEF PairOf, IsDefEq, Pairs
  <2> QED BY <1>1, <2>2 DEF SoundFor, Asked
<1> HIDE DEF comparisons
<1>5. reply.truth => \A i \in 1..Top.next : comparisons[i] \in Now
  BY <1>2, <1>3, <1>4, TopParts
<1>6. CASE ~reply.truth
  BY <1>1, <1>2, <1>6, TopParts, ReturnWhnfKeeps DEF WhnfParameterCompared
<1>7. CASE reply.truth /\ Top.next < Len(comparisons)
  <2> DEFINE f == [Top EXCEPT !.next = @ + 1]
  <2>1. /\ f \in Frames /\ f.call = Top.call /\ f.pc = "parameter"
        /\ f.subject = Top.subject /\ f.other = Top.other /\ f.next = Top.next + 1
    BY <1>1, TopParts DEF Frames
  <2>2. Suspend(f)
    BY <1>7 DEF WhnfParameterCompared, comparisons
  <2> HIDE DEF f
  <2>3. f.next \in 1..Len(comparisons) /\ \A i \in 1..(f.next - 1) : comparisons[i] \in Now
    BY <1>2, <1>3, <1>5, <1>7, <2>1, TopParts
  <2>4. FrameSound(Now, f)
    BY <1>2, <2>1, <2>3 DEF FrameSound, comparisons
  <2> QED BY <1>1, <2>1, <2>2, <2>4, StepInFrame
<1>8. CASE reply.truth /\ Top.next >= Len(comparisons)
  <2>1. Top.next = Len(comparisons)
    BY <1>2, <1>3, <1>8, TopParts
  <2>2. Contract(Top)
    BY <1>8, <2>1, <1>3 DEF WhnfParameterCompared, comparisons
  <2>3. \A i \in 1..Len(comparisons) : comparisons[i] \in Now
    BY <1>5, <1>8, <2>1
  <2> QED BY <1>1, <1>2, <2>2, <2>3, TopParts, ContractKeeps DEF comparisons
<1>9. Top.next < Len(comparisons) \/ Top.next >= Len(comparisons)
  BY <1>3, <1>1, TopParts
<1> QED BY <1>6, <1>7, <1>8, <1>9

LEMMA WhnfUnwindsKeeps ==
  ASSUME IInv, WhnfUnwinds
  PROVE  IInv'
<1>1. depth > 0 /\ Untouched /\ reply.kind \in {"exhausted", "typeError"}
  BY AnsweredSound DEF WhnfUnwinds, Answered
<1> QED BY <1>1, ThrowWhnfKeeps DEF WhnfUnwinds

LEMMA WhnfBodyKeeps ==
  ASSUME IInv, WhnfBody
  PROVE  IInv'
  BY WhnfStartKeeps, HeadReducedKeeps, TargetReducedKeeps, ParameterComparedKeeps,
     WhnfUnwindsKeeps DEF WhnfBody

-----------------------------------------------------------------------------
(* isDefinitionallyEqual's body. *)

LEMMA ThrowEqKeeps ==
  ASSUME IInv, depth > 0, Untouched,
         NEW kind \in {"exhausted", "typeError"}, ThrowEq(kind)
  PROVE  IInv'
<1>1. SoundFor(Now, Top.call, ThrowReply(kind)) /\ ThrowReply(kind) \in Replies
  BY RepliesTyped DEF SoundFor, ThrowReply
<1>2. /\ whnfCache' \cup trueCache' \subseteq Now
      /\ whnfInFlight' \subseteq Expressions /\ eqInFlight' \subseteq Pairs
      /\ excuses' \subseteq {"budget", "unfold"}
      /\ Leave(ThrowReply(kind))
  BY TopParts DEF ThrowEq, LeaveEq, IInv, TypeOK
<1> QED BY <1>1, <1>2, StepOut

\* A TRUE has to be earned; a FALSE may always be given.
LEMMA ReturnEqKeeps ==
  ASSUME IInv, depth > 0, Untouched, excuses' \subseteq {"budget", "unfold"},
         NEW answer \in BOOLEAN, answer => PairOf(Top.call) \in Now, ReturnEq(answer)
  PROVE  IInv'
<1>1. SoundFor(Now, Top.call, TruthReply(answer)) /\ TruthReply(answer) \in Replies
  BY RepliesTyped DEF SoundFor, TruthReply
<1>2. /\ whnfCache' \cup trueCache' \subseteq Now
      /\ whnfInFlight' \subseteq Expressions /\ eqInFlight' \subseteq Pairs
      /\ Leave(TruthReply(answer))
  BY TopParts DEF ReturnEq, LeaveEq, IInv, TypeOK
<1> QED BY <1>1, <1>2, StepOut

LEMMA ReturnFalseKeeps ==
  ASSUME IInv, depth > 0, Untouched, ReturnEq(FALSE),
         UNCHANGED excuses \/ excuses' = excuses \cup {"budget"}
  PROVE  IInv'
<1>1. excuses' \subseteq {"budget", "unfold"}
  BY DEF IInv, TypeOK
<1> QED BY <1>1, ReturnEqKeeps

\* Convertible reducts make convertible sides.
LEMMA SidesConvertible ==
  ASSUME IInv, depth > 0, <<Top.call.left, Top.subject>> \in Now,
         <<Top.call.right, Top.other>> \in Now, <<Top.subject, Top.other>> \in Now
  PROVE  PairOf(Top.call) \in Now
<1>1. <<Top.call.left, Top.other>> \in Now
  BY TopParts, Equivalence, NowEquivalence DEF IInv
<1>2. <<Top.other, Top.call.right>> \in Now
  BY TopParts, Equivalence, NowEquivalence DEF IInv
<1> QED BY <1>1, <1>2, TopParts, Equivalence, NowEquivalence DEF IInv, PairOf

\* What a frame past both reductions knows.
SidesReduced ==
  /\ Top.call.op = "isDefEq"
  /\ <<Top.call.left, Top.subject>> \in Now
  /\ <<Top.call.right, Top.other>> \in Now

LEMMA PastReductions ==
  ASSUME IInv, depth > 0,
         Top.pc \in {"compare", "goal", "irrelevance", "kind", "types"}
  PROVE  SidesReduced
  BY TopParts DEF FrameSound, Calls, SidesReduced

LEMMA ReturnTrueKeeps ==
  ASSUME IInv, depth > 0, Untouched, SidesReduced, <<Top.subject, Top.other>> \in Now,
         ReturnEq(TRUE), UNCHANGED excuses
  PROVE  IInv'
<1>1. PairOf(Top.call) \in Now
  BY SidesConvertible DEF SidesReduced
<1>2. excuses' \subseteq {"budget", "unfold"}
  BY DEF IInv, TypeOK
<1> QED BY <1>1, <1>2, ReturnEqKeeps

LEMMA EqStartKeeps ==
  ASSUME IInv, EqStart
  PROVE  IInv'
<1>1. /\ depth > 0 /\ Top.call.op = "isDefEq" /\ Top.pc = "start" /\ Untouched
  BY DEF EqStart, Running, IInv, ModeOK
<1>2. CASE ReturnEq(FALSE) /\ excuses' = excuses \cup {"budget"}
  BY <1>1, <1>2, ReturnFalseKeeps
<1>3. CASE Top.call.left = Top.call.right /\ ReturnEq(TRUE) /\ UNCHANGED excuses
  <2>1. PairOf(Top.call) \in Now
    BY <1>1, <1>3, TopParts, Equivalence, NowEquivalence DEF IInv, PairOf
  <2>2. excuses' \subseteq {"budget", "unfold"}
    BY <1>3 DEF IInv, TypeOK
  <2> QED BY <1>1, <1>3, <2>1, <2>2, ReturnEqKeeps
<1>4. CASE Top.fuel > 1 /\ Suspend([Spent(Top) EXCEPT !.pc = "left"])
  <2> DEFINE f == [Spent(Top) EXCEPT !.pc = "left"]
  <2>1. f \in Frames /\ f.call = Top.call /\ f.pc = "left"
    BY <1>1, <1>4, SpentTyped DEF Frames, PCs
  <2>2. Suspend(f)
    BY <1>4
  <2> HIDE DEF f
  <2>3. FrameSound(Now, f)
    BY <1>1, <2>1 DEF FrameSound
  <2> QED BY <1>1, <2>1, <2>2, <2>3, StepInFrame
<1> QED BY <1>2, <1>3, <1>4 DEF EqStart

LEMMA LeftReducedKeeps ==
  ASSUME IInv, EqLeftReduced
  PROVE  IInv'
<1> DEFINE f == [Top EXCEPT !.pc = "right", !.subject = reply.value]
<1>1. /\ depth > 0 /\ Top.pc = "left" /\ Untouched
      /\ reply \in Replies /\ reply.kind = "value" /\ reply.value \in Expressions
      /\ SoundFor(Now, Asked(Top), reply)
  BY AnsweredSound DEF EqLeftReduced, Answered, Replies
<1>2. Top.call.op = "isDefEq"
  BY <1>1, TopParts DEF FrameSound, Calls
<1>3. <<Top.call.left, reply.value>> \in Now
  BY <1>1 DEF SoundFor, Asked, Whnf
<1>4. f \in Frames /\ f.call = Top.call /\ f.pc = "right" /\ f.subject = reply.value
  BY <1>1, TopParts DEF Frames, PCs
<1>5. Suspend(f)
  BY DEF EqLeftReduced
<1> HIDE DEF f
<1>6. FrameSound(Now, f)
  BY <1>2, <1>3, <1>4 DEF FrameSound
<1> QED BY <1>1, <1>4, <1>5, <1>6, StepInFrame

LEMMA RightReducedKeeps ==
  ASSUME IInv, EqRightReduced
  PROVE  IInv'
<1> DEFINE f == [Top EXCEPT !.pc = "compare", !.other = reply.value]
<1>1. /\ depth > 0 /\ Top.pc = "right" /\ Untouched
      /\ reply \in Replies /\ reply.kind = "value" /\ reply.value \in Expressions
      /\ SoundFor(Now, Asked(Top), reply)
  BY AnsweredSound DEF EqRightReduced, Answered, Replies
<1>2. Top.call.op = "isDefEq" /\ <<Top.call.left, Top.subject>> \in Now
  BY <1>1, TopParts DEF FrameSound, Calls
<1>3. <<Top.call.right, reply.value>> \in Now
  BY <1>1 DEF SoundFor, Asked, Whnf
<1>4. /\ f \in Frames /\ f.call = Top.call /\ f.pc = "compare"
      /\ f.subject = Top.subject /\ f.other = reply.value
  BY <1>1, TopParts DEF Frames, PCs
<1>5. Continue(f)
  BY DEF EqRightReduced
<1> HIDE DEF f
<1>6. FrameSound(Now, f)
  BY <1>2, <1>3, <1>4 DEF FrameSound
<1> QED BY <1>1, <1>4, <1>5, <1>6, StepInFrame

\* From the structural case to the proof-irrelevance test.
LEMMA FallThroughKeeps ==
  ASSUME IInv, depth > 0, Untouched, SidesReduced,
         Continue([Top EXCEPT !.pc = "irrelevance"])
  PROVE  IInv'
<1> DEFINE f == [Top EXCEPT !.pc = "irrelevance"]
<1>1. /\ f \in Frames /\ f.call = Top.call /\ f.pc = "irrelevance"
      /\ f.subject = Top.subject /\ f.other = Top.other
  BY TopParts DEF Frames, PCs
<1>2. Continue(f)
  OBVIOUS
<1> HIDE DEF f
<1>3. FrameSound(Now, f)
  BY <1>1 DEF FrameSound, SidesReduced
<1> QED BY <1>1, <1>2, <1>3, StepInFrame

LEMMA CompareKeeps ==
  ASSUME IInv, EqCompare
  PROVE  IInv'
<1> DEFINE pair == <<Top.subject, Top.other>>
<1>1. depth > 0 /\ Top.pc = "compare" /\ Untouched
  BY DEF EqCompare, Running, IInv, ModeOK
<1>2. SidesReduced /\ pair \in Pairs
  BY <1>1, PastReductions, TopParts
<1>3. Verdict[pair] \in {"equal", "differ", "binder", "spine", "none"}
  BY <1>2, SyntaxAssumption
<1>4. CASE Top.subject = Top.other \/ Verdict[pair] = "equal"
  <2>1. pair \in Now
    <3>1. CASE Top.subject = Top.other
      BY <1>1, <3>1, TopParts, Equivalence, NowEquivalence DEF IInv
    <3>2. CASE Verdict[pair] = "equal"
      BY <1>2, <3>2, ComparisonAssumption, NowIsConvertibility DEF Now, IInv, TypeOK
    <3> QED BY <1>4, <3>1, <3>2
  <2>2. ReturnEq(TRUE) /\ UNCHANGED excuses
    BY <1>4 DEF EqCompare
  <2> QED BY <1>1, <1>2, <2>1, <2>2, ReturnTrueKeeps
<1>5. CASE Top.subject # Top.other /\ Verdict[pair] = "differ"
  BY <1>1, <1>5, ReturnFalseKeeps DEF EqCompare
<1>6. CASE Top.subject # Top.other /\ Verdict[pair] \in {"binder", "spine"}
  <2> DEFINE f == [Top EXCEPT !.pc = "goal", !.next = 1]
  <2>1. /\ f \in Frames /\ f.call = Top.call /\ f.pc = "goal" /\ f.next = 1
        /\ f.subject = Top.subject /\ f.other = Top.other
    BY <1>1, TopParts DEF Frames, PCs
  <2>2. Suspend(f)
    BY <1>6 DEF EqCompare
  <2>3. Goals[pair] \in Seq(Pairs) /\ Goals[pair] # <<>>
    BY <1>2, <1>6, SyntaxAssumption
  <2>4. 1 \in 1..Len(Goals[pair])
    BY <2>3
  <2> HIDE DEF f
  <2>5. FrameSound(Now, f)
    BY <1>2, <1>6, <2>1, <2>4 DEF FrameSound, SidesReduced
  <2> QED BY <1>1, <2>1, <2>2, <2>5, StepInFrame
<1>7. CASE Top.subject # Top.other /\ Verdict[pair] = "none"
  <2>1. Continue([Top EXCEPT !.pc = "irrelevance"])
    BY <1>7 DEF EqCompare
  <2> QED BY <1>1, <1>2, <2>1, FallThroughKeeps
<1> QED BY <1>3, <1>4, <1>5, <1>6, <1>7

LEMMA GoalComparedKeeps ==
  ASSUME IInv, EqGoalCompared
  PROVE  IInv'
<1> DEFINE pair == <<Top.subject, Top.other>>
           goals == Goals[pair]
<1>1. /\ depth > 0 /\ Top.pc = "goal" /\ Untouched
      /\ reply \in Replies /\ reply.kind = "truth"
      /\ SoundFor(Now, Asked(Top), reply)
  BY AnsweredSound DEF EqGoalCompared, Answered, Replies
<1>2. /\ SidesReduced /\ Verdict[pair] \in {"binder", "spine"}
      /\ Top.next \in 1..Len(goals)
      /\ \A i \in 1..(Top.next - 1) : goals[i] \in Now
  BY <1>1, PastReductions, TopParts DEF FrameSound
<1>3. pair \in Pairs /\ goals \in Seq(Pairs) /\ Len(goals) \in Nat
  BY TopParts, <1>1, SyntaxAssumption
<1>4. reply.truth => goals[Top.next] \in Now
  <2>1. goals[Top.next] \in Pairs
    BY <1>2, <1>3
  <2>2. PairOf(IsDefEq(goals[Top.next])) = goals[Top.next]
    BY <2>1 DEF PairOf, IsDefEq, Pairs
  <2> QED BY <1>1, <2>2 DEF SoundFor, Asked
<1>5. ~reply.truth =>
        \/ ReturnEq(FALSE) /\ UNCHANGED excuses
        \/ Continue([Top EXCEPT !.pc = "irrelevance"])
  BY DEF EqGoalCompared
<1>6. reply.truth =>
        \/ Top.next < Len(goals) /\ Suspend([Top EXCEPT !.next = @ + 1])
        \/ Top.next = Len(goals) /\ ReturnEq(TRUE) /\ UNCHANGED excuses
  BY DEF EqGoalCompared
<1> HIDE DEF goals
<1>7. reply.truth => \A i \in 1..Top.next : goals[i] \in Now
  BY <1>1, <1>2, <1>3, <1>4, TopParts
<1>8. CASE ~reply.truth
  BY <1>1, <1>2, <1>5, <1>8, ReturnFalseKeeps, FallThroughKeeps
<1>9. CASE reply.truth /\ Top.next < Len(goals) /\ Suspend([Top EXCEPT !.next = @ + 1])
  <2> DEFINE f == [Top EXCEPT !.next = @ + 1]
  <2>1. /\ f \in Frames /\ f.call = Top.call /\ f.pc = "goal"
        /\ f.subject = Top.subject /\ f.other = Top.other /\ f.next = Top.next + 1
    BY <1>1, TopParts DEF Frames
  <2>2. Suspend(f)
    BY <1>9
  <2> HIDE DEF f
  <2>3. f.next \in 1..Len(goals) /\ \A i \in 1..(f.next - 1) : goals[i] \in Now
    BY <1>1, <1>2, <1>3, <1>7, <1>9, <2>1, TopParts
  <2>4. FrameSound(Now, f)
    BY <1>2, <2>1, <2>3 DEF FrameSound, SidesReduced, goals
  <2> QED BY <1>1, <2>1, <2>2, <2>4, StepInFrame
<1>10. CASE reply.truth /\ Top.next = Len(goals) /\ ReturnEq(TRUE) /\ UNCHANGED excuses
  <2>1. \A i \in 1..Len(Goals[pair]) : Goals[pair][i] \in Now
    BY <1>7, <1>10 DEF goals
  <2>2. pair \in Now
    BY <1>2, <1>3, <2>1, ComparisonAssumption, NowIsConvertibility DEF Now, IInv, TypeOK
  <2> QED BY <1>1, <1>2, <1>10, <2>2, ReturnTrueKeeps
<1> QED BY <1>6, <1>8, <1>9, <1>10

LEMMA IrrelevanceKeeps ==
  ASSUME IInv, EqIrrelevance
  PROVE  IInv'
<1>1. depth > 0 /\ Top.pc = "irrelevance" /\ Untouched
  BY DEF EqIrrelevance, Running, IInv, ModeOK
<1>2. SidesReduced
  BY <1>1, PastReductions
<1>3. CASE Typed(Top.subject) /\ Typed(TypeOf[Top.subject])
  <2> DEFINE f == [Top EXCEPT !.pc = "kind"]
  <2>1. /\ f \in Frames /\ f.call = Top.call /\ f.pc = "kind"
        /\ f.subject = Top.subject /\ f.other = Top.other
    BY <1>1, TopParts DEF Frames, PCs
  <2>2. Suspend(f)
    BY <1>3 DEF EqIrrelevance
  <2> HIDE DEF f
  <2>3. FrameSound(Now, f)
    BY <1>2, <1>3, <2>1 DEF FrameSound, SidesReduced
  <2> QED BY <1>1, <2>1, <2>2, <2>3, StepInFrame
<1>4. CASE ~(Typed(Top.subject) /\ Typed(TypeOf[Top.subject]))
  BY <1>1, <1>4, ReturnFalseKeeps DEF EqIrrelevance
<1> QED BY <1>3, <1>4

LEMMA KindReducedKeeps ==
  ASSUME IInv, EqKindReduced
  PROVE  IInv'
<1>1. /\ depth > 0 /\ Top.pc = "kind" /\ Untouched
      /\ reply \in Replies /\ reply.kind = "value"
      /\ SoundFor(Now, Asked(Top), reply)
  BY AnsweredSound DEF EqKindReduced, Answered, Replies
<1>2. SidesReduced /\ Typed(Top.subject) /\ Typed(TypeOf[Top.subject])
  BY <1>1, PastReductions, TopParts DEF FrameSound
<1>3. <<TypeOf[TypeOf[Top.subject]], reply.value>> \in Now
  BY <1>1 DEF SoundFor, Asked, Whnf
<1>4. CASE reply.value = PropositionSort /\ Typed(Top.other)
  <2> DEFINE f == [Top EXCEPT !.pc = "types"]
  <2>1. /\ f \in Frames /\ f.call = Top.call /\ f.pc = "types"
        /\ f.subject = Top.subject /\ f.other = Top.other
    BY <1>1, TopParts DEF Frames, PCs
  <2>2. Suspend(f)
    BY <1>4 DEF EqKindReduced
  <2> HIDE DEF f
  <2>3. FrameSound(Now, f)
    BY <1>2, <1>3, <1>4, <2>1 DEF FrameSound, SidesReduced
  <2> QED BY <1>1, <2>1, <2>2, <2>3, StepInFrame
<1>5. CASE ~(reply.value = PropositionSort /\ Typed(Top.other))
  BY <1>1, <1>5, ReturnFalseKeeps DEF EqKindReduced
<1> QED BY <1>4, <1>5

\* Two inhabitants of one proposition: the last way to a TRUE.
LEMMA TypesComparedKeeps ==
  ASSUME IInv, EqTypesCompared
  PROVE  IInv'
<1>1. /\ depth > 0 /\ Top.pc = "types" /\ Untouched
      /\ reply \in Replies /\ reply.kind = "truth"
      /\ SoundFor(Now, Asked(Top), reply)
      /\ ReturnEq(reply.truth) /\ UNCHANGED excuses
  BY AnsweredSound DEF EqTypesCompared, Answered, Replies
<1>2. /\ SidesReduced /\ Typed(Top.subject) /\ Typed(TypeOf[Top.subject])
      /\ Typed(Top.other)
      /\ <<TypeOf[TypeOf[Top.subject]], PropositionSort>> \in Now
  BY <1>1, PastReductions, TopParts DEF FrameSound
<1>3. reply.truth => <<TypeOf[Top.subject], TypeOf[Top.other]>> \in Now
  BY <1>1 DEF SoundFor, Asked, IsDefEq, PairOf
<1>4. CASE reply.truth
  <2> DEFINE pair == <<Top.subject, Top.other>>
  <2>1. pair \in Pairs /\ pair[1] = Top.subject /\ pair[2] = Top.other
    BY <1>1, TopParts
  <2>2. pair \in Now
    <3> HIDE DEF pair
    <3> QED BY <1>2, <1>3, <1>4, <2>1, ComparisonAssumption, NowIsConvertibility
            DEF Now, IInv, TypeOK, Typed
  <2>3. reply.truth = TRUE
    BY <1>1, <1>4 DEF Replies
  <2> QED BY <1>1, <1>2, <2>2, <2>3, ReturnTrueKeeps
<1>5. CASE ~reply.truth
  <2>1. reply.truth = FALSE
    BY <1>1, <1>5 DEF Replies
  <2> QED BY <1>1, <2>1, ReturnFalseKeeps
<1> QED BY <1>4, <1>5

LEMMA GivesUpKeeps ==
  ASSUME IInv, EqGivesUp \/ EqTypeError
  PROVE  IInv'
<1>1. depth > 0 /\ Untouched
  BY DEF EqGivesUp, EqTypeError, Answered
<1>2. \/ ReturnEq(FALSE) /\ (UNCHANGED excuses \/ excuses' = excuses \cup {"budget"})
      \/ ThrowEq("typeError")
  BY DEF EqGivesUp, EqTypeError
<1> QED BY <1>1, <1>2, ReturnFalseKeeps, ThrowEqKeeps

LEMMA EqBodyKeeps ==
  ASSUME IInv, EqBody
  PROVE  IInv'
  BY EqStartKeeps, LeftReducedKeeps, RightReducedKeeps, CompareKeeps, GoalComparedKeeps,
     IrrelevanceKeeps, KindReducedKeeps, TypesComparedKeeps, GivesUpKeeps DEF EqBody

-----------------------------------------------------------------------------
(* The theorems. *)

\* Every step keeps the stack a sound proof in progress.
THEOREM NextKeeps == IInv /\ [Next]_vars => IInv'
<1> SUFFICES ASSUME IInv, [Next]_vars PROVE IInv'
  OBVIOUS
<1>1. CASE Next
  BY <1>1, ElaboratorKeeps, WrapperKeeps, WhnfBodyKeeps, EqBodyKeeps DEF Next, Kernel
<1>2. CASE UNCHANGED vars
  <2>1. /\ UNCHANGED <<status, opened, adding, owner, ownerSize, whnfCache, trueCache>>
        /\ UNCHANGED <<whnfInFlight, eqInFlight, epoch, env, query, stack, depth>>
        /\ UNCHANGED <<mode, reply, excuses>>
    BY <1>2 DEF vars, environmentVars, ownerVars, tables, inFlight, callVars, control
  <2>2. Now' = Now
    BY <2>1, NowUnchanged
  <2>3. \A d : CallAt(d)' = CallAt(d)
    BY <2>1 DEF CallAt
  <2>4. TypeOK'
    BY <2>1 DEF IInv, TypeOK
  <2>5. Linked' /\ FramesSound' /\ ReplySound'
    BY <2>1, <2>2, <2>3 DEF IInv, Linked, FramesSound, ReplySound, TheCall
  <2>6. CachesSound' /\ ModeOK'
    BY <2>1 DEF IInv, CachesSound, ModeOK, Top, Reducible, Transparent
  <2> QED BY <2>4, <2>5, <2>6 DEF IInv
<1> QED BY <1>1, <1>2

\* The inductive invariant holds of every behaviour.
THEOREM Invariance == Spec => []IInv
  BY InitSound, NextKeeps, PTL DEF Spec

\* Every variable keeps its type.
THEOREM TypeCorrect == Spec => []TypeOK
<1>1. IInv => TypeOK
  BY DEF IInv
<1> QED BY <1>1, Invariance, PTL

\* No memo table of the kernel ever holds an answer that is wrong for the
\* environment it belongs to.
THEOREM CachesAreSound == Spec => []CachesSound
<1>1. IInv => CachesSound
  BY DEF IInv
<1> QED BY <1>1, Invariance, PTL

\* No caller of weakHeadNormalForm or isDefinitionallyEqual is ever told
\* something that does not hold under the opacities in force.
THEOREM AnswersAreSound == Spec => []AnswersSound
<1>1. IInv => AnswersSound
  <2> SUFFICES ASSUME IInv, mode = "reply", depth = 0 PROVE Sound(query, reply)
    BY DEF AnswersSound
  <2>1. TheCall = query
    BY DEF TheCall, CallAt
  <2> QED BY <2>1 DEF IInv, ReplySound, SoundFor, Sound, Now
<1> QED BY <1>1, Invariance, PTL

-----------------------------------------------------------------------------
(* The in-flight sets are exactly the calls on the stack, and no call is on   *)
(* it twice.  Two facts carry it.  A frame's entry is its own, so the one it  *)
(* erases on its way out is nobody else's; and while a frame is open nothing  *)
(* can disown the tables, so ensureKernelCacheOwner never empties the sets    *)
(* under a running call.                                                     *)

OpenWhnf(e) ==
  \E i \in 1..depth : stack[i].call.op = "whnf" /\ stack[i].call.left = e
OpenEq(pair) ==
  \E i \in 1..depth : stack[i].call.op = "isDefEq" /\ PairOf(stack[i].call) = pair

\* A reduction is told apart by its expression, a comparison by its sides.
AtMostOnce ==
  \A i, j \in 1..depth :
    /\ stack[i].call.op = "whnf" /\ stack[j].call.op = "whnf"
         /\ stack[i].call.left = stack[j].call.left => i = j
    /\ stack[i].call.op = "isDefEq" /\ stack[j].call.op = "isDefEq"
         /\ PairOf(stack[i].call) = PairOf(stack[j].call) => i = j

StackInv ==
  /\ \A e \in Expressions : e \in whnfInFlight <=> OpenWhnf(e)
  /\ \A pair \in Pairs : pair \in eqInFlight <=> OpenEq(pair)
  /\ AtMostOnce
  /\ depth > 0 => ownerSize = DeclarationCount(env)

-----------------------------------------------------------------------------
(* The ways a step moves the stack. *)

\* No frame comes or goes.
LEMMA StackStays ==
  ASSUME StackInv, depth' = depth, UNCHANGED inFlight,
         \A i \in 1..depth : stack'[i].call = stack[i].call,
         depth > 0 => UNCHANGED <<status, ownerSize, env>>
  PROVE  StackInv'
<1>1. whnfInFlight' = whnfInFlight /\ eqInFlight' = eqInFlight
  BY DEF inFlight
<1>2. \A e : OpenWhnf(e)' <=> OpenWhnf(e)
  BY DEF OpenWhnf
<1>3. \A pair : OpenEq(pair)' <=> OpenEq(pair)
  BY DEF OpenEq, PairOf
<1>4. AtMostOnce'
  BY DEF StackInv, AtMostOnce, PairOf
<1>5. depth' > 0 => ownerSize' = DeclarationCount(env)'
  BY DEF StackInv, DeclarationCount
<1> QED BY <1>1, <1>2, <1>3, <1>4, <1>5 DEF StackInv

\* Between two calls there is nothing to match.
LEMMA StackEmpty ==
  ASSUME depth' = 0, whnfInFlight' = {}, eqInFlight' = {}
  PROVE  StackInv'
<1>1. 1..depth' = {}
  OBVIOUS
<1> QED BY <1>1 DEF StackInv, OpenWhnf, OpenEq, AtMostOnce

\* Without a frame the in-flight sets are empty.
LEMMA NothingInFlight ==
  ASSUME IInv, StackInv, depth = 0
  PROVE  whnfInFlight = {} /\ eqInFlight = {}
<1>1. 1..depth = {}
  OBVIOUS
<1> QED BY <1>1 DEF StackInv, OpenWhnf, OpenEq, IInv, TypeOK

\* A frame joins, for a call that is not on the stack yet.
LEMMA StackGrows ==
  ASSUME IInv, StackInv, NEW op \in {"whnf", "isDefEq"}, Entering(op), Push,
         UNCHANGED <<environmentVars, ownerVars, callVars>>,
         \/ /\ op = "whnf" /\ TheCall.left \notin whnfInFlight
            /\ whnfInFlight' = whnfInFlight \cup {TheCall.left}
            /\ UNCHANGED eqInFlight
         \/ /\ op = "isDefEq" /\ PairOf(TheCall) \notin eqInFlight
            /\ eqInFlight' = eqInFlight \cup {PairOf(TheCall)}
            /\ UNCHANGED whnfInFlight
  PROVE  StackInv'
<1> DEFINE d == depth + 1
<1>1. /\ depth \in Nat /\ d \in 1..MaxDepth /\ depth' = d
      /\ stack \in [1..MaxDepth -> Frames]
      /\ TheCall.op = op /\ ownerSize = DeclarationCount(env)
  BY BoundsAssumption DEF IInv, TypeOK, Entering, Owned, Push
<1>2. /\ stack'[d].call = TheCall
      /\ \A i \in 1..depth : stack'[i] = stack[i]
  BY <1>1 DEF Push, NewFrame
<1>3. 1..depth' = 1..depth \cup {d} /\ d \notin 1..depth
  BY <1>1
<1> HIDE DEF d
<1>4. \A e : OpenWhnf(e)' <=> OpenWhnf(e) \/ (op = "whnf" /\ e = TheCall.left)
  BY <1>1, <1>2, <1>3 DEF OpenWhnf
<1>5. \A pair : OpenEq(pair)' <=> OpenEq(pair) \/ (op = "isDefEq" /\ pair = PairOf(TheCall))
  BY <1>1, <1>2, <1>3 DEF OpenEq, PairOf
<1>6. TheCall.left \in Expressions /\ PairOf(TheCall) \in Pairs
  BY TheCallTyped
<1>7. /\ op = "whnf" => ~OpenWhnf(TheCall.left)
      /\ op = "isDefEq" => ~OpenEq(PairOf(TheCall))
  BY <1>6 DEF StackInv
<1>8. AtMostOnce'
  <2>1. ASSUME NEW i \in 1..depth, stack[i].call.op = op
        PROVE  /\ op = "whnf" => stack[i].call.left # TheCall.left
               /\ op = "isDefEq" => PairOf(stack[i].call) # PairOf(TheCall)
    BY <1>7, <2>1 DEF OpenWhnf, OpenEq
  <2>2. \A i \in 1..depth : stack'[i].call = stack[i].call /\ i # d
    BY <1>2, <1>3
  <2>3. AtMostOnce
    BY DEF StackInv
  <2> SUFFICES ASSUME NEW i \in 1..depth', NEW j \in 1..depth', i # j
               PROVE  /\ ~(/\ stack'[i].call.op = "whnf" /\ stack'[j].call.op = "whnf"
                           /\ stack'[i].call.left = stack'[j].call.left)
                      /\ ~(/\ stack'[i].call.op = "isDefEq" /\ stack'[j].call.op = "isDefEq"
                           /\ PairOf(stack'[i].call) = PairOf(stack'[j].call))
    BY DEF AtMostOnce, PairOf
  <2>4. CASE i \in 1..depth /\ j \in 1..depth
    BY <2>2, <2>3, <2>4 DEF AtMostOnce
  <2>5. CASE i = d /\ j \in 1..depth
    BY <1>1, <1>2, <2>1, <2>2, <2>5
  <2>6. CASE i \in 1..depth /\ j = d
    BY <1>1, <1>2, <2>1, <2>2, <2>6
  <2> QED BY <1>3, <2>4, <2>5, <2>6
<1>9. ownerSize' = DeclarationCount(env)'
  BY <1>1 DEF DeclarationCount, environmentVars, ownerVars, callVars
<1> QED BY <1>4, <1>5, <1>8, <1>9 DEF StackInv

\* The top frame goes and takes its own entry with it.
LEMMA StackShrinks ==
  ASSUME IInv, StackInv, depth > 0, Untouched, NEW r, Leave(r),
         \/ /\ Top.call.op = "whnf"
            /\ whnfInFlight' = whnfInFlight \ {Top.call.left}
            /\ UNCHANGED eqInFlight
         \/ /\ Top.call.op = "isDefEq"
            /\ eqInFlight' = eqInFlight \ {PairOf(Top.call)}
            /\ UNCHANGED whnfInFlight
  PROVE  StackInv'
<1>1. /\ depth \in 1..MaxDepth /\ depth \in Nat /\ depth' = depth - 1
      /\ stack \in [1..MaxDepth -> Frames]
      /\ stack[depth] = Top
  BY TopTyped, BoundsAssumption DEF IInv, TypeOK, Leave, Top
<1>2. 1..depth = 1..depth' \cup {depth} /\ depth \notin 1..depth'
  BY <1>1
<1>3. \A i \in 1..depth' : stack'[i] = stack[i]
  BY <1>1, <1>2 DEF Leave
<1>4. \A e : OpenWhnf(e)' <=> OpenWhnf(e) /\ ~(Top.call.op = "whnf" /\ e = Top.call.left)
  BY <1>1, <1>2, <1>3 DEF OpenWhnf, StackInv, AtMostOnce
<1>5. \A pair : OpenEq(pair)' <=>
                  OpenEq(pair) /\ ~(Top.call.op = "isDefEq" /\ pair = PairOf(Top.call))
  BY <1>1, <1>2, <1>3 DEF OpenEq, PairOf, StackInv, AtMostOnce
<1>6. AtMostOnce'
  BY <1>2, <1>3 DEF StackInv, AtMostOnce, PairOf
<1>7. ownerSize' = DeclarationCount(env)'
  BY <1>1 DEF StackInv, Untouched, DeclarationCount, environmentVars, ownerVars, callVars
<1> QED BY <1>4, <1>5, <1>6, <1>7 DEF StackInv

-----------------------------------------------------------------------------
(* Every step is one of them. *)

\* What a body does to the stack: it stays in its frame or leaves it.
BodyMoves ==
  /\ depth > 0 /\ Untouched
  /\ \/ \E f : f.call = Top.call /\ (Continue(f) \/ Suspend(f))
     \/ Top.call.op = "whnf" /\ \E r : LeaveWhnf(r)
     \/ Top.call.op = "isDefEq" /\ \E r : LeaveEq(r)

LEMMA MovesKeep ==
  ASSUME IInv, StackInv, BodyMoves
  PROVE  StackInv'
<1>1. CASE \E f : f.call = Top.call /\ (Continue(f) \/ Suspend(f))
  <2>1. PICK f : f.call = Top.call /\ (Continue(f) \/ Suspend(f))
    BY <1>1
  <2>2. depth' = depth /\ stack' = [stack EXCEPT ![depth] = f] /\ UNCHANGED inFlight
    BY <2>1 DEF Continue, Suspend
  <2>3. stack \in [1..MaxDepth -> Frames] /\ depth \in 1..MaxDepth
    BY TopTyped DEF IInv, TypeOK, BodyMoves
  <2>4. \A i \in 1..depth : stack'[i].call = stack[i].call
    BY <2>1, <2>2, <2>3, BoundsAssumption DEF Top
  <2>5. UNCHANGED <<status, ownerSize, env>>
    BY DEF BodyMoves, Untouched, environmentVars, ownerVars, callVars
  <2> QED BY <2>2, <2>4, <2>5, StackStays
<1>2. CASE Top.call.op = "whnf" /\ \E r : LeaveWhnf(r)
  BY <1>2, StackShrinks DEF BodyMoves, LeaveWhnf
<1>3. CASE Top.call.op = "isDefEq" /\ \E r : LeaveEq(r)
  BY <1>3, StackShrinks DEF BodyMoves, LeaveEq
<1> QED BY <1>1, <1>2, <1>3 DEF BodyMoves

\* The place a frame has stopped at tells which body it runs.
LEMMA PlaceTellsBody ==
  ASSUME IInv, depth > 0
  PROVE  /\ Top.pc \in {"head", "target", "parameter"} => Top.call.op = "whnf"
         /\ Top.pc \in {"left", "right", "compare", "goal", "irrelevance", "kind", "types"}
              => Top.call.op = "isDefEq"
<1>1. Top.call.op \in {"whnf", "isDefEq"}
  BY TopParts DEF Calls
<1> QED BY <1>1, TopParts DEF FrameSound

\* Updating what a frame works on does not change its call.
LEMMA CallKept ==
  ASSUME NEW f \in Frames
  PROVE  /\ \A pc : [f EXCEPT !.pc = pc].call = f.call
         /\ \A pc : [Spent(f) EXCEPT !.pc = pc].call = f.call
         /\ \A e : [Spent(f) EXCEPT !.subject = e].call = f.call
         /\ \A pc, e : [f EXCEPT !.pc = pc, !.subject = e].call = f.call
         /\ \A pc, e : [f EXCEPT !.pc = pc, !.other = e].call = f.call
         /\ \A pc, n : [f EXCEPT !.pc = pc, !.next = n].call = f.call
         /\ \A n : [f EXCEPT !.next = n].call = f.call
  BY DEF Frames, Spent

LEMMA WhnfMoves ==
  ASSUME IInv, WhnfBody
  PROVE  BodyMoves
<1>1. CASE WhnfOutOfFuel \/ WhnfIllFormed \/ WhnfDelta \/ WhnfZeta
             \/ WhnfReduceHead \/ WhnfStuck
  <2>1. /\ mode = "run" /\ Top.call.op = "whnf" /\ Untouched
    BY <1>1 DEF WhnfOutOfFuel, WhnfIllFormed, WhnfDelta, WhnfZeta, WhnfReduceHead, WhnfStuck,
                WhnfTurn, Running
  <2>2. depth > 0 /\ Top \in Frames
    BY <2>1, TopTyped DEF IInv, ModeOK
  <2>3. CASE WhnfOutOfFuel \/ WhnfIllFormed \/ WhnfStuck
    BY <2>1, <2>2, <2>3
       DEF BodyMoves, WhnfOutOfFuel, WhnfIllFormed, WhnfStuck, ThrowWhnf, ReturnWhnf
  <2>4. CASE WhnfDelta
    <3> DEFINE f == [Spent(Top) EXCEPT !.subject = BodyOf[@]]
    <3>1. Continue(f) /\ f.call = Top.call
      BY <2>2, <2>4, CallKept DEF WhnfDelta
    <3> QED BY <2>1, <2>2, <3>1 DEF BodyMoves
  <2>5. CASE WhnfZeta
    <3> DEFINE f == [Spent(Top) EXCEPT !.subject = LetBody[@]]
    <3>1. Continue(f) /\ f.call = Top.call
      BY <2>2, <2>5, CallKept DEF WhnfZeta
    <3> QED BY <2>1, <2>2, <3>1 DEF BodyMoves
  <2>6. CASE WhnfReduceHead
    <3>1. Suspend([Spent(Top) EXCEPT !.pc = "head"])
      BY <2>6 DEF WhnfReduceHead
    <3> QED BY <2>1, <2>2, <3>1, CallKept DEF BodyMoves
  <2> QED BY <1>1, <2>3, <2>4, <2>5, <2>6
<1>2. CASE WhnfHeadReduced
  <2> DEFINE beta == [Top EXCEPT !.pc = "start", !.subject = Contractum[<<@, reply.value>>]]
             iota == [Top EXCEPT !.pc = "target",
                                 !.subject = WithHead[<<Top.subject, reply.value>>]]
  <2>1. depth > 0 /\ Top.call.op = "whnf" /\ Top \in Frames /\ Untouched
    BY <1>2, AnsweredSound, PlaceTellsBody, TopTyped DEF WhnfHeadReduced
  <2>2. beta.call = Top.call /\ iota.call = Top.call
    BY <2>1, CallKept
  <2>3. Continue(beta) \/ Suspend(iota) \/ \E e : ReturnWhnf(e)
    BY <1>2 DEF WhnfHeadReduced
  <2> HIDE DEF beta, iota
  <2> QED BY <2>1, <2>2, <2>3 DEF BodyMoves, ReturnWhnf
<1>3. CASE WhnfTargetReduced
  <2> DEFINE f == [Top EXCEPT !.other = reply.value]
             iota == [f EXCEPT !.pc = "start", !.subject = Reduct[<<@, f.other>>]]
             first == [f EXCEPT !.pc = "parameter", !.next = 1]
  <2>1. depth > 0 /\ Top.call.op = "whnf" /\ Top \in Frames /\ Untouched
    BY <1>3, AnsweredSound, PlaceTellsBody, TopTyped DEF WhnfTargetReduced
  <2>2. iota.call = Top.call /\ first.call = Top.call
    BY <2>1 DEF Frames
  <2>3. Continue(iota) \/ Suspend(first) \/ \E e : ReturnWhnf(e)
    BY <1>3 DEF WhnfTargetReduced, Contract
  <2> HIDE DEF iota, first
  <2> QED BY <2>1, <2>2, <2>3 DEF BodyMoves, ReturnWhnf
<1>4. CASE WhnfParameterCompared
  <2> DEFINE iota == [Top EXCEPT !.pc = "start", !.subject = Reduct[<<@, Top.other>>]]
             another == [Top EXCEPT !.next = @ + 1]
  <2>1. depth > 0 /\ Top.call.op = "whnf" /\ Top \in Frames /\ Untouched
    BY <1>4, AnsweredSound, PlaceTellsBody, TopTyped DEF WhnfParameterCompared
  <2>2. iota.call = Top.call /\ another.call = Top.call
    BY <2>1, CallKept
  <2>3. Continue(iota) \/ Suspend(another) \/ \E e : ReturnWhnf(e)
    BY <1>4 DEF WhnfParameterCompared, Contract
  <2> HIDE DEF iota, another
  <2> QED BY <2>1, <2>2, <2>3 DEF BodyMoves, ReturnWhnf
<1>5. CASE WhnfUnwinds
  BY <1>5, AnsweredSound DEF WhnfUnwinds, BodyMoves, ThrowWhnf
<1> QED BY <1>1, <1>2, <1>3, <1>4, <1>5 DEF WhnfBody

LEMMA EqMoves ==
  ASSUME IInv, EqBody
  PROVE  BodyMoves
<1>0. /\ depth > 0 /\ Top \in Frames /\ Untouched /\ Top.call.op = "isDefEq"
  <2>1. CASE EqStart \/ EqCompare \/ EqIrrelevance
    BY <2>1, TopTyped DEF EqStart, EqCompare, EqIrrelevance, Running, IInv, ModeOK
  <2>2. CASE EqGivesUp \/ EqTypeError
    BY <2>2, TopTyped, AnsweredSound DEF EqGivesUp, EqTypeError
  <2>3. CASE EqLeftReduced \/ EqRightReduced \/ EqGoalCompared \/ EqKindReduced
               \/ EqTypesCompared
    <3>1. /\ depth > 0 /\ Untouched
          /\ Top.pc \in {"left", "right", "goal", "kind", "types"}
      BY <2>3, AnsweredSound
         DEF EqLeftReduced, EqRightReduced, EqGoalCompared, EqKindReduced, EqTypesCompared
    <3> QED BY <3>1, TopTyped, PlaceTellsBody
  <2> QED BY <2>1, <2>2, <2>3 DEF EqBody
<1> DEFINE At(pc) == [Top EXCEPT !.pc = pc]
           another == [Top EXCEPT !.next = @ + 1]
           first == [Top EXCEPT !.pc = "goal", !.next = 1]
           begun == [Spent(Top) EXCEPT !.pc = "left"]
           left == [Top EXCEPT !.pc = "right", !.subject = reply.value]
           right == [Top EXCEPT !.pc = "compare", !.other = reply.value]
<1>1. /\ \A pc : At(pc).call = Top.call
      /\ another.call = Top.call /\ first.call = Top.call /\ begun.call = Top.call
      /\ left.call = Top.call /\ right.call = Top.call
  BY <1>0, CallKept
<1>2. \/ \E pc : Continue(At(pc)) \/ Suspend(At(pc))
      \/ Suspend(another) \/ Suspend(first) \/ Suspend(begun)
      \/ Suspend(left) \/ Continue(right)
      \/ \E answer : ReturnEq(answer)
      \/ \E kind : ThrowEq(kind)
  <2>1. CASE EqStart \/ EqLeftReduced \/ EqRightReduced
    BY <2>1 DEF EqStart, EqLeftReduced, EqRightReduced
  <2>2. CASE EqCompare
    BY <2>2 DEF EqCompare
  <2>3. CASE EqGoalCompared
    BY <2>3 DEF EqGoalCompared
  <2>4. CASE EqIrrelevance \/ EqKindReduced \/ EqTypesCompared
    BY <2>4 DEF EqIrrelevance, EqKindReduced, EqTypesCompared
  <2>5. CASE EqGivesUp \/ EqTypeError
    BY <2>5 DEF EqGivesUp, EqTypeError
  <2> QED BY <2>1, <2>2, <2>3, <2>4, <2>5 DEF EqBody
<1> HIDE DEF At, another, first, begun, left, right
<1>3. (\E r : LeaveEq(r)) \/ \E f : f.call = Top.call /\ (Continue(f) \/ Suspend(f))
  BY <1>1, <1>2 DEF ReturnEq, ThrowEq
<1> QED BY <1>0, <1>3 DEF BodyMoves

LEMMA ElaboratorKeepsStack ==
  ASSUME IInv, StackInv, Elaborator
  PROVE  StackInv'
<1>1. mode = "idle" /\ UNCHANGED <<stack, depth>>
  BY DEF Elaborator, BeginDeclaration, CommitDeclaration, FailDeclaration, Unfold,
         UnfoldThrows, Flip, RestoreOpacity, Call, control
<1>2. depth = 0 /\ depth' = 0
  BY <1>1 DEF IInv, ModeOK
<1>3. whnfInFlight = {} /\ eqInFlight = {}
  BY <1>2, NothingInFlight
<1>4. whnfInFlight' = {} /\ eqInFlight' = {}
  BY <1>3 DEF Elaborator, BeginDeclaration, CommitDeclaration, FailDeclaration, Unfold,
              UnfoldThrows, RestoreOpacity, InvalidateKernelCaches, Call, inFlight
<1> QED BY <1>2, <1>4, StackEmpty

LEMMA WrapperKeepsStack ==
  ASSUME IInv, StackInv, Wrapper
  PROVE  StackInv'
<1>1. CASE EnterTooDeep \/ EnterWhnfHit \/ EnterWhnfLoop \/ EnterEqHit \/ EnterEqLoop
             \/ Deliver
  <2>1. UNCHANGED <<stack, depth, environmentVars, ownerVars, inFlight, callVars>>
    BY <1>1 DEF EnterTooDeep, EnterWhnfHit, EnterWhnfLoop, EnterEqHit, EnterEqLoop, Deliver,
                Answer
  <2> QED BY <2>1, StackStays DEF environmentVars, ownerVars, callVars
<1>2. CASE ClaimCaches
  <2>1. depth = 0
    <3>1. depth > 0 => Owned
      BY DEF IInv, ModeOK, StackInv, Owned
    <3> QED BY <1>2, <3>1 DEF ClaimCaches, IInv, TypeOK
  <2> QED BY <1>2, <2>1, StackEmpty DEF ClaimCaches, control
<1>3. CASE EnterWhnf
  BY <1>3, StackGrows DEF EnterWhnf
<1>4. CASE EnterEq
  BY <1>4, StackGrows DEF EnterEq
<1> QED BY <1>1, <1>2, <1>3, <1>4 DEF Wrapper

LEMMA StackInvariance == Spec => []StackInv
<1>1. Init => StackInv
  <2>1. Init => 1..depth = {}
    BY DEF Init
  <2> QED BY <2>1 DEF Init, StackInv, OpenWhnf, OpenEq, AtMostOnce
<1>2. IInv /\ StackInv /\ [Next]_vars => StackInv'
  <2> SUFFICES ASSUME IInv, StackInv, [Next]_vars PROVE StackInv'
    OBVIOUS
  <2>1. CASE Next
    BY <2>1, ElaboratorKeepsStack, WrapperKeepsStack, WhnfMoves, EqMoves, MovesKeep
       DEF Next, Kernel
  <2>2. CASE UNCHANGED vars
    BY <2>2, StackStays
       DEF vars, environmentVars, ownerVars, inFlight, callVars, control
  <2> QED BY <2>1, <2>2
<1> QED BY <1>1, <1>2, Invariance, PTL DEF Spec

\* Whatever cut a call short, the in-flight sets hold the calls on the stack
\* and nothing else, each once: a later call is never taken for a cycle.
THEOREM InFlightIsTheStack == Spec => []InFlightMatchesStack
<1>1. IInv /\ StackInv => InFlightMatchesStack
  <2> SUFFICES ASSUME IInv, StackInv PROVE InFlightMatchesStack
    OBVIOUS
  <2>1. \A i \in 1..depth : stack[i].call \in Calls /\ PairOf(stack[i].call) \in Pairs
                              /\ stack[i].call.left \in Expressions
    <3>1. \A i \in 1..depth : i \in 1..MaxDepth
      BY BoundsAssumption DEF IInv, TypeOK
    <3> QED BY <3>1, CallsTyped DEF IInv, TypeOK, Frames
  <2>2. whnfInFlight = {stack[i].call.left : i \in {j \in 1..depth : stack[j].call.op = "whnf"}}
    BY <2>1 DEF StackInv, OpenWhnf, IInv, TypeOK
  <2>3. eqInFlight =
          {PairOf(stack[i].call) : i \in {j \in 1..depth : stack[j].call.op = "isDefEq"}}
    BY <2>1 DEF StackInv, OpenEq, IInv, TypeOK
  <2>4. ASSUME NEW i \in 1..depth, NEW j \in 1..depth, stack[i].call = stack[j].call
        PROVE  i = j
    <3>1. stack[i].call.op \in {"whnf", "isDefEq"}
      BY <2>1 DEF Calls
    <3> QED BY <2>4, <3>1 DEF StackInv, AtMostOnce, PairOf
  <2> QED BY <2>2, <2>3, <2>4 DEF InFlightMatchesStack
<1> QED BY <1>1, Invariance, StackInvariance, PTL

-----------------------------------------------------------------------------
(* Every call ends.  Each step of the kernel lowers a rank that cannot be     *)
(* lowered for ever.  The rank has one place per frame the stack may hold,    *)
(* the oldest first: the fuel of the frame, how far its body is from its next *)
(* turn, and how many comparisons its list still has.  The place above the    *)
(* top frame stands for the call being entered or the reply on its way.       *)

\* How far a body is from the end of its turn.
Stage(pc) ==
  IF pc \in {"start", "types"} THEN 1
  ELSE IF pc \in {"parameter", "kind"} THEN 2
  ELSE IF pc \in {"target", "irrelevance"} THEN 3
  ELSE IF pc \in {"head", "goal"} THEN 4
  ELSE IF pc = "compare" THEN 5
  ELSE IF pc = "right" THEN 6
  ELSE 7

Remaining(f) ==
  IF f.pc = "parameter" THEN Len(Parameters[<<f.subject, f.other>>]) - f.next
  ELSE IF f.pc = "goal" THEN Len(Goals[<<f.subject, f.other>>]) - f.next
  ELSE 0

Rank(fuel, stage, remaining) == <<fuel, <<stage, remaining>>>>
FrameRank(f) == Rank(f.fuel, Stage(f.pc), Remaining(f))

EntryRank(owned) == Rank(MaxFuel + 1, IF owned THEN 0 ELSE 1, 0)
ReplyRank == Rank(0, 0, 1)
RestRank  == Rank(0, 0, 0)

SlotRank(i) ==
  IF i <= depth THEN FrameRank(stack[i])
  ELSE IF i # depth + 1 THEN RestRank
  ELSE IF mode = "enter" THEN EntryRank(Owned)
  ELSE IF mode = "reply" THEN ReplyRank
  ELSE RestRank

Work == [i \in 1..(MaxDepth + 1) |-> SlotRank(i)]

Below     == OpToRel(<, Nat)
Ranks     == Nat \X (Nat \X Nat)
LowerRank == LexPairOrdering(Below, LexPairOrdering(Below, Below, Nat, Nat), Nat, Nat \X Nat)
Works     == [1..(MaxDepth + 1) -> Ranks]
LessWork  == LexProductOrdering(LowerRank, Ranks, MaxDepth + 1)

\* No frame has more fuel than a call starts with.
FuelInv == \A i \in 1..depth : stack[i].fuel <= MaxFuel

LEMMA RankTyped ==
  ASSUME NEW a \in Nat, NEW b \in Nat, NEW c \in Nat
  PROVE  Rank(a, b, c) \in Ranks
  BY DEF Rank, Ranks

LEMMA RankLower ==
  ASSUME NEW a \in Nat, NEW b \in Nat, NEW c \in Nat,
         NEW x \in Nat, NEW y \in Nat, NEW z \in Nat,
         a < x \/ (a = x /\ (b < y \/ (b = y /\ c < z)))
  PROVE  <<Rank(a, b, c), Rank(x, y, z)>> \in LowerRank
<1> DEFINE inner == LexPairOrdering(Below, Below, Nat, Nat)
<1>1. \A m, n \in Nat : <<m, n>> \in Below <=> m < n
  BY DEF Below, OpToRel
<1>2. b < y \/ (b = y /\ c < z) => <<<<b, c>>, <<y, z>>>> \in inner
  BY <1>1 DEF LexPairOrdering
<1> HIDE DEF inner
<1>3. LowerRank = LexPairOrdering(Below, inner, Nat, Nat \X Nat)
  BY DEF LowerRank, inner
<1> QED BY <1>1, <1>2, <1>3 DEF LexPairOrdering, Rank

\* Only finitely many steps go down.
THEOREM WorkRunsOut == IsWellFoundedOn(LessWork, Works)
<1>1. IsWellFoundedOn(Below, Nat)
  BY NatLessThanWellFounded DEF Below
<1>2. IsWellFoundedOn(LexPairOrdering(Below, Below, Nat, Nat), Nat \X Nat)
  BY <1>1, WFLexPairOrdering
<1>3. IsWellFoundedOn(LowerRank, Ranks)
  BY <1>1, <1>2, WFLexPairOrdering DEF LowerRank, Ranks
<1>4. MaxDepth + 1 \in Nat
  BY BoundsAssumption
<1> QED BY <1>3, <1>4, WFLexProductOrdering DEF LessWork, Works

LEMMA StageTyped == \A pc : Stage(pc) \in Nat /\ Stage(pc) > 0
  BY DEF Stage

LEMMA FrameRankTyped ==
  ASSUME NEW C, NEW f \in Frames, FrameSound(C, f)
  PROVE  /\ f.fuel \in Nat /\ Stage(f.pc) \in Nat /\ Remaining(f) \in Nat
         /\ FrameRank(f) \in Ranks
<1>1. f.fuel \in Nat /\ f.next \in Nat /\ <<f.subject, f.other>> \in Pairs
  BY DEF Frames, Pairs
<1>2. /\ Len(Parameters[<<f.subject, f.other>>]) \in Nat
      /\ Len(Goals[<<f.subject, f.other>>]) \in Nat
  BY <1>1, SyntaxAssumption
<1>3. Remaining(f) \in Nat
  BY <1>1, <1>2 DEF Remaining, FrameSound
<1>4. Stage(f.pc) \in Nat
  BY StageTyped
<1> QED BY <1>1, <1>3, <1>4, RankTyped DEF FrameRank

LEMMA SlotTyped ==
  ASSUME IInv, NEW i \in 1..(MaxDepth + 1)
  PROVE  SlotRank(i) \in Ranks
<1>1. CASE i <= depth
  <2>1. i \in 1..depth /\ i \in 1..MaxDepth
    BY <1>1, BoundsAssumption DEF IInv, TypeOK
  <2>2. stack[i] \in Frames /\ FrameSound(Now, stack[i])
    BY <2>1 DEF IInv, TypeOK, FramesSound
  <2> QED BY <1>1, <2>2, FrameRankTyped DEF SlotRank
<1>2. CASE ~(i <= depth)
  <2>1. RestRank \in Ranks /\ ReplyRank \in Ranks
    BY RankTyped DEF RestRank, ReplyRank
  <2>2. \A owned : EntryRank(owned) \in Ranks
    BY RankTyped, BoundsAssumption DEF EntryRank
  <2> QED BY <1>2, <2>1, <2>2 DEF SlotRank
<1> QED BY <1>1, <1>2

LEMMA WorkTyped == IInv => Work \in Works
  BY SlotTyped DEF Work, Works

\* What a step does to the oldest place it changes decides.
LEMMA WorkFalls ==
  ASSUME Work \in Works, Work' \in Works, NEW d \in 1..(MaxDepth + 1),
         \A i \in 1..(d - 1) : SlotRank(i)' = SlotRank(i),
         <<SlotRank(d)', SlotRank(d)>> \in LowerRank
  PROVE  <<Work', Work>> \in LessWork
<1> DEFINE n == MaxDepth + 1
<1>1. n \in Nat
  BY BoundsAssumption
<1>2. \A i \in 1..n : Work[i] = SlotRank(i) /\ Work'[i] = SlotRank(i)'
  BY DEF Work
<1>3. \A i \in 1..(d - 1) : i \in 1..n
  BY <1>1
<1>4. /\ \A i \in 1..(d - 1) : Work'[i] = Work[i]
      /\ <<Work'[d], Work[d]>> \in LowerRank
  BY <1>2, <1>3
<1>5. Work \in [1..n -> Ranks] /\ Work' \in [1..n -> Ranks]
  BY DEF Works
<1> HIDE DEF n, Work
<1> QED BY <1>4, <1>5 DEF LexProductOrdering, LessWork, n

-----------------------------------------------------------------------------
(* The ways a step lowers it. *)

\* A frame that goes on has less ahead of it.
LEMMA FrameGoesOn ==
  ASSUME IInv, Work \in Works, Work' \in Works, depth > 0,
         NEW f, <<FrameRank(f), FrameRank(Top)>> \in LowerRank,
         Continue(f) \/ Suspend(f)
  PROVE  <<Work', Work>> \in LessWork
<1>1. /\ depth \in 1..MaxDepth /\ depth \in 1..(MaxDepth + 1) /\ depth' = depth
      /\ stack \in [1..MaxDepth -> Frames]
      /\ stack' = [stack EXCEPT ![depth] = f]
  BY TopTyped, BoundsAssumption DEF IInv, TypeOK, Continue, Suspend
<1>2. \A i \in 1..(depth - 1) : SlotRank(i)' = SlotRank(i)
  <2> SUFFICES ASSUME NEW i \in 1..(depth - 1) PROVE SlotRank(i)' = SlotRank(i)
    OBVIOUS
  <2>1. i <= depth /\ stack'[i] = stack[i]
    BY <1>1, BoundsAssumption
  <2> QED BY <1>1, <2>1 DEF SlotRank, FrameRank, Remaining
<1>3. SlotRank(depth)' = FrameRank(f) /\ SlotRank(depth) = FrameRank(Top)
  BY <1>1, BoundsAssumption DEF SlotRank, FrameRank, Remaining, Top
<1> QED BY <1>1, <1>2, <1>3, WorkFalls

\* A frame that leaves makes room for its reply, which is less than any frame.
LEMMA FrameLeaves ==
  ASSUME IInv, Work \in Works, Work' \in Works, depth > 0, NEW r, Leave(r)
  PROVE  <<Work', Work>> \in LessWork
<1>1. /\ depth \in 1..MaxDepth /\ depth' = depth - 1
      /\ stack \in [1..MaxDepth -> Frames] /\ mode' = "reply"
      /\ stack' = [stack EXCEPT ![depth] = IdleFrame]
  BY TopTyped, BoundsAssumption DEF IInv, TypeOK, Leave
<1>2. PICK d \in 1..(MaxDepth + 1) : d = depth
  BY <1>1, BoundsAssumption
<1>3. \A i \in 1..(d - 1) : SlotRank(i)' = SlotRank(i)
  <2> SUFFICES ASSUME NEW i \in 1..(d - 1) PROVE SlotRank(i)' = SlotRank(i)
    OBVIOUS
  <2>1. i <= depth /\ i <= depth' /\ stack'[i] = stack[i]
    BY <1>1, <1>2, BoundsAssumption
  <2> QED BY <2>1 DEF SlotRank, FrameRank, Remaining
<1>4. SlotRank(d)' = ReplyRank
  <2>1. ~(d <= depth') /\ d = depth' + 1
    BY <1>1, <1>2, BoundsAssumption
  <2> QED BY <1>1, <2>1 DEF SlotRank
<1>5. SlotRank(d) = FrameRank(Top)
  BY <1>1, <1>2, BoundsAssumption DEF SlotRank, Top
<1>6. <<ReplyRank, FrameRank(Top)>> \in LowerRank
  <2>1. Top.fuel \in Nat /\ Stage(Top.pc) \in Nat /\ Stage(Top.pc) > 0 /\ Remaining(Top) \in Nat
    BY TopTyped, FrameRankTyped, StageTyped
  <2> QED BY <2>1, RankLower DEF ReplyRank, FrameRank
<1> QED BY <1>3, <1>4, <1>5, <1>6, WorkFalls

\* What happens above the frames leaves the frames alone.
LEMMA EntryFalls ==
  ASSUME IInv, Work \in Works, Work' \in Works, NEW d \in 1..(MaxDepth + 1),
         d = depth + 1,
         \A i \in 1..depth : i <= depth' /\ stack'[i] = stack[i],
         <<SlotRank(d)', SlotRank(d)>> \in LowerRank
  PROVE  <<Work', Work>> \in LessWork
<1>1. \A i \in 1..(d - 1) : SlotRank(i)' = SlotRank(i)
  <2> SUFFICES ASSUME NEW i \in 1..(d - 1) PROVE SlotRank(i)' = SlotRank(i)
    OBVIOUS
  <2>1. i <= depth /\ i <= depth' /\ stack'[i] = stack[i]
    BY BoundsAssumption DEF IInv, TypeOK
  <2> QED BY <2>1 DEF SlotRank, FrameRank, Remaining
<1> QED BY <1>1, WorkFalls

LEMMA WrapperFalls ==
  ASSUME IInv, FuelInv, Work \in Works, Work' \in Works, Wrapper
  PROVE  <<Work', Work>> \in LessWork
<1>0. /\ depth \in 0..MaxDepth /\ MaxFuel \in Nat /\ MaxDepth \in Nat
      /\ \A i \in 1..depth : i <= depth
  BY BoundsAssumption DEF IInv, TypeOK
<1>d. PICK d \in 1..(MaxDepth + 1) : d = depth + 1 /\ ~(d <= depth)
  BY <1>0
<1>1. CASE EnterTooDeep \/ EnterWhnfHit \/ EnterWhnfLoop \/ EnterEqHit \/ EnterEqLoop
  <2>1. UNCHANGED <<stack, depth>> /\ mode = "enter" /\ mode' = "reply"
    BY <1>1 DEF EnterTooDeep, EnterWhnfHit, EnterWhnfLoop, EnterEqHit, EnterEqLoop,
                Entering, Answer
  <2>2. SlotRank(d)' = ReplyRank /\ SlotRank(d) = EntryRank(Owned)
    BY <1>d, <2>1 DEF SlotRank
  <2>3. <<ReplyRank, EntryRank(Owned)>> \in LowerRank
    BY <1>0, RankLower DEF ReplyRank, EntryRank
  <2> QED BY <1>0, <1>d, <2>1, <2>2, <2>3, EntryFalls
<1>2. CASE ClaimCaches
  <2>1. UNCHANGED <<stack, depth>> /\ mode = "enter" /\ mode' = "enter" /\ ~Owned /\ Owned'
    BY <1>2 DEF ClaimCaches, control, Owned, DeclarationCount, environmentVars, callVars
  <2>2. SlotRank(d)' = EntryRank(TRUE) /\ SlotRank(d) = EntryRank(FALSE)
    BY <1>d, <2>1 DEF SlotRank, EntryRank
  <2>3. <<EntryRank(TRUE), EntryRank(FALSE)>> \in LowerRank
    BY <1>0, RankLower DEF EntryRank
  <2> QED BY <1>0, <1>d, <2>1, <2>2, <2>3, EntryFalls
<1>3. CASE EnterWhnf \/ EnterEq
  <2>1. /\ mode = "enter" /\ depth < MaxDepth /\ depth' = depth + 1
        /\ stack' = [stack EXCEPT ![depth + 1] = NewFrame(TheCall, FuelAt(depth), epoch)]
        /\ stack \in [1..MaxDepth -> Frames]
    BY <1>3 DEF EnterWhnf, EnterEq, Entering, Push, IInv, TypeOK
  <2>2. /\ \A i \in 1..depth : i <= depth' /\ stack'[i] = stack[i]
        /\ stack'[d] = NewFrame(TheCall, FuelAt(depth), epoch)
    BY <1>0, <1>d, <2>1
  <2>3. FuelAt(depth) \in Nat /\ FuelAt(depth) <= MaxFuel
    BY <1>0 DEF FuelAt, FuelInv, IInv, TypeOK, Frames
  <2>4. stack'[d].fuel = FuelAt(depth) /\ stack'[d].pc = "start"
    BY <2>2 DEF NewFrame
  <2>5. SlotRank(d)' = FrameRank(stack'[d])
    BY <1>0, <1>d, <2>1 DEF SlotRank, FrameRank, Remaining
  <2>6. FrameRank(stack'[d]) = Rank(FuelAt(depth), 1, 0)
    BY <2>4 DEF FrameRank, Stage, Remaining
  <2>7. SlotRank(d) = EntryRank(Owned)
    BY <1>d, <2>1 DEF SlotRank
  <2>8. <<Rank(FuelAt(depth), 1, 0), EntryRank(Owned)>> \in LowerRank
    BY <1>0, <2>3, RankLower DEF EntryRank
  <2> QED BY <1>d, <2>2, <2>5, <2>6, <2>7, <2>8, EntryFalls
<1>4. CASE Deliver
  <2>1. UNCHANGED <<stack, depth>> /\ depth = 0 /\ mode = "reply" /\ mode' = "idle"
    BY <1>4 DEF Deliver
  <2>2. SlotRank(d)' = RestRank /\ SlotRank(d) = ReplyRank
    BY <1>d, <2>1 DEF SlotRank
  <2>3. <<RestRank, ReplyRank>> \in LowerRank
    BY RankLower DEF RestRank, ReplyRank
  <2> QED BY <1>0, <1>d, <2>1, <2>2, <2>3, EntryFalls
<1> QED BY <1>1, <1>2, <1>3, <1>4 DEF Wrapper

-----------------------------------------------------------------------------
(* Every step of a body is one of the first two. *)

Advances(f) ==
  /\ f.fuel \in 0..Top.fuel
  /\ <<FrameRank(f), FrameRank(Top)>> \in LowerRank

BodyAdvances ==
  /\ depth > 0
  /\ \/ \E f : Advances(f) /\ (Continue(f) \/ Suspend(f))
     \/ \E r : Leave(r)

LEMMA TopRanked ==
  ASSUME IInv, depth > 0
  PROVE  Top.fuel \in Nat /\ Stage(Top.pc) \in Nat /\ Remaining(Top) \in Nat
  BY TopTyped, FrameRankTyped

\* A turn of a loop is paid for in fuel.
LEMMA TurnAdvances ==
  ASSUME IInv, depth > 0, NEW f, f.fuel = Top.fuel - 1, Top.fuel > 1,
         Remaining(f) \in Nat
  PROVE  Advances(f)
<1>1. f.fuel \in Nat /\ f.fuel < Top.fuel
  BY TopRanked
<1>2. Stage(f.pc) \in Nat
  BY StageTyped
<1>3. <<FrameRank(f), FrameRank(Top)>> \in LowerRank
  BY <1>1, <1>2, TopRanked, RankLower DEF FrameRank
<1> QED BY <1>1, <1>3, TopRanked DEF Advances

\* Within a turn a body only moves on.
LEMMA StageAdvances ==
  ASSUME IInv, depth > 0, NEW f, f.fuel = Top.fuel, Stage(f.pc) < Stage(Top.pc),
         Remaining(f) \in Nat
  PROVE  Advances(f)
<1>1. Stage(f.pc) \in Nat
  BY StageTyped
<1>2. <<FrameRank(f), FrameRank(Top)>> \in LowerRank
  BY <1>1, TopRanked, RankLower DEF FrameRank
<1> QED BY <1>2, TopRanked DEF Advances

\* Within a list of comparisons it goes to the next.
LEMMA ListAdvances ==
  ASSUME IInv, depth > 0, NEW f, f.fuel = Top.fuel, f.pc = Top.pc,
         Remaining(f) \in Nat, Remaining(f) < Remaining(Top)
  PROVE  Advances(f)
  BY TopRanked, StageTyped, RankLower DEF Advances, FrameRank

LEMMA NothingRemains ==
  ASSUME NEW f, f.pc \notin {"parameter", "goal"}
  PROVE  Remaining(f) \in Nat
  BY DEF Remaining

LEMMA WhnfAdvances ==
  ASSUME IInv, WhnfBody
  PROVE  BodyAdvances
<1>0. depth > 0 /\ Top \in Frames
  BY WhnfMoves, TopTyped DEF BodyMoves
<1>1. CASE WhnfOutOfFuel \/ WhnfIllFormed \/ WhnfStuck \/ WhnfUnwinds
  BY <1>0, <1>1
     DEF BodyAdvances, WhnfOutOfFuel, WhnfIllFormed, WhnfStuck, WhnfUnwinds, ThrowWhnf,
         ReturnWhnf, LeaveWhnf
<1>2. CASE WhnfDelta \/ WhnfZeta \/ WhnfReduceHead
  <2>1. Top.fuel > 1 /\ Top.pc = "start"
    BY <1>2 DEF WhnfDelta, WhnfZeta, WhnfReduceHead, WhnfTurn, Running
  <2>2. PICK f : /\ f.fuel = Top.fuel - 1 /\ f.pc \in {"start", "head"}
                 /\ Continue(f) \/ Suspend(f)
    <3>1. CASE WhnfDelta
      <4> DEFINE f == [Spent(Top) EXCEPT !.subject = BodyOf[@]]
      <4>1. f.fuel = Top.fuel - 1 /\ f.pc = "start"
        BY <1>0, <2>1 DEF Spent, Frames
      <4>2. Continue(f)
        BY <3>1 DEF WhnfDelta
      <4> HIDE DEF f
      <4> QED BY <4>1, <4>2
    <3>2. CASE WhnfZeta
      <4> DEFINE f == [Spent(Top) EXCEPT !.subject = LetBody[@]]
      <4>1. f.fuel = Top.fuel - 1 /\ f.pc = "start"
        BY <1>0, <2>1 DEF Spent, Frames
      <4>2. Continue(f)
        BY <3>2 DEF WhnfZeta
      <4> HIDE DEF f
      <4> QED BY <4>1, <4>2
    <3>3. CASE WhnfReduceHead
      <4> DEFINE f == [Spent(Top) EXCEPT !.pc = "head"]
      <4>1. f.fuel = Top.fuel - 1 /\ f.pc = "head"
        BY <1>0, <2>1 DEF Spent, Frames
      <4>2. Suspend(f)
        BY <3>3 DEF WhnfReduceHead
      <4> HIDE DEF f
      <4> QED BY <4>1, <4>2
    <3> QED BY <1>2, <3>1, <3>2, <3>3
  <2>3. Advances(f)
    BY <1>0, <2>1, <2>2, NothingRemains, TurnAdvances
  <2> QED BY <1>0, <2>2, <2>3 DEF BodyAdvances
<1>3. CASE WhnfHeadReduced
  <2> DEFINE beta == [Top EXCEPT !.pc = "start", !.subject = Contractum[<<@, reply.value>>]]
             iota == [Top EXCEPT !.pc = "target",
                                 !.subject = WithHead[<<Top.subject, reply.value>>]]
  <2>1. Top.pc = "head"
    BY <1>3 DEF WhnfHeadReduced, Answered
  <2>2. /\ beta.pc = "start" /\ beta.fuel = Top.fuel
        /\ iota.pc = "target" /\ iota.fuel = Top.fuel
    BY <1>0 DEF Frames
  <2>3. Continue(beta) \/ Suspend(iota) \/ \E e : ReturnWhnf(e)
    BY <1>3 DEF WhnfHeadReduced
  <2> HIDE DEF beta, iota
  <2>4. /\ Stage(beta.pc) < Stage(Top.pc) /\ Remaining(beta) \in Nat
        /\ Stage(iota.pc) < Stage(Top.pc) /\ Remaining(iota) \in Nat
    BY <2>1, <2>2, NothingRemains DEF Stage
  <2>5. Advances(beta) /\ Advances(iota)
    BY <1>0, <2>2, <2>4, StageAdvances
  <2> QED BY <1>0, <2>3, <2>5 DEF BodyAdvances, ReturnWhnf, LeaveWhnf
<1>4. CASE WhnfTargetReduced
  <2> DEFINE f == [Top EXCEPT !.other = reply.value]
             iota == [f EXCEPT !.pc = "start", !.subject = Reduct[<<@, f.other>>]]
             first == [f EXCEPT !.pc = "parameter", !.next = 1]
             list == Parameters[<<Top.subject, reply.value>>]
  <2>1. Top.pc = "target" /\ reply.value \in Expressions
    BY <1>4 DEF WhnfTargetReduced, Answered, IInv, TypeOK, Replies
  <2>2. /\ iota.pc = "start" /\ iota.fuel = Top.fuel
        /\ first.pc = "parameter" /\ first.fuel = Top.fuel /\ first.next = 1
        /\ first.subject = Top.subject /\ first.other = reply.value
    BY <1>0 DEF Frames
  <2>3. \/ Continue(iota) \/ (list # <<>> /\ Suspend(first)) \/ \E e : ReturnWhnf(e)
    BY <1>0, <1>4 DEF WhnfTargetReduced, Contract, Frames
  <2>4. list \in Seq(Pairs)
    BY <1>0, <2>1, SyntaxAssumption DEF Frames, Pairs
  <2> HIDE DEF iota, first, list
  <2>5. list # <<>> => Remaining(first) \in Nat
    <3>1. Remaining(first) = Len(list) - 1
      BY <2>2 DEF Remaining, list
    <3> QED BY <2>4, <3>1
  <2>6. /\ Stage(iota.pc) < Stage(Top.pc) /\ Remaining(iota) \in Nat
        /\ Stage(first.pc) < Stage(Top.pc)
    BY <2>1, <2>2, NothingRemains DEF Stage
  <2>7. Advances(iota) /\ (list # <<>> => Advances(first))
    BY <1>0, <2>2, <2>5, <2>6, StageAdvances
  <2> QED BY <1>0, <2>3, <2>7 DEF BodyAdvances, ReturnWhnf, LeaveWhnf
<1>5. CASE WhnfParameterCompared
  <2> DEFINE iota == [Top EXCEPT !.pc = "start", !.subject = Reduct[<<@, Top.other>>]]
             another == [Top EXCEPT !.next = @ + 1]
             list == Parameters[<<Top.subject, Top.other>>]
  <2>1. Top.pc = "parameter" /\ Top.next \in Nat
    BY <1>0, <1>5 DEF WhnfParameterCompared, Answered, Frames
  <2>2. /\ iota.pc = "start" /\ iota.fuel = Top.fuel
        /\ another.pc = Top.pc /\ another.fuel = Top.fuel /\ another.next = Top.next + 1
        /\ another.subject = Top.subject /\ another.other = Top.other
    BY <1>0 DEF Frames
  <2>3. \/ Continue(iota) \/ (Top.next < Len(list) /\ Suspend(another))
        \/ \E e : ReturnWhnf(e)
    BY <1>5 DEF WhnfParameterCompared, Contract
  <2>4. Len(list) \in Nat
    BY <1>0, SyntaxAssumption DEF Frames, Pairs
  <2> HIDE DEF iota, another, list
  <2>5. Remaining(Top) = Len(list) - Top.next /\ Remaining(another) = Len(list) - (Top.next + 1)
    BY <2>1, <2>2 DEF Remaining, list
  <2>6. Stage(iota.pc) < Stage(Top.pc) /\ Remaining(iota) \in Nat
    BY <2>1, <2>2, NothingRemains DEF Stage
  <2>7. Advances(iota) /\ (Top.next < Len(list) => Advances(another))
    BY <1>0, <2>1, <2>2, <2>4, <2>5, <2>6, StageAdvances, ListAdvances
  <2> QED BY <1>0, <2>3, <2>7 DEF BodyAdvances, ReturnWhnf, LeaveWhnf
<1> QED BY <1>1, <1>2, <1>3, <1>4, <1>5 DEF WhnfBody

LEMMA EqAdvances ==
  ASSUME IInv, EqBody
  PROVE  BodyAdvances
<1>0. depth > 0 /\ Top \in Frames /\ Top.next \in Nat
  BY EqMoves, TopTyped DEF BodyMoves, Frames
<1>1. CASE EqTypesCompared \/ EqGivesUp \/ EqTypeError
  BY <1>0, <1>1
     DEF BodyAdvances, EqTypesCompared, EqGivesUp, EqTypeError, ReturnEq, ThrowEq, LeaveEq
<1>2. CASE EqStart
  <2> DEFINE f == [Spent(Top) EXCEPT !.pc = "left"]
  <2>1. (Top.fuel > 1 /\ Suspend(f)) \/ \E answer : ReturnEq(answer)
    BY <1>2 DEF EqStart
  <2>2. f.pc = "left" /\ f.fuel = Top.fuel - 1
    BY <1>0 DEF Spent, Frames
  <2> HIDE DEF f
  <2>3. Top.fuel > 1 => Advances(f)
    BY <1>0, <2>2, NothingRemains, TurnAdvances
  <2> QED BY <1>0, <2>1, <2>3 DEF BodyAdvances, ReturnEq, LeaveEq
<1>3. CASE EqLeftReduced \/ EqRightReduced \/ EqIrrelevance \/ EqKindReduced
  <2> DEFINE left == [Top EXCEPT !.pc = "right", !.subject = reply.value]
             right == [Top EXCEPT !.pc = "compare", !.other = reply.value]
             kind == [Top EXCEPT !.pc = "kind"]
             types == [Top EXCEPT !.pc = "types"]
  <2>1. \/ Top.pc = "left" /\ Suspend(left)
        \/ Top.pc = "right" /\ Continue(right)
        \/ Top.pc = "irrelevance" /\ Suspend(kind)
        \/ Top.pc = "kind" /\ Suspend(types)
        \/ \E answer : ReturnEq(answer)
    BY <1>3 DEF EqLeftReduced, EqRightReduced, EqIrrelevance, EqKindReduced, Answered, Running
  <2>2. /\ left.pc = "right" /\ left.fuel = Top.fuel
        /\ right.pc = "compare" /\ right.fuel = Top.fuel
        /\ kind.pc = "kind" /\ kind.fuel = Top.fuel
        /\ types.pc = "types" /\ types.fuel = Top.fuel
    BY <1>0 DEF Frames
  <2> HIDE DEF left, right, kind, types
  <2>3. /\ Remaining(left) \in Nat /\ Remaining(right) \in Nat
        /\ Remaining(kind) \in Nat /\ Remaining(types) \in Nat
    BY <2>2, NothingRemains
  <2>4. /\ Top.pc = "left" => Stage(left.pc) < Stage(Top.pc)
        /\ Top.pc = "right" => Stage(right.pc) < Stage(Top.pc)
        /\ Top.pc = "irrelevance" => Stage(kind.pc) < Stage(Top.pc)
        /\ Top.pc = "kind" => Stage(types.pc) < Stage(Top.pc)
    BY <2>2 DEF Stage
  <2>5. /\ Top.pc = "left" => Advances(left)
        /\ Top.pc = "right" => Advances(right)
        /\ Top.pc = "irrelevance" => Advances(kind)
        /\ Top.pc = "kind" => Advances(types)
    BY <1>0, <2>2, <2>3, <2>4, StageAdvances
  <2> QED BY <1>0, <2>1, <2>5 DEF BodyAdvances, ReturnEq, LeaveEq
<1>4. CASE EqCompare \/ EqGoalCompared
  <2> DEFINE pair == <<Top.subject, Top.other>>
             list == Goals[pair]
             first == [Top EXCEPT !.pc = "goal", !.next = 1]
             another == [Top EXCEPT !.next = @ + 1]
             proof == [Top EXCEPT !.pc = "irrelevance"]
  <2>1. \/ Top.pc = "compare" /\ Verdict[pair] \in {"binder", "spine"} /\ Suspend(first)
        \/ Top.pc = "goal" /\ Top.next < Len(list) /\ Suspend(another)
        \/ Top.pc \in {"compare", "goal"} /\ Continue(proof)
        \/ \E answer : ReturnEq(answer)
    BY <1>4 DEF EqCompare, EqGoalCompared, Answered, Running
  <2>2. /\ first.pc = "goal" /\ first.fuel = Top.fuel /\ first.next = 1
        /\ first.subject = Top.subject /\ first.other = Top.other
        /\ another.pc = Top.pc /\ another.fuel = Top.fuel /\ another.next = Top.next + 1
        /\ another.subject = Top.subject /\ another.other = Top.other
        /\ proof.pc = "irrelevance" /\ proof.fuel = Top.fuel
    BY <1>0 DEF Frames
  <2>3. /\ list \in Seq(Pairs) /\ Len(list) \in Nat
        /\ Verdict[pair] \in {"binder", "spine"} => list # <<>>
    BY <1>0, SyntaxAssumption DEF Frames, Pairs
  <2> HIDE DEF first, another, proof, list
  <2>4. Verdict[pair] \in {"binder", "spine"} => Remaining(first) \in Nat
    <3>1. Remaining(first) = Len(list) - 1
      BY <2>2 DEF Remaining, list
    <3> QED BY <2>3, <3>1
  <2>5. Top.pc = "goal" => /\ Remaining(Top) = Len(list) - Top.next
                           /\ Remaining(another) = Len(list) - (Top.next + 1)
    BY <2>2 DEF Remaining, list
  <2>6. /\ Top.pc = "compare" => Stage(first.pc) < Stage(Top.pc)
        /\ Top.pc \in {"compare", "goal"} => Stage(proof.pc) < Stage(Top.pc)
        /\ Remaining(proof) \in Nat
    BY <2>2, NothingRemains DEF Stage
  <2>7. /\ Top.pc = "compare" /\ Verdict[pair] \in {"binder", "spine"} => Advances(first)
        /\ Top.pc \in {"compare", "goal"} => Advances(proof)
    BY <1>0, <2>2, <2>4, <2>6, StageAdvances
  <2>8. Top.pc = "goal" /\ Top.next < Len(list) => Advances(another)
    BY <1>0, <2>2, <2>3, <2>5, ListAdvances
  <2> QED BY <1>0, <2>1, <2>7, <2>8 DEF BodyAdvances, ReturnEq, LeaveEq
<1> QED BY <1>1, <1>2, <1>3, <1>4 DEF EqBody

LEMMA BodyFalls ==
  ASSUME IInv, Work \in Works, Work' \in Works, BodyAdvances
  PROVE  <<Work', Work>> \in LessWork
  BY FrameGoesOn, FrameLeaves DEF BodyAdvances, Advances

-----------------------------------------------------------------------------
(* Fuel only flows down. *)

LEMMA BodyKeepsFuel ==
  ASSUME IInv, FuelInv, BodyAdvances
  PROVE  FuelInv'
<1>1. depth \in 1..MaxDepth /\ stack \in [1..MaxDepth -> Frames] /\ Top = stack[depth]
  BY TopTyped DEF IInv, TypeOK, BodyAdvances, Top
<1>2. CASE \E f : Advances(f) /\ (Continue(f) \/ Suspend(f))
  <2>1. PICK f : Advances(f) /\ (Continue(f) \/ Suspend(f))
    BY <1>2
  <2>2. depth' = depth /\ stack' = [stack EXCEPT ![depth] = f]
    BY <2>1 DEF Continue, Suspend
  <2>3. f.fuel <= MaxFuel
    <3>1. depth \in 1..depth /\ Top.fuel <= MaxFuel
      BY <1>1, BoundsAssumption DEF FuelInv
    <3> QED BY <2>1, <3>1, TopRanked, BoundsAssumption DEF Advances, BodyAdvances
  <2> QED BY <1>1, <2>2, <2>3 DEF FuelInv
<1>3. CASE \E r : Leave(r)
  <2>1. depth' = depth - 1 /\ stack' = [stack EXCEPT ![depth] = IdleFrame]
    BY <1>3 DEF Leave
  <2> QED BY <1>1, <2>1, BoundsAssumption DEF FuelInv
<1> QED BY <1>2, <1>3 DEF BodyAdvances

LEMMA FuelInvariance == Spec => []FuelInv
<1>1. Init => FuelInv
  BY DEF Init, FuelInv
<1>2. IInv /\ FuelInv /\ [Next]_vars => FuelInv'
  <2> SUFFICES ASSUME IInv, FuelInv, [Next]_vars PROVE FuelInv'
    OBVIOUS
  <2>1. CASE UNCHANGED <<stack, depth>>
    BY <2>1 DEF FuelInv
  <2>2. CASE EnterWhnf \/ EnterEq
    <3>1. /\ depth' = depth + 1 /\ depth < MaxDepth
          /\ stack' = [stack EXCEPT ![depth + 1] = NewFrame(TheCall, FuelAt(depth), epoch)]
      BY <2>2 DEF EnterWhnf, EnterEq, Entering, Push
    <3>2. depth \in 0..MaxDepth /\ stack \in [1..MaxDepth -> Frames]
      BY DEF IInv, TypeOK
    <3>3. FuelAt(depth) <= MaxFuel
      BY <3>2, BoundsAssumption DEF FuelAt, FuelInv
    <3>4. NewFrame(TheCall, FuelAt(depth), epoch).fuel = FuelAt(depth)
      BY DEF NewFrame
    <3>5. \A i \in 1..depth' : stack'[i].fuel <= MaxFuel
      BY <3>1, <3>2, <3>3, <3>4, BoundsAssumption DEF FuelInv
    <3> QED BY <3>5 DEF FuelInv
  <2>3. CASE WhnfBody \/ EqBody
    BY <2>3, WhnfAdvances, EqAdvances, BodyKeepsFuel
  <2>4. CASE Elaborator
    BY <2>1, <2>4
       DEF Elaborator, BeginDeclaration, CommitDeclaration, FailDeclaration, Unfold,
           UnfoldThrows, Flip, RestoreOpacity, Call, control
  <2>5. CASE Wrapper
    BY <2>1, <2>2, <2>5
       DEF Wrapper, EnterTooDeep, ClaimCaches, EnterWhnfHit, EnterWhnfLoop, EnterEqHit,
           EnterEqLoop, Deliver, Answer, control
  <2> QED BY <2>1, <2>3, <2>4, <2>5 DEF Next, Kernel, vars, control
<1> QED BY <1>1, <1>2, Invariance, PTL DEF Spec

\* Every step of the kernel spends some of its work: whatever is asked, of
\* whatever library, however the answers in the tables, the cut cycles and the
\* exceptions fall.
THEOREM KernelSpendsWork == Spec => [][Kernel => <<Work', Work>> \in LessWork]_vars
<1>1. /\ IInv /\ FuelInv /\ Work \in Works /\ (Work \in Works)' /\ [Next]_vars
      => [Kernel => <<Work', Work>> \in LessWork]_vars
  <2> SUFFICES ASSUME IInv, FuelInv, Work \in Works, Work' \in Works, Kernel
               PROVE  <<Work', Work>> \in LessWork
    OBVIOUS
  <2> QED BY WrapperFalls, WhnfAdvances, EqAdvances, BodyFalls DEF Kernel
<1>2. Spec => []IInv /\ []FuelInv
  BY Invariance, FuelInvariance, PTL
<1>3. IInv => Work \in Works
  BY WorkTyped
<1> QED BY <1>1, <1>2, <1>3, PTL DEF Spec

-----------------------------------------------------------------------------
(* While a call is in progress the kernel can take a step: what comes back to *)
(* a frame is what the frame waits for, and its loops stay in their lists.    *)

\* weakHeadNormalForm returns an expression, isDefinitionallyEqual a truth
\* value, and both may throw.
AnswerKinds(op) == {IF op = "whnf" THEN "value" ELSE "truth", "exhausted", "typeError"}
ReplyFits       == mode = "reply" => reply.kind \in AnswerKinds(TheCall.op)

\* The guards of the kernel's actions, the alternatives that exclude one
\* another and leave nothing out taken together.
EntryMoves ==
  \/ mode = "enter" /\ depth = MaxDepth
  \/ mode = "enter" /\ depth < MaxDepth /\ ~Owned
  \/ Entering("whnf") /\ \E pair \in whnfCache : pair[1] = TheCall.left
  \/ Entering("whnf") /\ WhnfMissed
  \/ Entering("isDefEq")

WhnfBodyMoves ==
  \/ Running("whnf", "start") /\ Top.fuel <= 1
  \/ WhnfTurn /\ HasBody(Top.subject)
  \/ WhnfTurn /\ Kind[Top.subject] \in {"let", "application", "value"}
  \/ WhnfTurn /\ Kind[Top.subject] = "constant" /\ ~HasBody(Top.subject)
  \/ Answered("head", {"value"}) \/ Answered("target", {"value"})
  \/ /\ Answered("parameter", {"truth"})
     /\ reply.truth => Top.next <= Len(Parameters[<<Top.subject, Top.other>>])
  \/ Top.call.op = "whnf" /\ Answered(Top.pc, {"exhausted", "typeError"})

EqBodyMoves ==
  \/ Running("isDefEq", "start")
  \/ Answered("left", {"value"}) \/ Answered("right", {"value"})
  \/ /\ Running("isDefEq", "compare")
     /\ \/ Top.subject = Top.other
        \/ Verdict[<<Top.subject, Top.other>>] \in
             {"equal", "differ", "binder", "spine", "none"}
  \/ /\ Answered("goal", {"truth"})
     /\ reply.truth => Top.next <= Len(Goals[<<Top.subject, Top.other>>])
  \/ Running("isDefEq", "irrelevance")
  \/ Answered("kind", {"value"}) \/ Answered("types", {"truth"})
  \/ Top.call.op = "isDefEq" /\ Answered(Top.pc, {"exhausted", "typeError"})

KernelMoves ==
  \/ mode = "reply" /\ depth = 0
  \/ EntryMoves
  \/ depth > 0 /\ (WhnfBodyMoves \/ EqBodyMoves)

\* The frame that returns was entered for the call its caller waits for.
LEMMA LeavingFits ==
  ASSUME IInv, depth > 0, Untouched, NEW r, Leave(r), r.kind \in AnswerKinds(Top.call.op)
  PROVE  ReplyFits'
<1>1. /\ stack' = [stack EXCEPT ![depth] = IdleFrame]
      /\ depth' = depth - 1 /\ mode' = "reply" /\ reply' = r /\ query' = query
  BY DEF Leave, Untouched, callVars
<1>2. depth \in 1..MaxDepth /\ depth \in 1..depth /\ stack \in [1..MaxDepth -> Frames]
  BY TopTyped DEF IInv, TypeOK
<1>3. TheCall' = CallAt(depth - 1)
  BY <1>1, <1>2, BoundsAssumption DEF TheCall, CallAt
<1>4. Top.call = CallAt(depth - 1)
  BY <1>2 DEF IInv, Linked, Top
<1> QED BY <1>1, <1>3, <1>4 DEF ReplyFits, AnswerKinds

LEMMA WhnfReplies ==
  ASSUME IInv, WhnfBody
  PROVE  ReplyFits'
<1>0. depth > 0 /\ Untouched
  BY WhnfMoves DEF BodyMoves
<1>1. Top.call.op = "whnf"
  <2>1. CASE WhnfOutOfFuel \/ WhnfIllFormed \/ WhnfDelta \/ WhnfZeta
               \/ WhnfReduceHead \/ WhnfStuck \/ WhnfUnwinds
    BY <2>1 DEF WhnfOutOfFuel, WhnfIllFormed, WhnfDelta, WhnfZeta, WhnfReduceHead, WhnfStuck,
                WhnfTurn, WhnfUnwinds, Running
  <2>2. CASE WhnfHeadReduced \/ WhnfTargetReduced \/ WhnfParameterCompared
    <3>1. Top.pc \in {"head", "target", "parameter"}
      BY <2>2 DEF WhnfHeadReduced, WhnfTargetReduced, WhnfParameterCompared, Answered
    <3> QED BY <1>0, <3>1, PlaceTellsBody
  <2> QED BY <2>1, <2>2 DEF WhnfBody
<1>2. \/ mode' \in {"run", "enter"}
      \/ \E e : Leave(ValueReply(e))
      \/ \E kind \in {"exhausted", "typeError"} : Leave(ThrowReply(kind))
  <2>1. CASE WhnfOutOfFuel \/ WhnfIllFormed \/ WhnfStuck
    BY <2>1 DEF WhnfOutOfFuel, WhnfIllFormed, WhnfStuck, ThrowWhnf, ReturnWhnf, LeaveWhnf
  <2>2. CASE WhnfDelta \/ WhnfZeta \/ WhnfReduceHead
    BY <2>2 DEF WhnfDelta, WhnfZeta, WhnfReduceHead, Continue, Suspend
  <2>3. CASE WhnfHeadReduced
    BY <2>3 DEF WhnfHeadReduced, Continue, Suspend, ReturnWhnf, LeaveWhnf
  <2>4. CASE WhnfTargetReduced
    BY <2>4 DEF WhnfTargetReduced, Contract, Continue, Suspend, ReturnWhnf, LeaveWhnf
  <2>5. CASE WhnfParameterCompared
    BY <2>5 DEF WhnfParameterCompared, Contract, Continue, Suspend, ReturnWhnf, LeaveWhnf
  <2>6. CASE WhnfUnwinds
    BY <2>6 DEF WhnfUnwinds, Answered, ThrowWhnf, LeaveWhnf
  <2> QED BY <2>1, <2>2, <2>3, <2>4, <2>5, <2>6 DEF WhnfBody
<1>3. CASE mode' \in {"run", "enter"}
  BY <1>3 DEF ReplyFits
<1>4. ASSUME NEW e, Leave(ValueReply(e)) PROVE ReplyFits'
  <2>1. ValueReply(e).kind \in AnswerKinds(Top.call.op)
    BY <1>1 DEF ValueReply, AnswerKinds
  <2> QED BY <1>0, <1>4, <2>1, LeavingFits
<1>5. ASSUME NEW kind \in {"exhausted", "typeError"}, Leave(ThrowReply(kind)) PROVE ReplyFits'
  <2>1. ThrowReply(kind).kind \in AnswerKinds(Top.call.op)
    BY DEF ThrowReply, AnswerKinds
  <2> QED BY <1>0, <1>5, <2>1, LeavingFits
<1> QED BY <1>2, <1>3, <1>4, <1>5

LEMMA EqReplies ==
  ASSUME IInv, EqBody
  PROVE  ReplyFits'
<1>0. depth > 0 /\ Untouched
  BY EqMoves DEF BodyMoves
<1>1. Top.call.op = "isDefEq"
  <2>1. CASE EqStart \/ EqCompare \/ EqIrrelevance \/ EqGivesUp \/ EqTypeError
    BY <2>1 DEF EqStart, EqCompare, EqIrrelevance, EqGivesUp, EqTypeError, Running
  <2>2. CASE EqLeftReduced \/ EqRightReduced \/ EqGoalCompared \/ EqKindReduced
               \/ EqTypesCompared
    <3>1. Top.pc \in {"left", "right", "goal", "kind", "types"}
      BY <2>2 DEF EqLeftReduced, EqRightReduced, EqGoalCompared, EqKindReduced,
                  EqTypesCompared, Answered
    <3> QED BY <1>0, <3>1, PlaceTellsBody
  <2> QED BY <2>1, <2>2 DEF EqBody
<1>2. \/ mode' \in {"run", "enter"}
      \/ \E answer : Leave(TruthReply(answer))
      \/ Leave(ThrowReply("typeError"))
  <2>1. CASE EqStart
    BY <2>1 DEF EqStart, Suspend, ReturnEq, LeaveEq
  <2>2. CASE EqLeftReduced \/ EqRightReduced
    BY <2>2 DEF EqLeftReduced, EqRightReduced, Continue, Suspend
  <2>3. CASE EqCompare
    BY <2>3 DEF EqCompare, Continue, Suspend, ReturnEq, LeaveEq
  <2>4. CASE EqGoalCompared
    BY <2>4 DEF EqGoalCompared, Continue, Suspend, ReturnEq, LeaveEq
  <2>5. CASE EqIrrelevance \/ EqKindReduced \/ EqTypesCompared
    BY <2>5 DEF EqIrrelevance, EqKindReduced, EqTypesCompared, Suspend, ReturnEq, LeaveEq
  <2>6. CASE EqGivesUp \/ EqTypeError
    BY <2>6 DEF EqGivesUp, EqTypeError, ReturnEq, ThrowEq, LeaveEq
  <2> QED BY <2>1, <2>2, <2>3, <2>4, <2>5, <2>6 DEF EqBody
<1>3. CASE mode' \in {"run", "enter"}
  BY <1>3 DEF ReplyFits
<1>4. ASSUME NEW answer, Leave(TruthReply(answer)) PROVE ReplyFits'
  <2>1. TruthReply(answer).kind \in AnswerKinds(Top.call.op)
    BY <1>1 DEF TruthReply, AnswerKinds
  <2> QED BY <1>0, <1>4, <2>1, LeavingFits
<1>5. CASE Leave(ThrowReply("typeError"))
  <2>1. ThrowReply("typeError").kind \in AnswerKinds(Top.call.op)
    BY DEF ThrowReply, AnswerKinds
  <2> QED BY <1>0, <1>5, <2>1, LeavingFits
<1> QED BY <1>2, <1>3, <1>4, <1>5

LEMMA WrapperReplies ==
  ASSUME Wrapper
  PROVE  ReplyFits'
<1>1. ASSUME NEW r, Answer(r), r.kind \in AnswerKinds(TheCall.op), UNCHANGED callVars
      PROVE  ReplyFits'
  <2>1. TheCall' = TheCall /\ reply' = r
    BY <1>1 DEF Answer, callVars, TheCall, CallAt
  <2> QED BY <1>1, <2>1 DEF ReplyFits, AnswerKinds
<1>2. CASE EnterTooDeep
  <2>1. Answer(ThrowReply("exhausted")) /\ UNCHANGED callVars
    BY <1>2 DEF EnterTooDeep, Answer
  <2> QED BY <1>1, <2>1 DEF ThrowReply, AnswerKinds
<1>3. CASE EnterWhnfHit \/ EnterWhnfLoop
  <2>1. TheCall.op = "whnf" /\ UNCHANGED callVars
    BY <1>3 DEF EnterWhnfHit, EnterWhnfLoop, Entering
  <2>2. PICK e : Answer(ValueReply(e))
    BY <1>3 DEF EnterWhnfHit, EnterWhnfLoop
  <2> QED BY <1>1, <2>1, <2>2 DEF ValueReply, AnswerKinds
<1>4. CASE EnterEqHit \/ EnterEqLoop
  <2>1. TheCall.op = "isDefEq" /\ UNCHANGED callVars
    BY <1>4 DEF EnterEqHit, EnterEqLoop, Entering
  <2>2. PICK b : Answer(TruthReply(b))
    BY <1>4 DEF EnterEqHit, EnterEqLoop
  <2> QED BY <1>1, <2>1, <2>2 DEF TruthReply, AnswerKinds
<1>5. CASE EnterWhnf \/ EnterEq \/ ClaimCaches \/ Deliver
  <2>1. mode' # "reply"
    BY <1>5 DEF EnterWhnf, EnterEq, Push, ClaimCaches, control, Deliver
  <2> QED BY <2>1 DEF ReplyFits
<1> QED BY <1>2, <1>3, <1>4, <1>5 DEF Wrapper

LEMMA RepliesFit == Spec => []ReplyFits
<1>1. Init => ReplyFits
  BY DEF Init, ReplyFits
<1>2. IInv /\ ReplyFits /\ [Next]_vars => ReplyFits'
  <2> SUFFICES ASSUME IInv, ReplyFits, [Next]_vars PROVE ReplyFits'
    OBVIOUS
  <2>1. CASE Elaborator
    <3>1. mode' # "reply"
      BY <2>1 DEF Elaborator, BeginDeclaration, CommitDeclaration, FailDeclaration, Unfold,
                  UnfoldThrows, Flip, RestoreOpacity, Call, control
    <3> QED BY <3>1 DEF ReplyFits
  <2>2. CASE Kernel
    BY <2>2, WrapperReplies, WhnfReplies, EqReplies DEF Kernel
  <2>3. CASE UNCHANGED vars
    BY <2>3 DEF vars, control, callVars, ReplyFits, TheCall, CallAt
  <2> QED BY <2>1, <2>2, <2>3 DEF Next
<1> QED BY <1>1, <1>2, Invariance, PTL DEF Spec

\* Every frame but the one that runs waits for a call of its own.
Waiting     == {"head", "target", "parameter", "left", "right", "goal", "kind", "types"}
CallersWait == \A i \in 1..depth : i < depth \/ mode # "run" => stack[i].pc \in Waiting

\* A body that suspends says what for.
BodyWaits ==
  \/ \E f : Continue(f)
  \/ \E f : Suspend(f) /\ f.pc \in Waiting
  \/ \E r : Leave(r)

LEMMA WhnfWaits ==
  ASSUME IInv, WhnfBody
  PROVE  BodyWaits
<1>0. depth > 0 /\ Top \in Frames
  BY WhnfMoves, TopTyped DEF BodyMoves
<1>1. CASE WhnfOutOfFuel \/ WhnfIllFormed \/ WhnfStuck \/ WhnfUnwinds \/ WhnfDelta \/ WhnfZeta
  BY <1>1 DEF BodyWaits, WhnfOutOfFuel, WhnfIllFormed, WhnfStuck, WhnfUnwinds, WhnfDelta,
              WhnfZeta, ThrowWhnf, ReturnWhnf, LeaveWhnf
<1>2. CASE WhnfReduceHead
  <2> DEFINE f == [Spent(Top) EXCEPT !.pc = "head"]
  <2>1. f.pc = "head"
    BY <1>0 DEF Spent, Frames
  <2>2. Suspend(f)
    BY <1>2 DEF WhnfReduceHead
  <2> HIDE DEF f
  <2> QED BY <2>1, <2>2 DEF BodyWaits, Waiting
<1>3. CASE WhnfHeadReduced
  <2> DEFINE iota == [Top EXCEPT !.pc = "target",
                                 !.subject = WithHead[<<Top.subject, reply.value>>]]
  <2>1. iota.pc = "target"
    BY <1>0 DEF Frames
  <2>2. (\E f : Continue(f)) \/ Suspend(iota) \/ \E e : ReturnWhnf(e)
    BY <1>3 DEF WhnfHeadReduced
  <2> HIDE DEF iota
  <2> QED BY <2>1, <2>2 DEF BodyWaits, Waiting, ReturnWhnf, LeaveWhnf
<1>4. CASE WhnfTargetReduced
  <2> DEFINE f == [Top EXCEPT !.other = reply.value]
             first == [f EXCEPT !.pc = "parameter", !.next = 1]
  <2>1. first.pc = "parameter"
    BY <1>0 DEF Frames
  <2>2. (\E g : Continue(g)) \/ Suspend(first) \/ \E e : ReturnWhnf(e)
    BY <1>4 DEF WhnfTargetReduced, Contract
  <2> HIDE DEF first
  <2> QED BY <2>1, <2>2 DEF BodyWaits, Waiting, ReturnWhnf, LeaveWhnf
<1>5. CASE WhnfParameterCompared
  <2> DEFINE another == [Top EXCEPT !.next = @ + 1]
  <2>1. another.pc = "parameter"
    BY <1>0, <1>5 DEF Frames, WhnfParameterCompared, Answered
  <2>2. (\E g : Continue(g)) \/ Suspend(another) \/ \E e : ReturnWhnf(e)
    BY <1>5 DEF WhnfParameterCompared, Contract
  <2> HIDE DEF another
  <2> QED BY <2>1, <2>2 DEF BodyWaits, Waiting, ReturnWhnf, LeaveWhnf
<1> QED BY <1>1, <1>2, <1>3, <1>4, <1>5 DEF WhnfBody

LEMMA EqWaits ==
  ASSUME IInv, EqBody
  PROVE  BodyWaits
<1>0. depth > 0 /\ Top \in Frames
  BY EqMoves, TopTyped DEF BodyMoves
<1> DEFINE At(pc) == [Top EXCEPT !.pc = pc]
           another == [Top EXCEPT !.next = @ + 1]
           first == [Top EXCEPT !.pc = "goal", !.next = 1]
           begun == [Spent(Top) EXCEPT !.pc = "left"]
           left == [Top EXCEPT !.pc = "right", !.subject = reply.value]
<1>1. /\ At("kind").pc = "kind" /\ At("types").pc = "types"
      /\ another.pc = Top.pc /\ first.pc = "goal" /\ begun.pc = "left" /\ left.pc = "right"
  BY <1>0 DEF Frames, Spent
<1>2. \/ \E f : Continue(f)
      \/ Suspend(At("kind")) \/ Suspend(At("types"))
      \/ Top.pc = "goal" /\ Suspend(another)
      \/ Suspend(first) \/ Suspend(begun) \/ Suspend(left)
      \/ \E answer : ReturnEq(answer)
      \/ \E kind : ThrowEq(kind)
  <2>1. CASE EqStart \/ EqLeftReduced \/ EqRightReduced
    BY <2>1 DEF EqStart, EqLeftReduced, EqRightReduced
  <2>2. CASE EqCompare
    BY <2>2 DEF EqCompare
  <2>3. CASE EqGoalCompared
    BY <2>3 DEF EqGoalCompared, Answered
  <2>4. CASE EqIrrelevance \/ EqKindReduced \/ EqTypesCompared
    BY <2>4 DEF EqIrrelevance, EqKindReduced, EqTypesCompared
  <2>5. CASE EqGivesUp \/ EqTypeError
    BY <2>5 DEF EqGivesUp, EqTypeError
  <2> QED BY <2>1, <2>2, <2>3, <2>4, <2>5 DEF EqBody
<1> HIDE DEF At, another, first, begun, left
<1> QED BY <1>1, <1>2 DEF BodyWaits, Waiting, ReturnEq, ThrowEq, LeaveEq

LEMMA CallersAlwaysWait == Spec => []CallersWait
<1>1. Init => CallersWait
  BY DEF Init, CallersWait
<1>2. IInv /\ CallersWait /\ [Next]_vars => CallersWait'
  <2> SUFFICES ASSUME IInv, CallersWait, [Next]_vars PROVE CallersWait'
    OBVIOUS
  <2>0. depth \in 0..MaxDepth /\ stack \in [1..MaxDepth -> Frames] /\ MaxDepth \in Nat
    BY BoundsAssumption DEF IInv, TypeOK
  <2>1. CASE UNCHANGED <<stack, depth>> /\ mode # "run"
    BY <2>1 DEF CallersWait
  <2>2. CASE EnterWhnf \/ EnterEq
    <3>1. /\ depth' = depth + 1 /\ mode = "enter" /\ depth < MaxDepth
          /\ stack' = [stack EXCEPT ![depth + 1] = NewFrame(TheCall, FuelAt(depth), epoch)]
          /\ mode' = "run"
      BY <2>2 DEF EnterWhnf, EnterEq, Entering, Push
    <3>2. ASSUME NEW i \in 1..depth', i < depth' PROVE stack'[i].pc \in Waiting
      <4>1. i \in 1..depth /\ i # depth + 1 /\ i \in 1..MaxDepth
        BY <2>0, <3>1, <3>2
      <4>2. stack'[i] = stack[i]
        BY <2>0, <3>1, <4>1
      <4> QED BY <3>1, <4>1, <4>2 DEF CallersWait
    <3> QED BY <3>1, <3>2 DEF CallersWait
  <2>3. CASE WhnfBody \/ EqBody
    <3>1. depth > 0 /\ depth \in 1..MaxDepth
      BY <2>0, <2>3, WhnfMoves, EqMoves DEF BodyMoves
    <3>2. \A i \in 1..depth : i < depth => i \in 1..MaxDepth /\ stack[i].pc \in Waiting
      BY <2>0 DEF CallersWait
    <3>3. BodyWaits
      BY <2>3, WhnfWaits, EqWaits
    <3>4. ASSUME NEW f, Continue(f) \/ (Suspend(f) /\ f.pc \in Waiting) PROVE CallersWait'
      <4>1. depth' = depth /\ stack' = [stack EXCEPT ![depth] = f]
            /\ (mode' = "run" \/ f.pc \in Waiting)
        BY <3>4 DEF Continue, Suspend
      <4> QED BY <2>0, <3>1, <3>2, <4>1 DEF CallersWait
    <3>5. ASSUME NEW r, Leave(r) PROVE CallersWait'
      <4>1. depth' = depth - 1 /\ stack' = [stack EXCEPT ![depth] = IdleFrame]
        BY <3>5 DEF Leave
      <4> QED BY <2>0, <3>1, <3>2, <4>1 DEF CallersWait
    <3> QED BY <3>3, <3>4, <3>5 DEF BodyWaits
  <2>4. CASE Elaborator
    <3>1. UNCHANGED <<stack, depth>> /\ mode = "idle"
      BY <2>4
         DEF Elaborator, BeginDeclaration, CommitDeclaration, FailDeclaration, Unfold,
             UnfoldThrows, Flip, RestoreOpacity, Call, control
    <3> QED BY <2>1, <3>1
  <2>5. CASE Wrapper
    BY <2>1, <2>2, <2>5
       DEF Wrapper, EnterTooDeep, ClaimCaches, EnterWhnfHit, EnterWhnfLoop, EnterEqHit,
           EnterEqLoop, Deliver, Answer, Entering, control
  <2>6. CASE UNCHANGED vars
    BY <2>6 DEF vars, control, CallersWait
  <2> QED BY <2>3, <2>4, <2>5, <2>6 DEF Next, Kernel
<1> QED BY <1>1, <1>2, Invariance, PTL DEF Spec

LEMMA BodyCanGoOn ==
  ASSUME IInv, ReplyFits, CallersWait, mode \in {"run", "reply"}, depth > 0
  PROVE  WhnfBodyMoves \/ EqBodyMoves
<1>0. /\ Top \in Frames /\ FrameSound(Now, Top) /\ Top.fuel \in Nat /\ Top.next \in Nat
      /\ Top.subject \in Expressions /\ <<Top.subject, Top.other>> \in Pairs
      /\ Top.call.op \in {"whnf", "isDefEq"} /\ Top.pc \in PCs
  BY TopParts DEF Calls
<1>1. CASE mode = "run" /\ Top.call.op = "whnf"
  <2>1. Top.pc = "start"
    BY <1>0, <1>1 DEF IInv, ModeOK, FrameSound
  <2>2. Kind[Top.subject] \in {"constant", "let", "application", "value"}
    BY <1>0, SyntaxAssumption
  <2> QED BY <1>0, <1>1, <2>1, <2>2 DEF WhnfBodyMoves, WhnfTurn, Running
<1>2. CASE mode = "run" /\ Top.call.op = "isDefEq"
  <2>1. Verdict[<<Top.subject, Top.other>>] \in {"equal", "differ", "binder", "spine", "none"}
    BY <1>0, SyntaxAssumption
  <2> QED BY <1>0, <1>2, <2>1 DEF IInv, ModeOK, EqBodyMoves, Running
<1>3. CASE mode = "reply"
  <2>1. reply.kind \in AnswerKinds(Asked(Top).op)
    <3>1. TheCall = Asked(Top)
      BY <1>3, BoundsAssumption DEF TheCall, CallAt, Top, IInv, TypeOK
    <3> QED BY <1>3, <3>1 DEF ReplyFits
  <2>2. CASE reply.kind \in {"exhausted", "typeError"}
    BY <1>0, <1>3, <2>2 DEF WhnfBodyMoves, EqBodyMoves, Answered
  <2>3. CASE reply.kind \notin {"exhausted", "typeError"}
    <3>1. reply.kind = (IF Asked(Top).op = "whnf" THEN "value" ELSE "truth")
      BY <2>1, <2>3 DEF AnswerKinds
    <3>2. CASE Top.pc \in {"head", "target", "left", "right", "kind"}
      <4>1. reply.kind = "value"
        BY <3>1, <3>2 DEF Asked, Whnf
      <4> QED BY <1>3, <3>2, <4>1 DEF WhnfBodyMoves, EqBodyMoves, Answered
    <3>3. CASE Top.pc \in {"parameter", "goal", "types"}
      <4>1. reply.kind = "truth"
        BY <3>1, <3>3 DEF Asked, IsDefEq
      <4>2. /\ Top.pc = "parameter" => Top.next <= Len(Parameters[<<Top.subject, Top.other>>])
            /\ Top.pc = "goal" => Top.next <= Len(Goals[<<Top.subject, Top.other>>])
        BY <1>0 DEF FrameSound
      <4> QED BY <1>3, <3>3, <4>1, <4>2 DEF WhnfBodyMoves, EqBodyMoves, Answered
    <3>4. Top.pc \in Waiting
      BY <1>3, BoundsAssumption DEF CallersWait, Top, IInv, TypeOK
    <3> QED BY <3>2, <3>3, <3>4 DEF Waiting
  <2> QED BY <2>2, <2>3
<1> QED BY <1>0, <1>1, <1>2, <1>3

\* While a call is in progress the kernel can take one of its steps, whatever
\* the tables hold and however deep it is: with KernelSpendsWork, nothing but
\* the end of the call stops it, and the end comes.
THEOREM KernelNeverStalls == Spec => [](mode # "idle" => KernelMoves)
<1>1. IInv /\ ReplyFits /\ CallersWait => (mode # "idle" => KernelMoves)
  <2> SUFFICES ASSUME IInv, ReplyFits, CallersWait, mode # "idle" PROVE KernelMoves
    OBVIOUS
  <2>1. CASE mode = "enter"
    <3>1. depth \in 0..MaxDepth /\ TheCall \in Calls
      BY CallAtTyped DEF IInv, TypeOK, TheCall
    <3>2. TheCall.op \in {"whnf", "isDefEq"}
      BY <3>1 DEF Calls
    <3> QED BY <2>1, <3>1, <3>2, BoundsAssumption
            DEF KernelMoves, EntryMoves, Entering, WhnfMissed
  <2>2. CASE mode \in {"run", "reply"}
    BY <2>2, BodyCanGoOn DEF KernelMoves, IInv, TypeOK, ModeOK
  <2> QED BY <2>1, <2>2 DEF IInv, TypeOK
<1> QED BY <1>1, Invariance, RepliesFit, CallersAlwaysWait, PTL
=============================================================================
