--------------------------- MODULE FreshKernelProofs ---------------------------
(***************************************************************************)
(* Memoisation changes nothing but time: MemoExact and AnswersExact of       *)
(* FreshKernel, for every library, every depth and fuel bound and every      *)
(* history of declarations, opacity changes and queries.                     *)
(*                                                                         *)
(* The invariant looks ahead where that of KernelCachesProofs looks back.     *)
(* While no cycle was cut since a frame was entered, what the frame has left  *)
(* to do would, if a fresh kernel did it, end as a fresh kernel answers the   *)
(* frame's call.                                                            *)
(***************************************************************************)
EXTENDS KernelCachesProofs, FreshKernel

\* What a fresh kernel answers in the environment of the call.
Told == Fresh[Reducible(env)]

\* What is left for a frame to do, done by a fresh kernel, ends as its call does.
FrameExact(A, f) ==
  LET pair == <<f.subject, f.other>>
  IN /\ f.pc = "start" /\ f.call.op = "whnf" => A[f.call] = A[Whnf(f.subject)]
     /\ f.pc = "head"   => A[f.call] = AfterHead(A, f.subject, A[Asked(f)])
     /\ f.pc = "target" => A[f.call] = AfterTarget(A, f.subject, A[Asked(f)])
     /\ f.pc = "parameter" =>
          /\ \A i \in 1..(f.next - 1) : A[IsDefEq(Parameters[pair][i])] = TruthReply(TRUE)
          /\ A[f.call] = AfterParameters(A, f.subject, f.other, InOrder(A, Parameters[pair]))
     /\ f.pc = "left"    => A[f.call] = AfterLeft(A, A[Asked(f)], f.call.right)
     /\ f.pc = "right"   => A[f.call] = AfterRight(A, f.subject, A[Asked(f)])
     /\ f.pc = "compare" => A[f.call] = Compared(A, pair)
     /\ f.pc = "goal" =>
          /\ \A i \in 1..(f.next - 1) : A[IsDefEq(Goals[pair][i])] = TruthReply(TRUE)
          /\ A[f.call] = AfterGoals(A, pair, InOrder(A, Goals[pair]))
     /\ f.pc = "irrelevance" => A[f.call] = Irrelevant(A, pair)
     /\ f.pc = "kind"        => A[f.call] = AfterKind(A, pair, A[Asked(f)])
     /\ f.pc = "types"       => A[f.call] = AfterTypes(A[Asked(f)])

\* The epoch when the frame that waits was entered.
Began == IF depth = 0 THEN 0 ELSE Top.epochBefore

EpochsGrow ==
  \A i \in 1..depth :
    /\ stack[i].epochBefore <= epoch
    /\ \A j \in 1..i : stack[j].epochBefore <= stack[i].epochBefore

FramesExact ==
  excuses = {} =>
    \A i \in 1..depth : stack[i].epochBefore = epoch => FrameExact(Told, stack[i])

ReplyExact ==
  mode = "reply" /\ excuses = {} /\ reply.kind # "exhausted" /\ Began = epoch
    => reply = Told[TheCall]

\* A reply is nothing but its kind and what that kind carries.
Plain(r) == r = ValueReply(r.value) \/ r = TruthReply(r.truth) \/ r = ThrowReply(r.kind)

\* The environment an entry was made in has only grown since.
OwnerOlder == owner # Nobody => ownerSize <= DeclarationCount(owner)

EInv ==
  /\ MemoExact /\ OwnerOlder /\ EpochsGrow /\ FramesExact /\ ReplyExact
  /\ mode = "reply" => Plain(reply)

-----------------------------------------------------------------------------
(* The fresh kernel. *)

LEMMA CountType ==
  ASSUME NEW e
  PROVE  DeclarationCount(e) \in Nat
  BY EnvironmentAssumption, FS_Subset, FS_CardinalityType DEF DeclarationCount

LEMMA ToldIs ==
  ASSUME TypeOK, NEW call \in Calls
  PROVE  /\ Told[call] = Evaluated(Reducible(env), Told, call)
         /\ call.op = "whnf" =>
              /\ Told[call] = Reduced(Reducible(env), Told, call.left)
              /\ Told[call] = Told[Whnf(call.left)]
         /\ call.op = "isDefEq" =>
              /\ Told[call] = Equal(Told, PairOf(call))
              /\ call = IsDefEq(PairOf(call))
<1>1. Reducible(env) \in SUBSET Names
  BY NowIsConvertibility DEF TypeOK
<1>2. \A c \in Calls : Told[c] = Evaluated(Reducible(env), Told, c)
  BY <1>1, FreshAssumption DEF Told
<1>3. ASSUME call.op = "whnf"
      PROVE  /\ Told[call] = Reduced(Reducible(env), Told, call.left)
             /\ Told[call] = Told[Whnf(call.left)]
  <2>1. Whnf(call.left) \in Calls /\ Whnf(call.left).op = "whnf"
          /\ Whnf(call.left).left = call.left
    BY CallsTyped DEF Whnf
  <2> QED BY <1>2, <1>3, <2>1 DEF Evaluated
<1>4. ASSUME call.op = "isDefEq"
      PROVE  /\ Told[call] = Equal(Told, PairOf(call))
             /\ call = IsDefEq(PairOf(call))
  <2>1. call = IsDefEq(PairOf(call))
    BY <1>4 DEF IsDefEq, PairOf, Calls
  <2> QED BY <1>2, <1>4, <2>1 DEF Evaluated
<1> QED BY <1>2, <1>3, <1>4

\* Goals that are all TRUE, and the first that is not.
LEMMA AllTrue ==
  ASSUME NEW A, NEW goals \in Seq(Pairs),
         \A i \in 1..Len(goals) : A[IsDefEq(goals[i])] = TruthReply(TRUE)
  PROVE  InOrder(A, goals) = TruthReply(TRUE)
<1>1. DOMAIN goals = 1..Len(goals)
  OBVIOUS
<1>2. {i \in DOMAIN goals : A[IsDefEq(goals[i])] # TruthReply(TRUE)} = {}
  BY <1>1
<1> QED BY <1>2 DEF InOrder

LEMMA FirstNotTrue ==
  ASSUME NEW A, NEW goals \in Seq(Pairs), NEW n \in 1..Len(goals),
         \A i \in 1..(n - 1) : A[IsDefEq(goals[i])] = TruthReply(TRUE),
         A[IsDefEq(goals[n])] # TruthReply(TRUE)
  PROVE  InOrder(A, goals) = A[IsDefEq(goals[n])]
<1> DEFINE others == {i \in DOMAIN goals : A[IsDefEq(goals[i])] # TruthReply(TRUE)}
<1>1. DOMAIN goals = 1..Len(goals) /\ Len(goals) \in Nat
  OBVIOUS
<1>2. n \in others /\ others \subseteq Nat
  <2>1. n \in DOMAIN goals
    BY <1>1
  <2>2. others \subseteq 1..Len(goals)
    BY <1>1
  <2>3. n \in others
    BY <2>1
  <2> HIDE DEF others
  <2> QED BY <1>1, <2>2, <2>3
<1>3. ASSUME NEW i \in others PROVE n <= i
  <2>1. A[IsDefEq(goals[i])] # TruthReply(TRUE)
    OBVIOUS
  <2>2. i \notin 1..(n - 1)
    BY <2>1
  <2>3. i \in 1..Len(goals)
    BY <1>1
  <2> HIDE DEF others
  <2> QED BY <2>2, <2>3
<1> HIDE DEF others
<1>4. (CHOOSE i \in others : \A j \in others : i <= j) = n
  <2>1. \A i \in others : (\A j \in others : i <= j) => i = n
    BY <1>2, <1>3
  <2>2. \A j \in others : n <= j
    BY <1>3
  <2> QED BY <1>2, <2>1, <2>2
<1>5. others # {}
  BY <1>2
<1> QED BY <1>4, <1>5 DEF InOrder, others

-----------------------------------------------------------------------------
(* The ways a step moves the stack. *)

\* What stays exact within a call: its environment does not change.
LEMMA WithinCall ==
  ASSUME UNCHANGED <<environmentVars, callVars>>
  PROVE  /\ Told' = Told
         /\ \A e : Reducible(e)' = Reducible(e)
         /\ \A e : DeclarationCount(e)' = DeclarationCount(e)
  BY DEF Told, Reducible, Transparent, DeclarationCount, environmentVars, callVars

LEMMA TablesStay ==
  ASSUME EInv, UNCHANGED <<environmentVars, ownerVars, callVars, tables>>,
         excuses' = {} => excuses = {}
  PROVE  MemoExact' /\ OwnerOlder'
<1>1. MemoExact'
  BY WithinCall DEF EInv, MemoExact, ExactUnless, Current, ownerVars, tables
<1>2. OwnerOlder'
  BY WithinCall DEF EInv, OwnerOlder, ownerVars
<1> QED BY <1>1, <1>2

\* A frame that continues or suspends has something left that is exact.
LEMMA GoesOn ==
  ASSUME IInv, EInv, depth > 0, Untouched,
         NEW f, f.call = Top.call, f.epochBefore = Top.epochBefore,
         Continue(f) \/ Suspend(f),
         excuses = {} /\ Top.epochBefore = epoch => FrameExact(Told, f)
  PROVE  EInv'
<1>0. /\ stack' = [stack EXCEPT ![depth] = f]
      /\ depth' = depth /\ mode' \in {"run", "enter"}
      /\ UNCHANGED <<tables, excuses, environmentVars, ownerVars, epoch, callVars>>
  BY DEF Continue, Suspend, Untouched
<1>1. /\ depth \in 1..MaxDepth /\ depth \in Nat /\ stack[depth] = Top
      /\ stack \in [1..MaxDepth -> Frames]
      /\ \A i \in 1..depth : i \in 1..MaxDepth
  BY TopTyped, BoundsAssumption DEF IInv, TypeOK, Top
<1>2. /\ stack'[depth] = f
      /\ \A i \in 1..depth : stack'[i].epochBefore = stack[i].epochBefore
      /\ \A i \in 1..depth : i # depth => stack'[i] = stack[i]
  BY <1>0, <1>1
<1>3. MemoExact' /\ OwnerOlder'
  BY <1>0, TablesStay
<1>4. EpochsGrow'
  <2>1. \A i \in 1..depth : \A j \in 1..i : j \in 1..depth
    BY <1>1
  <2> QED BY <1>0, <1>2, <2>1 DEF EInv, EpochsGrow
<1>5. FramesExact'
  <2> SUFFICES ASSUME excuses' = {}, NEW i \in 1..depth', stack'[i].epochBefore = epoch'
               PROVE  FrameExact(Told', stack'[i])
    BY DEF FramesExact
  <2>1. Told' = Told /\ excuses = {} /\ i \in 1..depth /\ stack[i].epochBefore = epoch
    BY <1>0, <1>2, WithinCall
  <2>2. CASE i = depth
    BY <1>1, <1>2, <2>1, <2>2
  <2>3. CASE i # depth
    BY <1>2, <2>1, <2>3 DEF EInv, FramesExact
  <2> QED BY <2>2, <2>3
<1> QED BY <1>0, <1>3, <1>4, <1>5 DEF EInv, ReplyExact

\* A frame that leaves: what it replies and what it memoises are exact.
LEMMA GoesOut ==
  ASSUME IInv, StackInv, EInv, depth > 0, Untouched, NEW r, Leave(r), Plain(r),
         excuses' = {} => excuses = {},
         excuses' = {} /\ Top.epochBefore = epoch /\ r.kind # "exhausted"
           => r = Told[Top.call],
         excuses' = {} =>
           /\ \A pair \in whnfCache' \ whnfCache : Told[Whnf(pair[1])] = ValueReply(pair[2])
           /\ \A pair \in trueCache' \ trueCache : Told[IsDefEq(pair)] = TruthReply(TRUE)
  PROVE  EInv'
<1>0. /\ stack' = [stack EXCEPT ![depth] = IdleFrame]
      /\ depth' = depth - 1 /\ mode' = "reply" /\ reply' = r
      /\ UNCHANGED <<environmentVars, ownerVars, epoch, callVars>>
  BY DEF Leave, Untouched
<1>1. /\ depth \in 1..MaxDepth /\ depth \in Nat /\ depth' \in Nat /\ stack[depth] = Top
      /\ stack \in [1..MaxDepth -> Frames] /\ epoch \in Nat
      /\ owner = env /\ env \in Environments
      /\ \A i \in 1..depth' : i \in 1..depth /\ stack'[i] = stack[i]
  BY <1>0, TopTyped, BoundsAssumption DEF IInv, TypeOK, Top
<1>2. MemoExact'
  <2> SUFFICES ASSUME Current', excuses' = {}
               PROVE  /\ \A pair \in whnfCache' : Told[Whnf(pair[1])] = ValueReply(pair[2])
                      /\ \A pair \in trueCache' : Told[IsDefEq(pair)] = TruthReply(TRUE)
    BY <1>0, <1>1, WithinCall DEF MemoExact, ExactUnless, Told, ownerVars
  <2>1. Current
    BY <1>0, WithinCall DEF Current, ownerVars
  <2>2. /\ \A pair \in whnfCache : Told[Whnf(pair[1])] = ValueReply(pair[2])
        /\ \A pair \in trueCache : Told[IsDefEq(pair)] = TruthReply(TRUE)
    BY <1>1, <2>1 DEF EInv, MemoExact, ExactUnless, Told
  <2> QED BY <2>2
<1>3. OwnerOlder'
  BY <1>0, WithinCall DEF EInv, OwnerOlder, ownerVars
<1>4. EpochsGrow'
  <2>1. \A i \in 1..depth' : \A j \in 1..i : j \in 1..depth'
    BY <1>1
  <2> QED BY <1>0, <1>1, <2>1 DEF EInv, EpochsGrow
<1>5. FramesExact'
  BY <1>0, <1>1, WithinCall DEF EInv, FramesExact
<1>6. ReplyExact'
  <2> SUFFICES ASSUME excuses' = {}, r.kind # "exhausted", Began' = epoch
               PROVE  r = Told[TheCall']
    BY <1>0, WithinCall DEF ReplyExact
  <2>1. TheCall' = CallAt(depth - 1)
    BY <1>0, <1>1 DEF TheCall, CallAt, callVars
  <2>2. Top.call = CallAt(depth - 1)
    BY <1>1 DEF IInv, Linked
  <2>3. Top.epochBefore <= epoch /\ Top.epochBefore \in Nat
    BY <1>1 DEF EInv, EpochsGrow, Frames
  <2>4. CASE depth' = 0
    BY <1>1, <2>1, <2>2, <2>3, <2>4 DEF Began
  <2>5. CASE depth' # 0
    <3>1. depth' \in 1..depth' /\ depth' \in 1..depth /\ depth \in 1..depth
      BY <1>0, <1>1, <2>5
    <3>2. stack[depth'].epochBefore = epoch
      BY <1>1, <2>5, <3>1 DEF Began, Top
    <3>3. stack[depth'].epochBefore <= Top.epochBefore
      BY <1>1, <3>1 DEF EInv, EpochsGrow
    <3> QED BY <1>1, <2>1, <2>2, <2>3, <3>2, <3>3
  <2> QED BY <2>4, <2>5
<1> QED BY <1>0, <1>2, <1>3, <1>4, <1>5, <1>6 DEF EInv

\* A wrapper that answers at once, out of a table or not at all.
LEMMA AnswersAtOnce ==
  ASSUME IInv, EInv, NEW r, Answer(r), Plain(r),
         UNCHANGED <<environmentVars, ownerVars, tables, epoch, callVars, excuses>>,
         excuses = {} /\ Began = epoch /\ r.kind # "exhausted" => r = Told[TheCall]
  PROVE  EInv'
<1>0. stack' = stack /\ depth' = depth /\ mode' = "reply" /\ reply' = r
  BY DEF Answer
<1>1. MemoExact' /\ OwnerOlder'
  BY TablesStay
<1>2. EpochsGrow' /\ FramesExact'
  BY <1>0, WithinCall DEF EInv, EpochsGrow, FramesExact
<1>3. TheCall' = TheCall /\ Began' = Began
  BY <1>0 DEF TheCall, CallAt, Began, Top, callVars
<1>4. ReplyExact'
  BY <1>0, <1>3, WithinCall DEF ReplyExact
<1> QED BY <1>0, <1>1, <1>2, <1>4 DEF EInv

\* A cut cycle ends every claim to be exact, of what is on the stack and of the
\* answer given.
LEMMA CutEndsClaims ==
  ASSUME IInv, EInv, NEW r, Answer(r), Plain(r), epoch' = epoch + 1,
         UNCHANGED <<environmentVars, ownerVars, tables, callVars, excuses>>
  PROVE  EInv'
<1>0. stack' = stack /\ depth' = depth /\ mode' = "reply" /\ reply' = r
  BY DEF Answer
<1>1. MemoExact' /\ OwnerOlder'
  BY TablesStay
<1>2. /\ epoch \in Nat /\ depth \in 0..MaxDepth
      /\ \A i \in 1..depth : /\ stack[i].epochBefore \in Nat
                             /\ stack[i].epochBefore <= epoch
  <2>1. \A i \in 1..depth : stack[i].epochBefore \in Nat
    BY BoundsAssumption DEF IInv, TypeOK, Frames
  <2> QED BY <2>1 DEF IInv, TypeOK, EInv, EpochsGrow
<1>3. EpochsGrow'
  <2>1. \A i \in 1..depth : stack[i].epochBefore <= epoch + 1
    BY <1>2
  <2> QED BY <1>0, <2>1 DEF EInv, EpochsGrow
<1>4. FramesExact'
  BY <1>0, <1>2 DEF FramesExact
<1>5. Began' # epoch'
  <2>1. CASE depth = 0
    BY <1>0, <1>2, <2>1 DEF Began
  <2>2. CASE depth # 0
    <3>1. depth \in 1..depth
      BY <1>2, <2>2
    <3> QED BY <1>0, <1>2, <2>2, <3>1 DEF Began, Top
  <2> QED BY <2>1, <2>2
<1> QED BY <1>0, <1>1, <1>3, <1>4, <1>5 DEF EInv, ReplyExact

\* A wrapper that runs the body: all is left to do.
LEMMA GoesIn ==
  ASSUME IInv, EInv, NEW op \in {"whnf", "isDefEq"}, Entering(op), Push,
         UNCHANGED <<environmentVars, ownerVars, tables, epoch, callVars, excuses>>
  PROVE  EInv'
<1> DEFINE f == NewFrame(TheCall, FuelAt(depth), epoch)
<1>0. /\ depth' = depth + 1 /\ mode' = "run" /\ depth < MaxDepth
      /\ stack' = [stack EXCEPT ![depth + 1] = f]
  BY DEF Entering, Push
<1>1. /\ depth \in Nat /\ depth' \in 1..MaxDepth /\ epoch \in Nat
      /\ stack \in [1..MaxDepth -> Frames]
      /\ \A i \in 1..depth : i \in 1..MaxDepth /\ stack'[i] = stack[i]
      /\ stack'[depth'] = f
      /\ 1..depth' = 1..depth \cup {depth'}
  BY <1>0, BoundsAssumption DEF IInv, TypeOK
<1>2. /\ f.call = TheCall /\ f.pc = "start" /\ f.subject = TheCall.left
      /\ f.epochBefore = epoch
  BY DEF NewFrame
<1> HIDE DEF f
<1>3. MemoExact' /\ OwnerOlder'
  BY TablesStay
<1>4. EpochsGrow'
  <2> SUFFICES ASSUME NEW i \in 1..depth'
               PROVE  /\ stack'[i].epochBefore <= epoch
                      /\ \A j \in 1..i : stack'[j].epochBefore <= stack'[i].epochBefore
    BY DEF EpochsGrow
  <2>1. CASE i \in 1..depth
    <3>1. \A j \in 1..i : j \in 1..depth
      BY <1>1, <2>1
    <3> QED BY <1>1, <2>1, <3>1 DEF EInv, EpochsGrow
  <2>2. CASE i = depth'
    <3>1. \A j \in 1..i : j \in 1..depth \/ j = depth'
      BY <1>1, <2>2
    <3>2. \A j \in 1..depth : stack'[j].epochBefore <= epoch
      BY <1>1 DEF EInv, EpochsGrow
    <3> QED BY <1>1, <1>2, <2>2, <3>1, <3>2
  <2> QED BY <1>1, <2>1, <2>2
<1>5. FrameExact(Told, f)
  <2>1. TheCall.op = "whnf" => Told[TheCall] = Told[Whnf(TheCall.left)]
    BY TheCallTyped, ToldIs DEF IInv
  <2> QED BY <1>2, <2>1 DEF FrameExact
<1>6. FramesExact'
  <2> SUFFICES ASSUME excuses' = {}, NEW i \in 1..depth', stack'[i].epochBefore = epoch'
               PROVE  FrameExact(Told', stack'[i])
    BY DEF FramesExact
  <2>1. CASE i \in 1..depth
    BY <1>1, <2>1, WithinCall DEF EInv, FramesExact
  <2>2. CASE i = depth'
    BY <1>1, <1>5, <2>2, WithinCall
  <2> QED BY <1>1, <2>1, <2>2
<1> QED BY <1>0, <1>3, <1>4, <1>6 DEF EInv, ReplyExact

-----------------------------------------------------------------------------
(* Between calls, and the wrappers. *)

LEMMA InitExact == Init => EInv
<1> SUFFICES ASSUME Init PROVE EInv
  OBVIOUS
<1>1. 1..depth = {}
  BY DEF Init
<1> QED BY <1>1 DEF Init, EInv, MemoExact, ExactUnless, Current, OwnerOlder, EpochsGrow,
                    FramesExact, ReplyExact

\* With no frame on the stack and no reply only the tables matter.
LEMMA ExactAtRest ==
  ASSUME MemoExact', OwnerOlder', depth' = 0, mode' \in {"idle", "enter"}
  PROVE  EInv'
<1>1. 1..depth' = {}
  OBVIOUS
<1> QED BY <1>1 DEF EInv, EpochsGrow, FramesExact, ReplyExact

\* Declarations are only added, so an environment that changes gets larger than
\* the tables' owner is on record for.
LEMMA CommitExact ==
  ASSUME IInv, EInv, NEW o \in {"opaque", "transparent"}, CommitDeclaration(o)
  PROVE  EInv'
<1>0. /\ mode = "idle" /\ depth = 0 /\ depth' = 0 /\ mode' = "idle"
      /\ adding \in Names /\ status[Module][adding] = "absent"
      /\ status \in [Environments -> [Names -> Statuses]]
      /\ status' = [status EXCEPT ![Module][adding] = o]
      /\ UNCHANGED <<owner, ownerSize, whnfCache, trueCache, excuses>>
      /\ owner \in Environments \cup {Nobody} /\ ownerSize \in Nat
  BY DEF IInv, TypeOK, ModeOK, CommitDeclaration, ownerVars, tables, control
<1>1. \A e \in Environments : e # Module =>
        Reducible(e)' = Reducible(e) /\ DeclarationCount(e)' = DeclarationCount(e)
  BY <1>0 DEF Reducible, Transparent, DeclarationCount
<1>2. DeclarationCount(Module)' > DeclarationCount(Module)
  <2> DEFINE Declared(s) == {n \in Names : s[n] # "absent"}
  <2>1. Declared(status'[Module]) = Declared(status[Module]) \cup {adding}
    BY <1>0, EnvironmentAssumption
  <2>2. adding \notin Declared(status[Module])
    BY <1>0
  <2>3. IsFiniteSet(Declared(status[Module]))
    BY EnvironmentAssumption, FS_Subset
  <2> HIDE DEF Declared
  <2>4. /\ Cardinality(Declared(status'[Module])) = Cardinality(Declared(status[Module])) + 1
        /\ Cardinality(Declared(status[Module])) \in Nat
    BY <2>1, <2>2, <2>3, FS_AddElement, FS_CardinalityType
  <2> QED BY <2>4 DEF DeclarationCount, Declared
<1>3. OwnerOlder'
  <2>1. DeclarationCount(Module) \in Nat /\ DeclarationCount(Module)' \in Nat
    BY CountType, EnvironmentAssumption, FS_Subset, FS_CardinalityType DEF DeclarationCount
  <2>2. CASE owner = Module
    BY <1>0, <1>2, <2>1, <2>2 DEF EInv, OwnerOlder
  <2>3. CASE owner # Module
    BY <1>0, <1>1, <2>3 DEF EInv, OwnerOlder
  <2> QED BY <2>2, <2>3
<1>4. MemoExact'
  <2>1. CASE owner = Module
    <3>1. DeclarationCount(Module) \in Nat /\ DeclarationCount(Module)' \in Nat
      BY CountType, EnvironmentAssumption, FS_Subset, FS_CardinalityType DEF DeclarationCount
    <3>2. owner # Nobody
      BY <2>1, EnvironmentAssumption
    <3>3. ~Current'
      BY <1>0, <1>2, <2>1, <3>1, <3>2 DEF EInv, OwnerOlder, Current
    <3> QED BY <3>3 DEF MemoExact, ExactUnless
  <2>2. CASE owner # Module
    BY <1>0, <1>1, <2>2 DEF EInv, MemoExact, ExactUnless, Current
  <2> QED BY <2>1, <2>2
<1> QED BY <1>0, <1>3, <1>4, ExactAtRest

LEMMA ElaboratorExact ==
  ASSUME IInv, EInv, Elaborator
  PROVE  EInv'
<1>0. depth = 0 /\ depth' = 0 /\ mode' \in {"idle", "enter"}
  BY DEF IInv, ModeOK, Elaborator, BeginDeclaration, CommitDeclaration, FailDeclaration,
         Unfold, UnfoldThrows, Flip, RestoreOpacity, Call, control
<1>1. CASE \E n \in Names : BeginDeclaration(n)
  <2>1. OwnerOlder' /\ MemoExact'
    BY <1>1 DEF BeginDeclaration, EInv, OwnerOlder, MemoExact, ExactUnless, DeclarationCount,
                ownerVars
  <2> QED BY <1>0, <2>1, ExactAtRest
<1>2. CASE \E o \in {"opaque", "transparent"} : CommitDeclaration(o)
  BY <1>2, CommitExact
<1>3. CASE FailDeclaration \/ \E e \in Environments, q \in Queries : Call(e, q)
  <2>1. UNCHANGED <<status, owner, ownerSize, whnfCache, trueCache, excuses>>
    BY <1>3 DEF FailDeclaration, Call, environmentVars, ownerVars, tables
  <2>2. OwnerOlder' /\ MemoExact'
    BY <2>1 DEF EInv, OwnerOlder, MemoExact, ExactUnless, Current, DeclarationCount,
                Reducible, Transparent
  <2> QED BY <1>0, <2>2, ExactAtRest
<1>4. CASE (\E S \in SUBSET Names : Unfold(S)) \/ RestoreOpacity
  <2>1. owner' = Nobody
    BY <1>4 DEF Unfold, RestoreOpacity, InvalidateKernelCaches
  <2>2. OwnerOlder' /\ MemoExact'
    BY <2>1 DEF OwnerOlder, MemoExact, ExactUnless, Current
  <2> QED BY <1>0, <2>2, ExactAtRest
<1>5. ASSUME NEW S \in SUBSET Names, UnfoldThrows(S) PROVE EInv'
  <2>1. excuses' # {} /\ UNCHANGED <<owner, ownerSize>>
    BY <1>5 DEF UnfoldThrows, ownerVars
  <2>2. MemoExact'
    BY <2>1 DEF MemoExact, ExactUnless
  <2>3. \A e \in Environments : DeclarationCount(e)' = DeclarationCount(e)
    <3>1. /\ status \in [Environments -> [Names -> Statuses]] /\ Module \in Environments
          /\ \A n \in S : status[Module][n] = "opaque"
          /\ status' = [status EXCEPT ![Module] =
                          [n \in Names |-> IF n \in S THEN "transparent" ELSE @[n]]]
      BY <1>5, EnvironmentAssumption DEF IInv, TypeOK, UnfoldThrows, Flip
    <3>2. \A e \in Environments : \A n \in Names :
            status'[e][n] # "absent" <=> status[e][n] # "absent"
      BY <3>1
    <3>3. \A e \in Environments :
            {n \in Names : status'[e][n] # "absent"} = {n \in Names : status[e][n] # "absent"}
      BY <3>2
    <3> QED BY <3>3 DEF DeclarationCount
  <2>4. OwnerOlder'
    BY <2>1, <2>3 DEF EInv, OwnerOlder, IInv, TypeOK
  <2> QED BY <1>0, <2>2, <2>4, ExactAtRest
<1> QED BY <1>1, <1>2, <1>3, <1>4, <1>5 DEF Elaborator

LEMMA WrapperExact ==
  ASSUME IInv, StackInv, EInv, Wrapper
  PROVE  EInv'
<1>1. CASE EnterTooDeep
  <2>1. Plain(ThrowReply("exhausted")) /\ ThrowReply("exhausted").kind = "exhausted"
    BY DEF Plain, ThrowReply
  <2>2. Answer(ThrowReply("exhausted"))
    BY <1>1 DEF EnterTooDeep, Answer
  <2> QED BY <1>1, <2>1, <2>2, AnswersAtOnce DEF EnterTooDeep, tables, ownerVars
<1>2. CASE ClaimCaches
  <2>1. depth = 0 /\ depth' = 0 /\ mode' = "enter"
    <3>1. depth > 0 => Owned
      BY DEF IInv, ModeOK, StackInv, Owned
    <3> QED BY <1>2, <3>1 DEF ClaimCaches, IInv, TypeOK, control
  <2>2. MemoExact'
    BY <1>2 DEF ClaimCaches, MemoExact, ExactUnless
  <2>3. OwnerOlder'
    <3>1. DeclarationCount(env)' = DeclarationCount(env) /\ env' = env
      BY <1>2 DEF ClaimCaches, DeclarationCount, environmentVars, callVars
    <3>2. DeclarationCount(env) \in Nat
      BY CountType
    <3>3. owner' = env /\ ownerSize' = DeclarationCount(env)
      BY <1>2 DEF ClaimCaches
    <3>4. DeclarationCount(owner') \in Nat /\ DeclarationCount(owner)' = DeclarationCount(env)
      BY <1>2, <3>2, <3>3 DEF ClaimCaches, DeclarationCount, environmentVars
    <3> QED BY <3>2, <3>3, <3>4 DEF OwnerOlder
  <2> QED BY <2>1, <2>2, <2>3, ExactAtRest
<1>3. CASE EnterWhnfHit
  <2>1. PICK pair \in whnfCache : pair[1] = TheCall.left /\ Answer(ValueReply(pair[2]))
    BY <1>3 DEF EnterWhnfHit
  <2>2. /\ Owned /\ TheCall.op = "whnf"
        /\ UNCHANGED <<environmentVars, ownerVars, tables, epoch, callVars, excuses>>
    BY <1>3 DEF EnterWhnfHit, Entering
  <2>3. Current
    BY <2>2, EnvironmentAssumption DEF Owned, Current, IInv, TypeOK
  <2>4. excuses = {} => ValueReply(pair[2]) = Told[TheCall]
    <3>1. Told[TheCall] = Told[Whnf(TheCall.left)]
      BY <2>2, TheCallTyped, ToldIs DEF IInv
    <3> QED BY <2>1, <2>2, <2>3, <3>1 DEF EInv, MemoExact, ExactUnless, Told, Owned
  <2>5. Plain(ValueReply(pair[2]))
    BY DEF Plain, ValueReply
  <2> QED BY <2>1, <2>2, <2>4, <2>5, AnswersAtOnce
<1>4. CASE EnterWhnfLoop \/ EnterEqLoop
  <2>1. /\ epoch' = epoch + 1
        /\ UNCHANGED <<environmentVars, ownerVars, tables, callVars, excuses>>
        /\ Answer(ValueReply(TheCall.left)) \/ Answer(TruthReply(FALSE))
    BY <1>4 DEF EnterWhnfLoop, EnterEqLoop
  <2>2. Plain(ValueReply(TheCall.left)) /\ Plain(TruthReply(FALSE))
    BY DEF Plain, ValueReply, TruthReply
  <2> QED BY <2>1, <2>2, CutEndsClaims
<1>5. CASE EnterWhnf \/ EnterEq
  BY <1>5, GoesIn DEF EnterWhnf, EnterEq
<1>6. CASE EnterEqHit
  <2>1. /\ Owned /\ TheCall.op = "isDefEq" /\ PairOf(TheCall) \in trueCache
        /\ Answer(TruthReply(TRUE))
        /\ UNCHANGED <<environmentVars, ownerVars, tables, epoch, callVars, excuses>>
    BY <1>6 DEF EnterEqHit, Entering
  <2>2. Current
    BY <2>1, EnvironmentAssumption DEF Owned, Current, IInv, TypeOK
  <2>3. excuses = {} => TruthReply(TRUE) = Told[TheCall]
    <3>1. TheCall = IsDefEq(PairOf(TheCall))
      BY <2>1, TheCallTyped, ToldIs DEF IInv
    <3> QED BY <2>1, <2>2, <3>1 DEF EInv, MemoExact, ExactUnless, Told, Owned
  <2>4. Plain(TruthReply(TRUE))
    BY DEF Plain, TruthReply
  <2> QED BY <2>1, <2>3, <2>4, AnswersAtOnce
<1>7. CASE Deliver
  <2>1. MemoExact' /\ OwnerOlder'
    BY <1>7, TablesStay DEF Deliver
  <2> QED BY <1>7, <2>1, ExactAtRest DEF Deliver
<1> QED BY <1>1, <1>2, <1>3, <1>4, <1>5, <1>6, <1>7 DEF Wrapper

-----------------------------------------------------------------------------
(* The ways out of a body. *)

\* No cycle was cut, no budget ran out and no `unfold` threw.
Unhindered == excuses = {} /\ Top.epochBefore = epoch

LEMMA TopExact ==
  ASSUME IInv, EInv, depth > 0, Unhindered
  PROVE  FrameExact(Told, Top)
  BY TopTyped DEF EInv, FramesExact, Unhindered, Top

LEMMA AnsweredExact ==
  ASSUME IInv, EInv, NEW pc, NEW kinds, Answered(pc, kinds)
  PROVE  /\ depth > 0 /\ Top.pc = pc /\ Plain(reply) /\ reply \in Replies
         /\ Unhindered => FrameExact(Told, Top)
         /\ Unhindered /\ reply.kind # "exhausted" => reply = Told[Asked(Top)]
<1>1. depth > 0 /\ Top.pc = pc /\ mode = "reply" /\ reply \in Replies
  BY AnsweredSound DEF Answered
<1>2. TheCall = Asked(Top) /\ Began = Top.epochBefore
  BY <1>1 DEF TheCall, CallAt, Began, Top, IInv, TypeOK
<1> QED BY <1>1, <1>2, TopExact DEF EInv, ReplyExact, Unhindered

LEMMA ReturnWhnfExact ==
  ASSUME IInv, StackInv, EInv, depth > 0, Untouched, Top.call.op = "whnf",
         NEW e, ReturnWhnf(e), Unhindered => Told[Top.call] = ValueReply(e)
  PROVE  EInv'
<1>1. /\ Leave(ValueReply(e)) /\ excuses' = excuses /\ trueCache' = trueCache
      /\ whnfCache' = whnfCache \cup
                        (IF NothingCut THEN {<<Top.call.left, e>>} ELSE {})
  BY DEF ReturnWhnf, LeaveWhnf
<1>2. Told[Top.call] = Told[Whnf(Top.call.left)]
  BY TopParts, ToldIs DEF IInv
<1>3. ASSUME excuses' = {}, NEW pair \in whnfCache' \ whnfCache
      PROVE  Told[Whnf(pair[1])] = ValueReply(pair[2])
  <2>1. NothingCut /\ pair = <<Top.call.left, e>>
    BY <1>1, <1>3
  <2> QED BY <1>1, <1>2, <1>3, <2>1 DEF Unhindered, NothingCut
<1>4. Plain(ValueReply(e))
  BY DEF Plain, ValueReply
<1>5. Untouched /\ (excuses = {} /\ Top.epochBefore = epoch => ValueReply(e) = Told[Top.call])
  BY DEF Unhindered
<1> QED BY <1>1, <1>3, <1>4, <1>5, GoesOut

LEMMA ThrowWhnfExact ==
  ASSUME IInv, StackInv, EInv, depth > 0, Untouched, NEW kind, ThrowWhnf(kind),
         Unhindered /\ kind # "exhausted" => Told[Top.call] = ThrowReply(kind)
  PROVE  EInv'
<1>1. /\ Leave(ThrowReply(kind)) /\ excuses' = excuses
      /\ whnfCache' = whnfCache /\ trueCache' = trueCache
  BY DEF ThrowWhnf, LeaveWhnf
<1>2. Plain(ThrowReply(kind)) /\ ThrowReply(kind).kind = kind
  BY DEF Plain, ThrowReply
<1> QED BY <1>1, <1>2, GoesOut DEF Unhindered

LEMMA ReturnEqExact ==
  ASSUME IInv, StackInv, EInv, depth > 0, Untouched, Top.call.op = "isDefEq",
         NEW answer, ReturnEq(answer), excuses' = {} => excuses = {},
         excuses' = {} /\ Unhindered => Told[Top.call] = TruthReply(answer)
  PROVE  EInv'
<1>1. /\ Leave(TruthReply(answer)) /\ whnfCache' = whnfCache
      /\ trueCache' = trueCache \cup
                        (IF answer /\ NothingCut THEN {PairOf(Top.call)} ELSE {})
  BY DEF ReturnEq, LeaveEq
<1>2. Top.call = IsDefEq(PairOf(Top.call))
  BY TopParts, ToldIs DEF IInv
<1>3. ASSUME excuses' = {}, NEW pair \in trueCache' \ trueCache
      PROVE  Told[IsDefEq(pair)] = TruthReply(TRUE)
  <2>1. answer /\ NothingCut /\ pair = PairOf(Top.call)
    BY <1>1, <1>3
  <2>2. Told[Top.call] = TruthReply(answer) /\ TruthReply(answer) = TruthReply(TRUE)
    BY <1>3, <2>1 DEF Unhindered, NothingCut, TruthReply
  <2> QED BY <1>2, <2>1, <2>2
<1>4. Plain(TruthReply(answer))
  BY DEF Plain, TruthReply
<1>5. excuses' = {} /\ Top.epochBefore = epoch => TruthReply(answer) = Told[Top.call]
  BY DEF Unhindered
<1> QED BY <1>1, <1>3, <1>4, <1>5, GoesOut

LEMMA ThrowEqExact ==
  ASSUME IInv, StackInv, EInv, depth > 0, Untouched, NEW kind, ThrowEq(kind),
         Unhindered => Told[Top.call] = ThrowReply(kind)
  PROVE  EInv'
<1>1. /\ Leave(ThrowReply(kind)) /\ excuses' = excuses
      /\ whnfCache' = whnfCache /\ trueCache' = trueCache
  BY DEF ThrowEq, LeaveEq
<1>2. Plain(ThrowReply(kind)) /\ ThrowReply(kind).kind = kind
  BY DEF Plain, ThrowReply
<1> QED BY <1>1, <1>2, GoesOut DEF Unhindered

-----------------------------------------------------------------------------
(* weakHeadNormalForm's body. *)

\* A turn of the loop begins with an expression that ends as the argument does.
LEMMA TurnIs ==
  ASSUME IInv, EInv, depth > 0, Top.call.op = "whnf", Top.pc = "start", Unhindered
  PROVE  Told[Top.call] = Reduced(Reducible(env), Told, Top.subject)
<1>1. Told[Top.call] = Told[Whnf(Top.subject)]
  BY TopExact DEF FrameExact
<1>2. /\ Whnf(Top.subject) \in Calls /\ Whnf(Top.subject).op = "whnf"
      /\ Whnf(Top.subject).left = Top.subject
  BY TopParts, CallsTyped DEF Whnf
<1> QED BY <1>1, <1>2, ToldIs DEF IInv

LEMMA WhnfStartExact ==
  ASSUME IInv, StackInv, EInv,
         WhnfOutOfFuel \/ WhnfIllFormed \/ WhnfDelta \/ WhnfZeta \/ WhnfReduceHead \/ WhnfStuck
  PROVE  EInv'
<1>0. depth > 0 /\ Top.call.op = "whnf" /\ Top.pc = "start" /\ Untouched /\ Top \in Frames
  <2>1. mode = "run" /\ Top.call.op = "whnf" /\ Top.pc = "start" /\ Untouched
    BY DEF WhnfOutOfFuel, WhnfIllFormed, WhnfDelta, WhnfZeta, WhnfReduceHead, WhnfStuck,
           WhnfTurn, Running
  <2>2. depth > 0
    BY <2>1 DEF IInv, ModeOK
  <2> QED BY <2>1, <2>2, TopParts
<1>1. CASE WhnfOutOfFuel
  BY <1>0, <1>1, ThrowWhnfExact DEF WhnfOutOfFuel
<1>2. CASE WhnfIllFormed
  <2>1. Unhindered => Told[Top.call] = ThrowReply("typeError")
    BY <1>0, <1>2, TurnIs DEF WhnfIllFormed, HasBody, Reduced
  <2> QED BY <1>0, <1>2, <2>1, ThrowWhnfExact DEF WhnfIllFormed
<1>3. CASE WhnfDelta
  <2> DEFINE f == [Spent(Top) EXCEPT !.subject = BodyOf[@]]
  <2>1. /\ f.call = Top.call /\ f.pc = "start" /\ f.epochBefore = Top.epochBefore
        /\ f.subject = BodyOf[Top.subject]
    BY <1>0 DEF Frames, Spent
  <2>2. Unhindered => Told[Top.call] = Told[Whnf(BodyOf[Top.subject])]
    BY <1>0, <1>3, TurnIs DEF WhnfDelta, HasBody, Reduced
  <2>3. Continue(f)
    BY <1>3 DEF WhnfDelta
  <2> HIDE DEF f
  <2>4. Unhindered => FrameExact(Told, f)
    BY <2>1, <2>2 DEF FrameExact
  <2> QED BY <1>0, <2>1, <2>3, <2>4, GoesOn DEF Unhindered
<1>4. CASE WhnfZeta
  <2> DEFINE f == [Spent(Top) EXCEPT !.subject = LetBody[@]]
  <2>1. /\ f.call = Top.call /\ f.pc = "start" /\ f.epochBefore = Top.epochBefore
        /\ f.subject = LetBody[Top.subject]
    BY <1>0 DEF Frames, Spent
  <2>2. Unhindered => Told[Top.call] = Told[Whnf(LetBody[Top.subject])]
    BY <1>0, <1>4, TurnIs DEF WhnfZeta, Reduced
  <2>3. Continue(f)
    BY <1>4 DEF WhnfZeta
  <2> HIDE DEF f
  <2>4. Unhindered => FrameExact(Told, f)
    BY <2>1, <2>2 DEF FrameExact
  <2> QED BY <1>0, <2>1, <2>3, <2>4, GoesOn DEF Unhindered
<1>5. CASE WhnfReduceHead
  <2> DEFINE f == [Spent(Top) EXCEPT !.pc = "head"]
  <2>1. /\ f.call = Top.call /\ f.pc = "head" /\ f.epochBefore = Top.epochBefore
        /\ f.subject = Top.subject
    BY <1>0 DEF Frames, Spent
  <2>2. Unhindered =>
          Told[Top.call] = AfterHead(Told, Top.subject, Told[Whnf(HeadOf[Top.subject])])
    BY <1>0, <1>5, TurnIs DEF WhnfReduceHead, Reduced
  <2>3. Suspend(f)
    BY <1>5 DEF WhnfReduceHead
  <2> HIDE DEF f
  <2>4. Unhindered => FrameExact(Told, f)
    BY <2>1, <2>2 DEF FrameExact, Asked
  <2> QED BY <1>0, <2>1, <2>3, <2>4, GoesOn DEF Unhindered
<1>6. CASE WhnfStuck
  <2>1. Unhindered => Told[Top.call] = ValueReply(Top.subject)
    BY <1>0, <1>6, TurnIs DEF WhnfStuck, HasBody, Reduced
  <2> QED BY <1>0, <1>6, <2>1, ReturnWhnfExact DEF WhnfStuck
<1> QED BY <1>1, <1>2, <1>3, <1>4, <1>5, <1>6

LEMMA HeadReducedExact ==
  ASSUME IInv, StackInv, EInv, WhnfHeadReduced
  PROVE  EInv'
<1> DEFINE head == reply.value
           application == WithHead[<<Top.subject, head>>]
<1>0. /\ depth > 0 /\ Top.pc = "head" /\ Top.call.op = "whnf" /\ Top \in Frames /\ Untouched
      /\ reply.kind = "value"
  BY AnsweredExact, PlaceTellsBody, TopParts DEF WhnfHeadReduced, Answered
<1>1. Unhindered => Told[Top.call] = AfterHead(Told, Top.subject, reply)
  BY <1>0, AnsweredExact DEF WhnfHeadReduced, FrameExact
<1>2. CASE head \in Lambdas
  <2> DEFINE f == [Top EXCEPT !.pc = "start", !.subject = Contractum[<<@, head>>]]
  <2>1. /\ f.call = Top.call /\ f.pc = "start" /\ f.epochBefore = Top.epochBefore
        /\ f.subject = Contractum[<<Top.subject, head>>]
    BY <1>0 DEF Frames
  <2>2. Unhindered => Told[Top.call] = Told[Whnf(Contractum[<<Top.subject, head>>])]
    BY <1>0, <1>1, <1>2 DEF AfterHead, Failed
  <2>3. Continue(f)
    BY <1>2 DEF WhnfHeadReduced
  <2> HIDE DEF f
  <2>4. Unhindered => FrameExact(Told, f)
    BY <2>1, <2>2 DEF FrameExact
  <2> QED BY <1>0, <2>1, <2>3, <2>4, GoesOn DEF Unhindered
<1>3. CASE head \notin Lambdas /\ Kind[head] # "application" /\ application \in Saturated
  <2> DEFINE f == [Top EXCEPT !.pc = "target", !.subject = application]
  <2>1. /\ f.call = Top.call /\ f.pc = "target" /\ f.epochBefore = Top.epochBefore
        /\ f.subject = application
    BY <1>0 DEF Frames
  <2>2. Unhindered =>
          Told[Top.call] = AfterTarget(Told, application, Told[Whnf(Target[application])])
    BY <1>0, <1>1, <1>3 DEF AfterHead, Failed
  <2>3. Suspend(f)
    BY <1>3 DEF WhnfHeadReduced
  <2> HIDE DEF f
  <2>4. Unhindered => FrameExact(Told, f)
    BY <2>1, <2>2 DEF FrameExact, Asked
  <2> QED BY <1>0, <2>1, <2>3, <2>4, GoesOn DEF Unhindered
<1>4. CASE head \notin Lambdas /\ (Kind[head] = "application" \/ application \notin Saturated)
  <2>1. Unhindered => Told[Top.call] = ValueReply(application)
    BY <1>0, <1>1, <1>4 DEF AfterHead, Failed
  <2>2. ReturnWhnf(application)
    BY <1>4 DEF WhnfHeadReduced
  <2> QED BY <1>0, <2>1, <2>2, ReturnWhnfExact
<1> QED BY <1>2, <1>3, <1>4

LEMMA PlainIs ==
  ASSUME NEW r, Plain(r)
  PROVE  /\ r.kind = "truth" => r = TruthReply(r.truth)
         /\ r.kind \in {"exhausted", "typeError"} => r = ThrowReply(r.kind)
  BY DEF Plain, ValueReply, TruthReply, ThrowReply

\* The parameters agree: iota.
LEMMA ContractExact ==
  ASSUME IInv, EInv, depth > 0, Untouched, NEW f \in Frames, Contract(f),
         f.call = Top.call, f.call.op = "whnf", f.epochBefore = Top.epochBefore,
         Unhindered => Told[Top.call] = Told[Whnf(Reduct[<<f.subject, f.other>>])]
  PROVE  EInv'
<1> DEFINE g == [f EXCEPT !.pc = "start", !.subject = Reduct[<<@, f.other>>]]
<1>1. /\ g.call = Top.call /\ g.pc = "start" /\ g.epochBefore = Top.epochBefore
      /\ g.subject = Reduct[<<f.subject, f.other>>]
  BY DEF Frames
<1>2. Continue(g)
  BY DEF Contract
<1> HIDE DEF g
<1>3. Unhindered => FrameExact(Told, g)
  BY <1>1 DEF FrameExact
<1> QED BY <1>1, <1>2, <1>3, GoesOn DEF Unhindered

LEMMA TargetReducedExact ==
  ASSUME IInv, StackInv, EInv, WhnfTargetReduced
  PROVE  EInv'
<1> DEFINE pair == <<Top.subject, reply.value>>
           f == [Top EXCEPT !.other = reply.value]
<1>0. /\ depth > 0 /\ Top.pc = "target" /\ Top.call.op = "whnf" /\ Top \in Frames /\ Untouched
      /\ reply.kind = "value" /\ pair \in Pairs /\ reply.value \in Expressions
  BY AnsweredExact, PlaceTellsBody, TopParts DEF WhnfTargetReduced, Answered, Replies, Pairs
<1>1. Unhindered => Told[Top.call] = AfterTarget(Told, Top.subject, reply)
  BY <1>0, AnsweredExact DEF WhnfTargetReduced, FrameExact
<1>2. /\ f \in Frames /\ f.call = Top.call /\ f.epochBefore = Top.epochBefore
      /\ f.subject = Top.subject /\ f.other = reply.value
  BY <1>0 DEF Frames
<1>3. ASSUME pair \in IotaMatches
      PROVE  Unhindered => Told[Top.call] =
               AfterParameters(Told, Top.subject, reply.value, InOrder(Told, Parameters[pair]))
  BY <1>0, <1>1, <1>3 DEF AfterTarget, Failed
<1>4. CASE pair \notin IotaMatches
  <2>1. Unhindered => Told[Top.call] = ValueReply(Top.subject)
    BY <1>0, <1>1, <1>4 DEF AfterTarget, Failed
  <2>2. ReturnWhnf(Top.subject)
    BY <1>4 DEF WhnfTargetReduced
  <2> QED BY <1>0, <2>1, <2>2, ReturnWhnfExact
<1>5. CASE pair \in IotaMatches /\ Parameters[pair] = <<>>
  <2>1. InOrder(Told, Parameters[pair]) = TruthReply(TRUE)
    BY <1>5 DEF InOrder
  <2>2. Unhindered => Told[Top.call] = Told[Whnf(Reduct[pair])]
    BY <1>3, <1>5, <2>1 DEF AfterParameters, Failed, TruthReply
  <2>3. Contract(f)
    BY <1>2, <1>5 DEF WhnfTargetReduced
  <2> HIDE DEF f
  <2> QED BY <1>0, <1>2, <2>2, <2>3, ContractExact
<1>6. CASE pair \in IotaMatches /\ Parameters[pair] # <<>>
  <2> DEFINE g == [f EXCEPT !.pc = "parameter", !.next = 1]
  <2>1. Suspend(g)
    BY <1>2, <1>6 DEF WhnfTargetReduced
  <2> HIDE DEF f
  <2>2. /\ g.call = Top.call /\ g.pc = "parameter" /\ g.epochBefore = Top.epochBefore
        /\ g.subject = Top.subject /\ g.other = reply.value /\ g.next = 1
    BY <1>2 DEF Frames
  <2> HIDE DEF g
  <2>3. Unhindered => FrameExact(Told, g)
    BY <1>3, <1>6, <2>2 DEF FrameExact
  <2> QED BY <1>0, <2>1, <2>2, <2>3, GoesOn DEF Unhindered
<1> QED BY <1>2, <1>4, <1>5, <1>6

LEMMA ParameterComparedExact ==
  ASSUME IInv, StackInv, EInv, WhnfParameterCompared
  PROVE  EInv'
<1> DEFINE pair == <<Top.subject, Top.other>>
           n == Top.next
<1>0. /\ depth > 0 /\ Top.pc = "parameter" /\ Top.call.op = "whnf" /\ Top \in Frames /\ Untouched
      /\ reply.kind = "truth" /\ reply = TruthReply(reply.truth) /\ reply.truth \in BOOLEAN
  BY AnsweredExact, PlainIs, PlaceTellsBody, TopParts
     DEF WhnfParameterCompared, Answered, Replies
<1>1. Parameters[pair] \in Seq(Pairs) /\ n \in 1..Len(Parameters[pair]) /\ n \in Nat
  BY <1>0, TopParts, SyntaxAssumption DEF FrameSound
<1>2. ASSUME Unhindered
      PROVE  /\ reply = Told[IsDefEq(Parameters[pair][n])]
             /\ \A i \in 1..(n - 1) : Told[IsDefEq(Parameters[pair][i])] = TruthReply(TRUE)
             /\ Told[Top.call] = AfterParameters(Told, Top.subject, Top.other,
                                                 InOrder(Told, Parameters[pair]))
  <2>1. FrameExact(Told, Top) /\ reply = Told[Asked(Top)]
    BY <1>0, <1>2, AnsweredExact DEF WhnfParameterCompared
  <2>2. Asked(Top) = IsDefEq(Parameters[pair][n])
    BY <1>0 DEF Asked
  <2> QED BY <1>0, <2>1, <2>2 DEF FrameExact
<1>3. CASE ~reply.truth
  <2>1. ASSUME Unhindered PROVE Told[Top.call] = ValueReply(Top.subject)
    <3>1. reply # TruthReply(TRUE)
      BY <1>3 DEF TruthReply
    <3>2. InOrder(Told, Parameters[pair]) = reply
      BY <1>1, <1>2, <2>1, <3>1, FirstNotTrue
    <3> QED BY <1>0, <1>2, <1>3, <2>1, <3>2 DEF AfterParameters, Failed
  <2>2. ReturnWhnf(Top.subject)
    BY <1>3 DEF WhnfParameterCompared
  <2> QED BY <1>0, <2>1, <2>2, ReturnWhnfExact
<1>4. CASE reply.truth /\ n < Len(Parameters[pair])
  <2> DEFINE f == [Top EXCEPT !.next = @ + 1]
  <2>1. /\ f.call = Top.call /\ f.pc = "parameter" /\ f.epochBefore = Top.epochBefore
        /\ f.subject = Top.subject /\ f.other = Top.other /\ f.next = n + 1
    BY <1>0 DEF Frames
  <2>2. Suspend(f)
    BY <1>1, <1>4 DEF WhnfParameterCompared
  <2> HIDE DEF f
  <2>3. ASSUME Unhindered PROVE FrameExact(Told, f)
    <3>1. reply = TruthReply(TRUE)
      BY <1>0, <1>4 DEF TruthReply
    <3>2. \A i \in 1..n : Told[IsDefEq(Parameters[pair][i])] = TruthReply(TRUE)
      <4>1. \A i \in 1..n : i \in 1..(n - 1) \/ i = n
        BY <1>1
      <4> QED BY <1>2, <2>3, <3>1, <4>1
    <3>3. f.next - 1 = n
      BY <1>1, <2>1
    <3> QED BY <1>2, <2>1, <2>3, <3>2, <3>3 DEF FrameExact
  <2> QED BY <1>0, <2>1, <2>2, <2>3, GoesOn DEF Unhindered
<1>5. CASE reply.truth /\ n = Len(Parameters[pair])
  <2>1. ASSUME Unhindered PROVE Told[Top.call] = Told[Whnf(Reduct[pair])]
    <3>1. reply = TruthReply(TRUE)
      BY <1>0, <1>5 DEF TruthReply
    <3>2. \A i \in 1..n : Told[IsDefEq(Parameters[pair][i])] = TruthReply(TRUE)
      <4>1. \A i \in 1..n : i \in 1..(n - 1) \/ i = n
        BY <1>1
      <4> QED BY <1>2, <2>1, <3>1, <4>1
    <3>3. InOrder(Told, Parameters[pair]) = TruthReply(TRUE)
      BY <1>1, <1>5, <3>2, AllTrue
    <3> QED BY <1>2, <2>1, <3>3 DEF AfterParameters, Failed, TruthReply
  <2>2. Contract(Top)
    BY <1>1, <1>5 DEF WhnfParameterCompared
  <2> QED BY <1>0, <2>1, <2>2, ContractExact
<1> QED BY <1>3, <1>4, <1>5 DEF WhnfParameterCompared

LEMMA WhnfUnwindsExact ==
  ASSUME IInv, StackInv, EInv, WhnfUnwinds
  PROVE  EInv'
<1>0. /\ depth > 0 /\ Top.call.op = "whnf" /\ Top \in Frames /\ Untouched
      /\ reply.kind \in {"exhausted", "typeError"} /\ reply = ThrowReply(reply.kind)
      /\ ThrowWhnf(reply.kind) /\ Answered(Top.pc, {"exhausted", "typeError"})
  <2>1. /\ Answered(Top.pc, {"exhausted", "typeError"}) /\ Untouched
        /\ Top.call.op = "whnf" /\ ThrowWhnf(reply.kind)
    BY DEF WhnfUnwinds
  <2>2. depth > 0 /\ Plain(reply) /\ reply.kind \in {"exhausted", "typeError"}
    BY <2>1, AnsweredExact DEF Answered
  <2> QED BY <2>1, <2>2, PlainIs, TopParts
<1>1. ASSUME Unhindered, reply.kind # "exhausted"
      PROVE  Told[Top.call] = reply
  <2>1. FrameExact(Told, Top) /\ reply = Told[Asked(Top)] /\ Failed(reply)
    BY <1>0, <1>1, AnsweredExact DEF Failed
  <2>2. CASE Top.pc = "start"
    BY <1>0, <2>1, <2>2 DEF Asked
  <2>3. CASE Top.pc = "head"
    BY <2>1, <2>3 DEF FrameExact, AfterHead
  <2>4. CASE Top.pc = "target"
    BY <2>1, <2>4 DEF FrameExact, AfterTarget
  <2>5. CASE Top.pc = "parameter"
    <3> DEFINE pair == <<Top.subject, Top.other>>
    <3>1. Parameters[pair] \in Seq(Pairs) /\ Top.next \in 1..Len(Parameters[pair])
      BY <1>0, <2>5, TopParts, SyntaxAssumption DEF FrameSound
    <3>2. Asked(Top) = IsDefEq(Parameters[pair][Top.next]) /\ reply # TruthReply(TRUE)
      BY <1>0, <2>5 DEF Asked, TruthReply
    <3>3. InOrder(Told, Parameters[pair]) = reply
      BY <2>1, <2>5, <3>1, <3>2, FirstNotTrue DEF FrameExact
    <3> QED BY <2>1, <2>5, <3>3 DEF FrameExact, AfterParameters
  <2> QED BY <1>0, <2>2, <2>3, <2>4, <2>5, TopParts DEF FrameSound
<1> QED BY <1>0, <1>1, ThrowWhnfExact

LEMMA WhnfBodyExact ==
  ASSUME IInv, StackInv, EInv, WhnfBody
  PROVE  EInv'
  BY WhnfStartExact, HeadReducedExact, TargetReducedExact, ParameterComparedExact,
     WhnfUnwindsExact DEF WhnfBody

-----------------------------------------------------------------------------
(* isDefinitionallyEqualImpl. *)

\* Where a running frame of isDefEq stands.
LEMMA EqRuns ==
  ASSUME IInv, NEW pc, Running("isDefEq", pc)
  PROVE  /\ depth > 0 /\ Top.call.op = "isDefEq" /\ Top.pc = pc /\ Top \in Frames
         /\ Told[Top.call] = Equal(Told, PairOf(Top.call))
<1>1. depth > 0 /\ Top.call.op = "isDefEq" /\ Top.pc = pc
  BY DEF Running, IInv, ModeOK
<1> QED BY <1>1, TopParts, ToldIs DEF IInv

LEMMA EqStartExact ==
  ASSUME IInv, StackInv, EInv, EqStart
  PROVE  EInv'
<1>0. /\ depth > 0 /\ Top.call.op = "isDefEq" /\ Top.pc = "start" /\ Top \in Frames /\ Untouched
      /\ Told[Top.call] = Equal(Told, PairOf(Top.call))
  BY EqRuns DEF EqStart
<1>1. CASE Top.fuel <= 1 /\ ReturnEq(FALSE) /\ excuses' = excuses \cup {"budget"}
  BY <1>0, <1>1, ReturnEqExact
<1>2. CASE Top.call.left = Top.call.right /\ ReturnEq(TRUE) /\ excuses' = excuses
  <2>1. Told[Top.call] = TruthReply(TRUE)
    BY <1>0, <1>2 DEF Equal, PairOf
  <2> QED BY <1>0, <1>2, <2>1, ReturnEqExact
<1>3. CASE Top.call.left # Top.call.right /\ Suspend([Spent(Top) EXCEPT !.pc = "left"])
  <2> DEFINE f == [Spent(Top) EXCEPT !.pc = "left"]
  <2>1. f.call = Top.call /\ f.pc = "left" /\ f.epochBefore = Top.epochBefore
    BY <1>0 DEF Frames, Spent
  <2>2. Told[Top.call] = AfterLeft(Told, Told[Whnf(Top.call.left)], Top.call.right)
    BY <1>0, <1>3 DEF Equal, PairOf
  <2>3. Suspend(f)
    BY <1>3
  <2> HIDE DEF f
  <2>4. FrameExact(Told, f)
    BY <2>1, <2>2 DEF FrameExact, Asked
  <2> QED BY <1>0, <2>1, <2>3, <2>4, GoesOn
<1> QED BY <1>1, <1>2, <1>3 DEF EqStart

LEMMA LeftReducedExact ==
  ASSUME IInv, StackInv, EInv, EqLeftReduced
  PROVE  EInv'
<1> DEFINE f == [Top EXCEPT !.pc = "right", !.subject = reply.value]
<1>0. depth > 0 /\ Top.pc = "left" /\ Top \in Frames /\ Untouched /\ reply.kind = "value"
  BY AnsweredExact, TopParts DEF EqLeftReduced, Answered
<1>1. Unhindered => Told[Top.call] = AfterLeft(Told, reply, Top.call.right)
  BY <1>0, AnsweredExact DEF EqLeftReduced, FrameExact
<1>2. /\ f.call = Top.call /\ f.pc = "right" /\ f.epochBefore = Top.epochBefore
      /\ f.subject = reply.value
  BY <1>0 DEF Frames
<1>3. Suspend(f)
  BY DEF EqLeftReduced
<1> HIDE DEF f
<1>4. Unhindered => FrameExact(Told, f)
  BY <1>0, <1>1, <1>2 DEF FrameExact, Asked, AfterLeft, Failed
<1> QED BY <1>0, <1>2, <1>3, <1>4, GoesOn DEF Unhindered

LEMMA RightReducedExact ==
  ASSUME IInv, StackInv, EInv, EqRightReduced
  PROVE  EInv'
<1> DEFINE f == [Top EXCEPT !.pc = "compare", !.other = reply.value]
<1>0. depth > 0 /\ Top.pc = "right" /\ Top \in Frames /\ Untouched /\ reply.kind = "value"
  BY AnsweredExact, TopParts DEF EqRightReduced, Answered
<1>1. Unhindered => Told[Top.call] = AfterRight(Told, Top.subject, reply)
  BY <1>0, AnsweredExact DEF EqRightReduced, FrameExact
<1>2. /\ f.call = Top.call /\ f.pc = "compare" /\ f.epochBefore = Top.epochBefore
      /\ f.subject = Top.subject /\ f.other = reply.value
  BY <1>0 DEF Frames
<1>3. Continue(f)
  BY DEF EqRightReduced
<1> HIDE DEF f
<1>4. Unhindered => FrameExact(Told, f)
  BY <1>0, <1>1, <1>2 DEF FrameExact, AfterRight, Failed
<1> QED BY <1>0, <1>2, <1>3, <1>4, GoesOn DEF Unhindered

\* The structural comparison fails: the irrelevance test is left.
LEMMA FallThroughExact ==
  ASSUME IInv, EInv, depth > 0, Untouched, Continue([Top EXCEPT !.pc = "irrelevance"]),
         Unhindered => Told[Top.call] = Irrelevant(Told, <<Top.subject, Top.other>>)
  PROVE  EInv'
<1> DEFINE f == [Top EXCEPT !.pc = "irrelevance"]
<1>1. /\ f.call = Top.call /\ f.pc = "irrelevance" /\ f.epochBefore = Top.epochBefore
      /\ f.subject = Top.subject /\ f.other = Top.other
  BY TopParts DEF Frames
<1>2. Continue(f)
  OBVIOUS
<1> HIDE DEF f
<1>3. Unhindered => FrameExact(Told, f)
  BY <1>1 DEF FrameExact
<1> QED BY <1>1, <1>2, <1>3, GoesOn DEF Unhindered

LEMMA CompareExact ==
  ASSUME IInv, StackInv, EInv, EqCompare
  PROVE  EInv'
<1> DEFINE pair == <<Top.subject, Top.other>>
<1>0. depth > 0 /\ Top.call.op = "isDefEq" /\ Top.pc = "compare" /\ Top \in Frames /\ Untouched
  BY EqRuns DEF EqCompare
<1>1. Unhindered => Told[Top.call] = Compared(Told, pair)
  BY <1>0, TopExact DEF FrameExact
<1>2. pair[1] = Top.subject /\ pair[2] = Top.other
  OBVIOUS
<1> HIDE DEF pair
<1>3. CASE Top.subject = Top.other \/ Verdict[pair] = "equal"
  <2>1. Unhindered => Told[Top.call] = TruthReply(TRUE)
    BY <1>1, <1>2, <1>3 DEF Compared
  <2>2. ReturnEq(TRUE) /\ excuses' = excuses
    BY <1>3, TopParts DEF EqCompare, pair
  <2> QED BY <1>0, <2>1, <2>2, ReturnEqExact
<1>4. CASE Top.subject # Top.other /\ Verdict[pair] = "differ"
  <2>1. Unhindered => Told[Top.call] = TruthReply(FALSE)
    BY <1>1, <1>2, <1>4 DEF Compared
  <2>2. ReturnEq(FALSE) /\ excuses' = excuses
    BY <1>4 DEF EqCompare, pair
  <2> QED BY <1>0, <2>1, <2>2, ReturnEqExact
<1>5. CASE Top.subject # Top.other /\ Verdict[pair] \in {"binder", "spine"}
  <2> DEFINE f == [Top EXCEPT !.pc = "goal", !.next = 1]
  <2>1. /\ f.call = Top.call /\ f.pc = "goal" /\ f.epochBefore = Top.epochBefore
        /\ f.subject = Top.subject /\ f.other = Top.other /\ f.next = 1
    BY <1>0 DEF Frames
  <2>2. Unhindered => Told[Top.call] = AfterGoals(Told, pair, InOrder(Told, Goals[pair]))
    BY <1>1, <1>2, <1>5 DEF Compared
  <2>3. Suspend(f)
    BY <1>5 DEF EqCompare, pair
  <2> HIDE DEF f
  <2>4. Unhindered => FrameExact(Told, f)
    BY <2>1, <2>2 DEF FrameExact, pair
  <2> QED BY <1>0, <2>1, <2>3, <2>4, GoesOn DEF Unhindered
<1>6. CASE Top.subject # Top.other /\ Verdict[pair] = "none"
  <2>1. Unhindered => Told[Top.call] = Irrelevant(Told, pair)
    BY <1>1, <1>2, <1>6 DEF Compared
  <2>2. Continue([Top EXCEPT !.pc = "irrelevance"])
    BY <1>6 DEF EqCompare, pair
  <2> QED BY <1>0, <2>1, <2>2, FallThroughExact DEF pair
<1> QED BY <1>3, <1>4, <1>5, <1>6 DEF EqCompare, pair

LEMMA GoalComparedExact ==
  ASSUME IInv, StackInv, EInv, EqGoalCompared
  PROVE  EInv'
<1> DEFINE pair == <<Top.subject, Top.other>>
           n == Top.next
<1>0. /\ depth > 0 /\ Top.pc = "goal" /\ Top.call.op = "isDefEq" /\ Top \in Frames /\ Untouched
      /\ reply.kind = "truth" /\ reply = TruthReply(reply.truth) /\ reply.truth \in BOOLEAN
  BY AnsweredExact, PlainIs, PlaceTellsBody, TopParts DEF EqGoalCompared, Answered, Replies
<1>1. Goals[pair] \in Seq(Pairs) /\ n \in 1..Len(Goals[pair]) /\ n \in Nat
  BY <1>0, TopParts, SyntaxAssumption DEF FrameSound
<1>2. ASSUME Unhindered
      PROVE  /\ reply = Told[IsDefEq(Goals[pair][n])]
             /\ \A i \in 1..(n - 1) : Told[IsDefEq(Goals[pair][i])] = TruthReply(TRUE)
             /\ Told[Top.call] = AfterGoals(Told, pair, InOrder(Told, Goals[pair]))
  <2>1. FrameExact(Told, Top) /\ reply = Told[Asked(Top)]
    BY <1>0, <1>2, AnsweredExact DEF EqGoalCompared
  <2>2. Asked(Top) = IsDefEq(Goals[pair][n])
    BY <1>0 DEF Asked
  <2> QED BY <1>0, <2>1, <2>2 DEF FrameExact
<1>3. ASSUME Unhindered, reply.truth
      PROVE  \A i \in 1..n : Told[IsDefEq(Goals[pair][i])] = TruthReply(TRUE)
  <2>1. reply = TruthReply(TRUE)
    BY <1>0, <1>3 DEF TruthReply
  <2>2. \A i \in 1..n : i \in 1..(n - 1) \/ i = n
    BY <1>1
  <2> QED BY <1>2, <1>3, <2>1, <2>2
<1>4. ASSUME Unhindered, ~reply.truth
      PROVE  Told[Top.call] = IF Verdict[pair] = "binder" THEN reply ELSE Irrelevant(Told, pair)
  <2>1. reply # TruthReply(TRUE)
    BY <1>4 DEF TruthReply
  <2>2. InOrder(Told, Goals[pair]) = reply
    BY <1>1, <1>2, <1>4, <2>1, FirstNotTrue
  <2> QED BY <1>0, <1>2, <1>4, <2>2 DEF AfterGoals, Failed
<1>5. reply.truth =>
        \/ n < Len(Goals[pair]) /\ Suspend([Top EXCEPT !.next = @ + 1])
        \/ n = Len(Goals[pair]) /\ ReturnEq(TRUE) /\ UNCHANGED excuses
  BY DEF EqGoalCompared
<1>6. CASE reply.truth /\ n < Len(Goals[pair])
  <2> DEFINE f == [Top EXCEPT !.next = @ + 1]
  <2>1. /\ f.call = Top.call /\ f.pc = "goal" /\ f.epochBefore = Top.epochBefore
        /\ f.subject = Top.subject /\ f.other = Top.other /\ f.next = n + 1
    BY <1>0 DEF Frames
  <2>2. Suspend(f)
    <3>1. n # Len(Goals[pair])
      BY <1>1, <1>6
    <3> QED BY <1>6, <1>5, <3>1
  <2> HIDE DEF f
  <2>3. f.next - 1 = n
    BY <1>1, <2>1
  <2>4. Unhindered => FrameExact(Told, f)
    BY <1>2, <1>3, <1>6, <2>1, <2>3 DEF FrameExact
  <2> QED BY <1>0, <2>1, <2>2, <2>4, GoesOn DEF Unhindered
<1>7. CASE reply.truth /\ n = Len(Goals[pair])
  <2>1. ASSUME Unhindered PROVE Told[Top.call] = TruthReply(TRUE)
    <3>1. InOrder(Told, Goals[pair]) = TruthReply(TRUE)
      BY <1>1, <1>3, <1>7, <2>1, AllTrue
    <3> QED BY <1>2, <2>1, <3>1 DEF AfterGoals, Failed, TruthReply
  <2>2. ReturnEq(TRUE) /\ excuses' = excuses
    <3>1. ~(n < Len(Goals[pair]))
      BY <1>1, <1>7
    <3> QED BY <1>7, <1>5, <3>1
  <2> QED BY <1>0, <2>1, <2>2, ReturnEqExact
<1>8. CASE ~reply.truth /\ Verdict[pair] = "binder"
  <2>1. reply = TruthReply(FALSE)
    BY <1>0, <1>8 DEF TruthReply
  <2>2. Unhindered => Told[Top.call] = TruthReply(FALSE)
    BY <1>4, <1>8, <2>1
  <2>3. ReturnEq(FALSE) /\ excuses' = excuses
    BY <1>8 DEF EqGoalCompared
  <2> QED BY <1>0, <2>2, <2>3, ReturnEqExact
<1>9. CASE ~reply.truth /\ Verdict[pair] # "binder"
  <2>1. Unhindered => Told[Top.call] = Irrelevant(Told, pair)
    BY <1>4, <1>9
  <2>2. Continue([Top EXCEPT !.pc = "irrelevance"])
    BY <1>9 DEF EqGoalCompared
  <2> QED BY <1>0, <2>1, <2>2, FallThroughExact
<1> QED BY <1>1, <1>6, <1>7, <1>8, <1>9 DEF EqGoalCompared

LEMMA IrrelevanceExact ==
  ASSUME IInv, StackInv, EInv, EqIrrelevance
  PROVE  EInv'
<1> DEFINE pair == <<Top.subject, Top.other>>
<1>0. depth > 0 /\ Top.call.op = "isDefEq" /\ Top.pc = "irrelevance" /\ Top \in Frames /\ Untouched
  BY EqRuns DEF EqIrrelevance
<1>1. Unhindered => Told[Top.call] = Irrelevant(Told, pair)
  BY <1>0, TopExact DEF FrameExact
<1>2. CASE Typed(Top.subject) /\ Typed(TypeOf[Top.subject])
  <2> DEFINE f == [Top EXCEPT !.pc = "kind"]
  <2>1. /\ f.call = Top.call /\ f.pc = "kind" /\ f.epochBefore = Top.epochBefore
        /\ f.subject = Top.subject /\ f.other = Top.other
    BY <1>0 DEF Frames
  <2>2. Unhindered =>
          Told[Top.call] = AfterKind(Told, pair, Told[Whnf(TypeOf[TypeOf[Top.subject]])])
    BY <1>1, <1>2 DEF Irrelevant
  <2>3. Suspend(f)
    BY <1>2 DEF EqIrrelevance
  <2> HIDE DEF f
  <2>4. Unhindered => FrameExact(Told, f)
    BY <2>1, <2>2 DEF FrameExact, Asked
  <2> QED BY <1>0, <2>1, <2>3, <2>4, GoesOn DEF Unhindered
<1>3. CASE ~(Typed(Top.subject) /\ Typed(TypeOf[Top.subject]))
  <2>1. Unhindered => Told[Top.call] = TruthReply(FALSE)
    BY <1>1, <1>3 DEF Irrelevant
  <2>2. ReturnEq(FALSE) /\ excuses' = excuses
    BY <1>3 DEF EqIrrelevance
  <2> QED BY <1>0, <2>1, <2>2, ReturnEqExact
<1> QED BY <1>2, <1>3

LEMMA KindReducedExact ==
  ASSUME IInv, StackInv, EInv, EqKindReduced
  PROVE  EInv'
<1> DEFINE pair == <<Top.subject, Top.other>>
<1>0. /\ depth > 0 /\ Top.pc = "kind" /\ Top.call.op = "isDefEq" /\ Top \in Frames /\ Untouched
      /\ reply.kind = "value"
  BY AnsweredExact, PlaceTellsBody, TopParts DEF EqKindReduced, Answered
<1>1. Unhindered => Told[Top.call] = AfterKind(Told, pair, reply)
  BY <1>0, AnsweredExact DEF EqKindReduced, FrameExact
<1>2. CASE reply.value = PropositionSort /\ Typed(Top.other)
  <2> DEFINE f == [Top EXCEPT !.pc = "types"]
  <2>1. /\ f.call = Top.call /\ f.pc = "types" /\ f.epochBefore = Top.epochBefore
        /\ f.subject = Top.subject /\ f.other = Top.other
    BY <1>0 DEF Frames
  <2>2. Unhindered => Told[Top.call] =
          AfterTypes(Told[IsDefEq(<<TypeOf[Top.subject], TypeOf[Top.other]>>)])
    BY <1>0, <1>1, <1>2 DEF AfterKind
  <2>3. Suspend(f)
    BY <1>2 DEF EqKindReduced
  <2> HIDE DEF f
  <2>4. Unhindered => FrameExact(Told, f)
    BY <2>1, <2>2 DEF FrameExact, Asked
  <2> QED BY <1>0, <2>1, <2>3, <2>4, GoesOn DEF Unhindered
<1>3. CASE ~(reply.value = PropositionSort /\ Typed(Top.other))
  <2>1. Unhindered => Told[Top.call] = TruthReply(FALSE)
    BY <1>0, <1>1, <1>3 DEF AfterKind
  <2>2. ReturnEq(FALSE) /\ excuses' = excuses
    BY <1>3 DEF EqKindReduced
  <2> QED BY <1>0, <2>1, <2>2, ReturnEqExact
<1> QED BY <1>2, <1>3

LEMMA TypesComparedExact ==
  ASSUME IInv, StackInv, EInv, EqTypesCompared
  PROVE  EInv'
<1>0. /\ depth > 0 /\ Top.pc = "types" /\ Top.call.op = "isDefEq" /\ Untouched
      /\ reply.kind = "truth" /\ reply = TruthReply(reply.truth)
  BY AnsweredExact, PlainIs, PlaceTellsBody DEF EqTypesCompared, Answered
<1>1. Unhindered => Told[Top.call] = AfterTypes(reply)
  BY <1>0, AnsweredExact DEF EqTypesCompared, FrameExact
<1>2. Unhindered => Told[Top.call] = TruthReply(reply.truth)
  BY <1>0, <1>1 DEF AfterTypes
<1>3. ReturnEq(reply.truth) /\ excuses' = excuses
  BY DEF EqTypesCompared
<1> QED BY <1>0, <1>2, <1>3, ReturnEqExact

LEMMA GivesUpExact ==
  ASSUME IInv, StackInv, EInv, EqGivesUp
  PROVE  EInv'
<1>1. depth > 0
  BY AnsweredExact DEF EqGivesUp
<1>2. /\ Top.call.op = "isDefEq" /\ Untouched /\ ReturnEq(FALSE)
      /\ excuses' = excuses \cup {"budget"}
  BY DEF EqGivesUp
<1> QED BY <1>1, <1>2, ReturnEqExact

LEMMA TypeErrorExact ==
  ASSUME IInv, StackInv, EInv, EqTypeError
  PROVE  EInv'
<1>1. /\ Answered(Top.pc, {"typeError"}) /\ Top.call.op = "isDefEq" /\ Untouched
  BY DEF EqTypeError
<1>2. /\ depth > 0 /\ Top \in Frames /\ reply.kind = "typeError"
      /\ reply = ThrowReply("typeError")
  BY <1>1, AnsweredExact, PlainIs, TopParts DEF Answered
<1>3. ASSUME Unhindered
      PROVE  FrameExact(Told, Top) /\ reply = Told[Asked(Top)] /\ Failed(reply)
  BY <1>1, <1>2, <1>3, AnsweredExact DEF Failed
<1>4. CASE Top.pc \in {"kind", "types"}
  <2>1. Unhindered => Told[Top.call] = TruthReply(FALSE)
    BY <1>2, <1>3, <1>4 DEF FrameExact, AfterKind, AfterTypes
  <2>2. ReturnEq(FALSE) /\ excuses' = excuses
    BY <1>4 DEF EqTypeError
  <2> QED BY <1>1, <1>2, <2>1, <2>2, ReturnEqExact
<1>5. CASE Top.pc \notin {"kind", "types"}
  <2>1. ASSUME Unhindered PROVE Told[Top.call] = reply
    <3>1. CASE Top.pc \in {"start", "compare", "irrelevance"}
      BY <1>3, <2>1, <3>1 DEF Asked
    <3>2. CASE Top.pc = "left"
      BY <1>3, <2>1, <3>2 DEF FrameExact, AfterLeft
    <3>3. CASE Top.pc = "right"
      BY <1>3, <2>1, <3>3 DEF FrameExact, AfterRight
    <3>4. CASE Top.pc = "goal"
      <4> DEFINE pair == <<Top.subject, Top.other>>
      <4>1. Goals[pair] \in Seq(Pairs) /\ Top.next \in 1..Len(Goals[pair])
        BY <1>2, <3>4, TopParts, SyntaxAssumption DEF FrameSound
      <4>2. Asked(Top) = IsDefEq(Goals[pair][Top.next]) /\ reply # TruthReply(TRUE)
        BY <1>2, <3>4 DEF Asked, TruthReply
      <4>3. InOrder(Told, Goals[pair]) = reply
        BY <1>3, <2>1, <3>4, <4>1, <4>2, FirstNotTrue DEF FrameExact
      <4> QED BY <1>3, <2>1, <3>4, <4>3 DEF FrameExact, AfterGoals
    <3> QED BY <1>1, <1>2, <1>5, <3>1, <3>2, <3>3, <3>4, TopParts DEF FrameSound
  <2>2. ThrowEq("typeError")
    BY <1>5 DEF EqTypeError
  <2> QED BY <1>1, <1>2, <2>1, <2>2, ThrowEqExact
<1> QED BY <1>4, <1>5

LEMMA EqBodyExact ==
  ASSUME IInv, StackInv, EInv, EqBody
  PROVE  EInv'
  BY EqStartExact, LeftReducedExact, RightReducedExact, CompareExact, GoalComparedExact,
     IrrelevanceExact, KindReducedExact, TypesComparedExact, GivesUpExact, TypeErrorExact
     DEF EqBody

-----------------------------------------------------------------------------
(* The theorems. *)

LEMMA ExactStays ==
  ASSUME EInv, UNCHANGED vars
  PROVE  EInv'
<1>1. UNCHANGED <<environmentVars, ownerVars, tables, epoch, callVars, excuses, stack, depth,
                  mode, reply>>
  BY DEF vars, control
<1>2. MemoExact' /\ OwnerOlder'
  BY <1>1, TablesStay
<1>3. EpochsGrow' /\ FramesExact'
  BY <1>1, WithinCall DEF EInv, EpochsGrow, FramesExact
<1>4. TheCall' = TheCall /\ Began' = Began
  BY <1>1 DEF TheCall, CallAt, Began, Top, callVars
<1>5. ReplyExact'
  BY <1>1, <1>4, WithinCall DEF EInv, ReplyExact
<1> QED BY <1>1, <1>2, <1>3, <1>5 DEF EInv

LEMMA ExactStep == IInv /\ StackInv /\ EInv /\ [Next]_vars => EInv'
<1> SUFFICES ASSUME IInv, StackInv, EInv, [Next]_vars PROVE EInv'
  OBVIOUS
<1>1. CASE Next
  BY <1>1, ElaboratorExact, WrapperExact, WhnfBodyExact, EqBodyExact DEF Next, Kernel
<1>2. CASE UNCHANGED vars
  BY <1>2, ExactStays
<1> QED BY <1>1, <1>2

\* The stack is at all times on its way to what a fresh kernel answers.
LEMMA ExactInvariance == Spec => []EInv
  BY InitExact, ExactStep, Invariance, StackInvariance, PTL DEF Spec

\* Every entry of a memo table that would be used is what a fresh computation
\* answers now, unless a budget ran out or an `unfold` threw half way since
\* the tables were last cleared: not a result computed above a cut cycle, not
\* one from before a declaration, an opacity change or a query of the other
\* environment.
THEOREM MemoIsExact == Spec => []MemoExact
<1>1. EInv => MemoExact
  BY DEF EInv
<1> QED BY <1>1, ExactInvariance, PTL

\* A call that met no cycle and no budget answers what a fresh kernel answers,
\* whatever was declared, opened, closed or asked before it.
THEOREM AnswersAreExact == Spec => []AnswersExact
<1>1. EInv => AnswersExact
  <2> SUFFICES ASSUME EInv, mode = "reply", depth = 0, epoch = 0, excuses = {},
                      reply.kind # "exhausted"
               PROVE  reply = Fresh[Reducible(env)][query]
    BY DEF AnswersExact
  <2>1. Began = epoch /\ TheCall = query
    BY DEF Began, TheCall, CallAt
  <2> QED BY <2>1 DEF EInv, ReplyExact, Told
<1> QED BY <1>1, ExactInvariance, PTL
=============================================================================
