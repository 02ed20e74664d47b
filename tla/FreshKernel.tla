----------------------------- MODULE FreshKernel ------------------------------
(***************************************************************************)
(* What a kernel without memo tables, in-flight sets and budgets answers,    *)
(* and the properties of KernelCaches that speak of it.  The rules are those  *)
(* of weakHeadNormalFormUncached and isDefinitionallyEqualImpl; where a body  *)
(* calls another, it is given that call's answer.                            *)
(***************************************************************************)
EXTENDS KernelCaches

\* The answers, by the definitions that are reducible: the fresh call that
\* MATH_WHNF_CACHE_VERIFY makes, run to the end.  NoReply is no answer: the
\* call diverges.
CONSTANT Fresh

-----------------------------------------------------------------------------
(* One body each, A answering the calls it makes. *)

Failed(r) == r.kind \in {"none", "typeError"}

\* Goals are compared in order, up to the first that is not TRUE.
InOrder(A, goals) ==
  LET others == {i \in DOMAIN goals : A[IsDefEq(goals[i])] # TruthReply(TRUE)}
  IN IF others = {} THEN TruthReply(TRUE)
     ELSE A[IsDefEq(goals[CHOOSE i \in others : \A j \in others : i <= j])]

AfterParameters(A, application, target, answer) ==
  IF Failed(answer) THEN answer
  ELSE IF answer.truth THEN A[Whnf(Reduct[<<application, target>>])]
  ELSE ValueReply(application)

AfterTarget(A, application, target) ==
  LET pair == <<application, target.value>>
  IN IF Failed(target) THEN target
     ELSE IF pair \in IotaMatches
       THEN AfterParameters(A, application, target.value, InOrder(A, Parameters[pair]))
     ELSE ValueReply(application)

AfterHead(A, e, head) ==
  LET application == WithHead[<<e, head.value>>]
  IN IF Failed(head) THEN head
     ELSE IF head.value \in Lambdas THEN A[Whnf(Contractum[<<e, head.value>>])]
     ELSE IF Kind[head.value] = "application" \/ application \notin Saturated
       THEN ValueReply(application)
     ELSE AfterTarget(A, application, A[Whnf(Target[application])])

\* weakHeadNormalFormUncached
Reduced(R, A, e) ==
  CASE Kind[e] = "constant" /\ NameOf[e] \in R ->
         IF e \in IllFormed THEN ThrowReply("typeError") ELSE A[Whnf(BodyOf[e])]
    [] Kind[e] = "let"         -> A[Whnf(LetBody[e])]
    [] Kind[e] = "application" -> AfterHead(A, e, A[Whnf(HeadOf[e])])
    [] OTHER                   -> ValueReply(e)

\* Proof irrelevance swallows a TypeError.
AfterTypes(answer) ==
  IF answer.kind = "typeError" THEN TruthReply(FALSE) ELSE answer

AfterKind(A, pair, kind) ==
  IF kind.kind = "none" THEN kind
  ELSE IF kind.kind = "value" /\ kind.value = PropositionSort /\ Typed(pair[2])
    THEN AfterTypes(A[IsDefEq(<<TypeOf[pair[1]], TypeOf[pair[2]]>>)])
  ELSE TruthReply(FALSE)

Irrelevant(A, pair) ==
  IF Typed(pair[1]) /\ Typed(TypeOf[pair[1]])
  THEN AfterKind(A, pair, A[Whnf(TypeOf[TypeOf[pair[1]]])])
  ELSE TruthReply(FALSE)

AfterGoals(A, pair, answer) ==
  IF Failed(answer) \/ answer.truth \/ Verdict[pair] = "binder" THEN answer
  ELSE Irrelevant(A, pair)

Compared(A, pair) ==
  IF pair[1] = pair[2] \/ Verdict[pair] = "equal" THEN TruthReply(TRUE)
  ELSE IF Verdict[pair] = "differ" THEN TruthReply(FALSE)
  ELSE IF Verdict[pair] = "none" THEN Irrelevant(A, pair)
  ELSE AfterGoals(A, pair, InOrder(A, Goals[pair]))

AfterRight(A, left, right) ==
  IF Failed(right) THEN right ELSE Compared(A, <<left, right.value>>)

AfterLeft(A, left, e) ==
  IF Failed(left) THEN left ELSE AfterRight(A, left.value, A[Whnf(e)])

\* isDefinitionallyEqualImpl
Equal(A, pair) ==
  IF pair[1] = pair[2] THEN TruthReply(TRUE)
  ELSE AfterLeft(A, A[Whnf(pair[1])], pair[2])

Evaluated(R, A, call) ==
  IF call.op = "whnf" THEN Reduced(R, A, call.left) ELSE Equal(A, PairOf(call))

\* The answers are those the rules give.  Every library has some: the least,
\* where what diverges has no answer.
ASSUME FreshAssumption ==
  /\ Fresh \in [SUBSET Names -> [Calls -> Replies]]
  /\ \A R \in SUBSET Names : \A call \in Calls :
       Fresh[R][call] = Evaluated(R, Fresh[R], call)

-----------------------------------------------------------------------------
(* Properties. *)

\* The tables would be used as they are.
Current == owner # Nobody /\ ownerSize = DeclarationCount(owner)

ExactUnless(excuse) ==
  Current /\ excuses \subseteq excuse =>
    /\ \A pair \in whnfCache :
         Fresh[Reducible(owner)][Whnf(pair[1])] = ValueReply(pair[2])
    /\ \A pair \in trueCache :
         Fresh[Reducible(owner)][IsDefEq(pair)] = TruthReply(TRUE)

\* Every entry of a table is the answer a fresh computation gives in the
\* environment as it is now, unless a budget ran out or an `unfold` threw half
\* way since the tables were last cleared: neither a result computed above a
\* cut cycle nor one from before a declaration or an opacity change survives.
MemoExact == ExactUnless({})

\* Without the first exception: "WHNF's answer depends only on the input
\* expression" (kernel.cpp, above whnfCache).
MemoIndependentOfStack == ExactUnless({"budget"})

\* A call that met no cycle and no budget answers what a fresh kernel answers,
\* be it a normal form, a truth or a TypeError: a kernel-true equality never comes back
\* false because of what was asked before, in this environment or in the other.
AnswersExact ==
  mode = "reply" /\ depth = 0 /\ epoch = 0 /\ excuses = {} /\ reply.kind # "exhausted"
    => reply = Fresh[Reducible(env)][query]
=============================================================================
