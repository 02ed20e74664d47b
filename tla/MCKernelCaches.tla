--------------------------- MODULE MCKernelCaches ---------------------------
(***************************************************************************)
(* A small library for KernelCaches: an opaque alias of a proposition, two  *)
(* proofs whose types agree only through it, a recursor application whose   *)
(* parameter agrees only through it and whose target is a definition still  *)
(* to be declared, a reduction cycle, a term without a normal form, a       *)
(* malformed constant and two binders.  The second environment is the       *)
(* bodyless snapshot of the lemma search.                                   *)
(***************************************************************************)
EXTENDS FreshKernel, TLC

MCNames         == {"Alias", "late"}
MCEnvironments  == {"module", "snapshot"}
MCInitialStatus ==
  "module"   :> ("Alias" :> "opaque" @@ "late" :> "absent") @@
  "snapshot" :> ("Alias" :> "stuck" @@ "late" :> "stuck")

MCExpressions ==
  {"Proposition", "P", "alias", "malformed", "proofOfP", "proofOfAlias",
   "proofOfMalformed", "late", "ctor", "result", "rec", "recursion", "plain",
   "applied", "appliedResult", "letin", "appliedMalformed", "cycle1", "cycle2",
   "lambda", "omega", "stream1", "stream2", "fstream1", "fstream2",
   "piP", "piAlias", "sort", "sameSort", "one"}
MCPairs == MCExpressions \X MCExpressions

Table(default, entries) ==
  [x \in MCExpressions |-> IF x \in DOMAIN entries THEN entries[x] ELSE default]
PairTable(default, entries) ==
  [x \in MCPairs |-> IF x \in DOMAIN entries THEN entries[x] ELSE default]

MCApplications ==
  {"recursion", "plain", "applied", "appliedResult", "appliedMalformed", "cycle1",
   "cycle2", "omega", "stream1", "stream2", "fstream1", "fstream2"}
MCKind == [x \in MCExpressions |->
             CASE x \in {"alias", "late", "malformed"} -> "constant"
               [] x = "letin" -> "let"
               [] x \in MCApplications -> "application"
               [] OTHER -> "value"]
MCNameOf    == Table("Alias", "late" :> "late")
MCBodyOf    == Table("P", "late" :> "ctor")
MCIllFormed == {"malformed"}
MCLetBody   == Table("applied", <<>>)

\* `applied` is `recursion x`, `appliedResult` is `result x`; cycle1 and
\* cycle2 are recursor applications that inspect each other; omega is its own
\* contractum, and each stream reduces to `ctor` applied to itself.
MCHeadOf == Table("rec",
  "applied" :> "recursion" @@ "appliedResult" :> "result" @@
  "appliedMalformed" :> "malformed" @@ "omega" :> "lambda" @@
  "stream1" :> "lambda" @@ "stream2" :> "lambda" @@
  "fstream1" :> "ctor" @@ "fstream2" :> "ctor")
MCWithHead   == [x \in MCPairs |-> IF x = <<"applied", "result">>
                                   THEN "appliedResult" ELSE x[1]]
MCLambdas    == {"lambda"}
MCContractum == PairTable("omega", <<"stream1", "lambda">> :> "fstream1" @@
                                   <<"stream2", "lambda">> :> "fstream2")
MCSaturated  == {"recursion", "plain", "cycle1", "cycle2"}
MCTarget     == Table("late", "cycle1" :> "cycle2" @@ "cycle2" :> "cycle1")
MCIotaMatches == {<<"recursion", "ctor">>, <<"plain", "ctor">>}
MCParameters == PairTable(<<>>,
  <<"recursion", "ctor">> :> << <<"alias", "P">>, <<"result", "plain">> >>)
MCReduct     == PairTable("result", <<>>)

MCVerdict == PairTable("none",
  <<"piP", "piAlias">> :> "binder" @@ <<"fstream1", "fstream2">> :> "spine" @@
  <<"applied", "appliedResult">> :> "spine" @@ <<"sort", "sameSort">> :> "equal" @@
  <<"ctor", "one">> :> "differ")
MCGoals == PairTable(<<>>,
  <<"piP", "piAlias">> :> << <<"P", "alias">>, <<"sort", "sameSort">> >> @@
  <<"fstream1", "fstream2">> :> << <<"ctor", "ctor">>, <<"stream1", "stream2">> >> @@
  <<"applied", "appliedResult">> :> << <<"recursion", "result">> >>)
MCTypeOf == Table(NoExpression,
  "P" :> "Proposition" @@ "alias" :> "Proposition" @@ "malformed" :> "Proposition" @@
  "proofOfP" :> "P" @@ "proofOfAlias" :> "alias" @@
  "proofOfMalformed" :> "malformed" @@ "result" :> "sort" @@ "one" :> "sort" @@
  "sort" :> "sameSort")

-----------------------------------------------------------------------------
(* Convertibility, by its classes of more than one expression: the least     *)
(* relation the rules above generate, and the assumptions of KernelCaches    *)
(* are evaluated on it.                                                     *)

Classes(R) ==
  {{"applied", "letin"} \cup (IF R = MCNames THEN {"appliedResult"} ELSE {}),
   {"stream1", "fstream1"}, {"stream2", "fstream2"}, {"sort", "sameSort"}}
  \cup (IF "late" \in R THEN {{"late", "ctor"}, {"plain", "result"}
          \cup (IF R = MCNames THEN {"recursion"} ELSE {})} ELSE {})
  \cup (IF "Alias" \in R THEN {{"alias", "P"}, {"proofOfP", "proofOfAlias"},
                               {"piP", "piAlias"}} ELSE {})

MCConvertible ==
  [R \in SUBSET MCNames |->
     {<<e, e>> : e \in MCExpressions} \cup UNION {c \X c : c \in Classes(R)}]

-----------------------------------------------------------------------------
(* The answers of a fresh kernel: the rules of FreshKernel, to a depth that   *)
(* is enough for these expressions unless they diverge.                      *)

Patience == 10

RECURSIVE Answers(_, _)
Answers(R, n) ==
  [call \in Calls |-> IF n = 0 THEN NoReply
                      ELSE Evaluated(R, Answers(R, n - 1), call)]

MCFresh == [R \in SUBSET Names |-> Answers(R, Patience)]
-----------------------------------------------------------------------------
\* Declarations, opacity and the second environment.
ElaboratorQueries ==
  {Whnf("letin"), IsDefEq(<<"proofOfP", "proofOfAlias">>),
   IsDefEq(<<"piP", "piAlias">>), IsDefEq(<<"applied", "appliedResult">>),
   IsDefEq(<<"late", "one">>)}

\* Cycles, budgets and exceptions, in an environment where all is transparent.
BudgetQueries ==
  {Whnf("letin"), Whnf("cycle1"), Whnf("cycle2"), Whnf("omega"),
   IsDefEq(<<"proofOfP", "proofOfAlias">>), IsDefEq(<<"piP", "piAlias">>),
   IsDefEq(<<"applied", "appliedResult">>), IsDefEq(<<"stream1", "stream2">>),
   IsDefEq(<<"proofOfP", "proofOfMalformed">>),
   IsDefEq(<<"appliedMalformed", "result">>), IsDefEq(<<"plain", "one">>)}
TransparentStatus == "module" :> ("Alias" :> "transparent" @@ "late" :> "transparent")
=============================================================================
