SPECIFICATION Spec
CONSTANTS
  Environments = {"module"}
  Module = "module"
  Names <- MCNames
  InitialStatus <- TransparentStatus
  Expressions <- MCExpressions
  NoExpression = "none"
  Nobody = "nobody"
  Queries <- BudgetQueries
  MaxDepth = 4
  MaxFuel = 6
  Kind <- MCKind
  NameOf <- MCNameOf
  BodyOf <- MCBodyOf
  IllFormed <- MCIllFormed
  LetBody <- MCLetBody
  HeadOf <- MCHeadOf
  WithHead <- MCWithHead
  Lambdas <- MCLambdas
  Contractum <- MCContractum
  Saturated <- MCSaturated
  Target <- MCTarget
  IotaMatches <- MCIotaMatches
  Parameters <- MCParameters
  Reduct <- MCReduct
  Verdict <- MCVerdict
  Goals <- MCGoals
  TypeOf <- MCTypeOf
  PropositionSort = "Proposition"
  Convertible <- MCConvertible
  Fresh <- MCFresh
INVARIANT
  MemoIndependentOfStack
