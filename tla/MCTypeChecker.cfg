SPECIFICATION Spec
CONSTANTS
  Library <- BasicLibrary
  Submissions <- AllSubmissions
  TypeQuestions <- SomeTypeQuestions
  EqualQuestions <- SomeEqualQuestions
  MaxCalls = 2
  MaxHeight = 8
INVARIANTS
  AnswersAreFresh
  TypesHaveSorts
  ReductionPreservesTypes
  LevelFreeIotaPreservesTypes
  FieldsFitTheirUniverse
  EqualProofsAgree
  NumeralsAgree
CHECK_DEADLOCK FALSE
