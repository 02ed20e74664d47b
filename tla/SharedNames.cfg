SPECIFICATION Spec
CONSTANTS
  Library <- BasicLibrary
  Submissions <- NoSubmissions
  TypeQuestions <- NoQuestions
  EqualQuestions <- SharedNames
  MaxCalls = 2
  MaxHeight = 8
INVARIANT
  KeysCarryTheContext
CHECK_DEADLOCK FALSE
