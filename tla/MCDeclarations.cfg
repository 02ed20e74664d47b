SPECIFICATION Spec
CONSTANTS
  Names <- MCNames
  RecursorOf <- MCRecursorOf
  Requests <- MCRequests
  NoRequest = none
INVARIANTS
  Closed
  Complete
  NoCircularity
  TablesCurrent
PROPERTIES
  FailureIsClean
  DeclaresAtomically
