SPECIFICATION Spec
CONSTANTS
  Names <- MCNames
  RecursorOf <- MCRecursorOf
  Requests <- CollidingRequests
  NoRequest = none
INVARIANT
  AtomicallyAdds
