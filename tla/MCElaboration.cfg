SPECIFICATION Spec
CONSTANTS
  Names <- MCNames
  Sealed <- MCSealed
  Aliases <- MCAliases
  Budget = 2
  RedundancyBudget = 1
  ChainCap = 2
  MaxDepth = 2
  MaxSteps = 2
  MaxFrames = 6
  MaxRestores = 2
INVARIANTS
  TypeOK
  WindowsOutliveNoReset
  ClaimTripsAreReal
  BareTripsStayInside
  ScansDoNotSearch
PROPERTIES
  ScopesRestore
  OpacityRestored
CHECK_DEADLOCK FALSE
