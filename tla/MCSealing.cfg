SPECIFICATION Spec
CONSTANTS
  Modules <- MCModules
  NoModule = "none"
  Missing = Missing
  Names <- MCNames
  FirstText <- MCFirstText
  Edits <- MCEdits
  MaxEdits = 3
INVARIANTS
  SealedStatementsReadable
  ExportsUsable
  NothingSpellableIsLost
  SealIsBacked
CHECK_DEADLOCK FALSE
