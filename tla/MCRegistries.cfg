CONSTANTS
  Modules = {"m1", "m2", "m3", "m4"}
  NoModule = NoModule
  NoCache = NoCache
  NoName = NoName
  Structures = {"IsRing"}
  Aliases = {"+"}
  MaxStatements = 2
  MaxImports = 2
  Types <- MCTypes
  Names <- MCNames
  Home <- MCHome
  Heads <- MCHeads
  Operands <- MCOperands
  Certifies <- MCCertifies
  Shape <- MCShape
  KeyOf <- MCKeyOf
  Text <- MCText
SPECIFICATION Spec
INVARIANTS ChainsLead CachesReplay LinesAreClosed FoldsAgree JoinsAssociate
CHECK_DEADLOCK FALSE
