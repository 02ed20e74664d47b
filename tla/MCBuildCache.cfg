SPECIFICATION Spec
CONSTANTS
  Modules <- MCModules
  Imports <- MCImports
  Sealed <- MCSealed
  Implementation <- MCImplementation
  Kept <- MCKept
  Kernels = {1, 2}
  Contents <- MCContents
  Possible <- MCPossible
  FirstKernel = 1
  FirstSource <- MCSource
  Bytes <- MCBytes
  Error = error
  Missing = missing
  NotLoaded = notLoaded
  Interface <- MCInterface
  Proves <- MCProves
  MaxJobs = 2
  MaxUpsets = 2
INVARIANTS
  GreenMeansVerified
  ViewsHold
PROPERTIES
  ProofEditsStayLocal
  BuildsFromNothing
  BuildEnds
