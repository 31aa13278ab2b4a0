CONSTANTS
  c1 = c1  c2 = c2  c3 = c3
  p1 = p1  p2 = p2
  None = None
  NoRegistry = NoRegistry
  Clients <- MCClients
  OpsOf <- MCOpsOf
  Paths <- MCPaths
  Fields <- MCFields
  Schema <- MCSchema
  Candidates <- MCCandidates
  TimeLike <- MCTimeLike
  DefaultField = "@timestamp"
  Registries <- MCRegistries
  MaxLoads = 3

SPECIFICATION Spec

INVARIANTS
  LockExclusion
  IndexesAgree
  NamesFresh
  NoTempLeft

PROPERTIES
  ImplementsCatalog
