INIT ProjectionInit
NEXT ProjectionNext
CONSTANTS
  Functions = {1, 2}
  Blocks = {1}
  PathOf <- NoPaths
  RolesOf <- NoRoles
  SystemSymbols = {1}
  Private = {}
  Mains = {}
  AddressOf <- OneAddress
  Entries = {1}
  Documented = {}
  Rewritten <- OfToken
  MaxCallDepth = 2
  MaxSequence = 160
  MaxDependencyDepth = 8
  MaxEntryFlows = 200
  MaxModelFlows = 60
  MaxModelNodes = 120
  MaxModelEdges = 240
  MinModelNodes = 2
INVARIANTS
  AlwaysReducible
CHECK_DEADLOCK FALSE
