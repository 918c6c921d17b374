CONSTANTS
  Scopes <- InstScopes
  Caveats <- InstCaveats
  Nodes <- InstNodes
  n1 = n1
  Issuers <- InstIssuers
  i1 = i1
  i2 = i2
  NoParent = NoParent
  NoCrl = NoCrl
  Indices <- InstIndices
  Patterns <- InstPatterns
  Objects <- InstObjects
  CrlLife = 1
  NextUpdates = {1, 2, 3}
  MaxListed = 2
  TimeMax = 2
  MaxTokens = 3
  MaxCrls = 2
  MaxEvents = 4
SPECIFICATION Spec
SYMMETRY IssuerSymmetry
INVARIANTS
  SubsetIsSound
  ChainNeverWidens
  RevocationTakesEffect
  LocalRevocationHolds
  NotAfterAncestors
CHECK_DEADLOCK FALSE
