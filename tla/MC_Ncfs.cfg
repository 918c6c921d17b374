CONSTANTS
  Inodes = {i1, i2}
  Objects = {o1}
  Absent = Absent
  Torn = Torn
  Hole = Hole
  NoBlock = NoBlock
  NoEntry = NoEntry
  NoSb = NoSb
  NoSnap = NoSnap
  NumBlocks = 7
  Capacity = 2
  Window = 2
  MaxGen = 3
  MaxWrites = 3
  MaxFailures = 2
SYMMETRY Permuted
SPECIFICATION Spec
INVARIANTS
  TypeOK
  MountRecovers
  CountsCoverHolders
  NoBufferedWriteLost
PROPERTY
  CommitsAreAtomic
CHECK_DEADLOCK FALSE
