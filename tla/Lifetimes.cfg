CONSTANTS
  Names <- MCNames
  Keys <- MCKeys
  Inodes <- FewInodes
  Dirs <- OneDir
  Generations <- TwoGenerations
  Attrs <- TwoVersions
  Kinds <- AllKinds
  Cacheable <- Either
  Trees <- LifeTrees
  Faulty = TRUE
  Expiring = TRUE
  MaxRequests = 2
  MaxChanges = 0
  RootIno = root
  NoInode = none
  root = root
  d = d
  f = f
  g = g
  none = none
SPECIFICATION Spec
INVARIANTS
  ResolvedInodesAreLive
  LookupsBalance
  DrainedAtRest
  AttributesCoherent
CHECK_DEADLOCK FALSE
