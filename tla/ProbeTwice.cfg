CONSTANTS
  Names <- MCNames
  Keys <- MCKeys
  Inodes <- FewInodes
  Dirs <- OneDir
  Generations <- TwoGenerations
  Attrs <- OneVersion
  Kinds <- ProbeKinds
  Cacheable <- Either
  Trees <- LifeTrees
  Faulty = FALSE
  Expiring = TRUE
  MaxRequests = 1
  MaxChanges = 0
  RootIno = root
  NoInode = none
  root = root
  d = d
  f = f
  g = g
  none = none
SPECIFICATION Spec
INVARIANTS
  ProbeUsesLiveInode
CHECK_DEADLOCK FALSE
