CONSTANTS
  Names <- MCNames
  Keys <- MCKeys
  Inodes <- ManyInodes
  Dirs <- OneDir
  Generations <- TwoGenerations
  Attrs <- OneVersion
  Kinds <- NameKinds
  Cacheable <- Always
  Trees <- NameTrees
  Faulty = FALSE
  Expiring = TRUE
  MaxRequests = 3
  MaxChanges = 0
  RootIno = root
  NoInode = none
  root = root
  d = d
  f = f
  g = g
  none = none
SPECIFICATION Spec
INVARIANTS
  TypeOK
  NamesCoherent
  WalksArrive
CHECK_DEADLOCK FALSE
