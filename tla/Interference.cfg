CONSTANTS
  Names <- SmallNames
  Keys <- SmallKeys
  Inodes <- FewInodes
  Dirs <- OneDir
  Generations <- TwoGenerations
  Attrs <- TwoVersions
  Kinds <- AllKinds
  Cacheable <- Always
  Trees <- SmallTrees
  Faulty = TRUE
  Expiring = TRUE
  MaxRequests = 1
  MaxChanges = 1
  RootIno = root
  NoInode = none
  root = root
  d = d
  f = f
  g = g
  none = none
SPECIFICATION FairSpec
INVARIANT AttributesInv
PROPERTIES
  RequestsEnd
  OnlyNotifierDiscards
CHECK_DEADLOCK FALSE
