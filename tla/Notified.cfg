CONSTANTS
  Names <- SmallNames
  Keys <- SmallKeys
  Inodes <- FewInodes
  Dirs <- OneDir
  Generations <- TwoGenerations
  Attrs <- OneVersion
  Kinds <- LookKinds
  Cacheable <- Always
  Trees <- SmallTrees
  Faulty = FALSE
  Expiring = TRUE
  MaxRequests = 2
  MaxChanges = 3
  RootIno = root
  NoInode = none
  root = root
  d = d
  f = f
  g = g
  none = none
SPECIFICATION Spec
INVARIANTS
  AnswersAgree
  NamesInv
PROPERTY AdapterKeepsLedger
CHECK_DEADLOCK FALSE
