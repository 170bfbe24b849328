CONSTANTS
  Names <- MCNames
  Keys <- MCKeys
  Inodes <- MCInodes
  Generations <- MCGenerations
  Attrs <- MCAttrs
  MaxLookups = 2
  i1 = i1
  i2 = i2
SYMMETRY Symmetry
SPECIFICATION Spec
INVARIANT NothingLost
