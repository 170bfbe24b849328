CONSTANTS
  I64Max = 7
  U32Max = 3
  Directory <- MCDirectory
  Lengths <- MCLengths
  Synthesized = 3
  Buffers <- MCBuffers
  MaxCalls = 3
  Mixes <- MCMixes
SPECIFICATION Spec
INVARIANTS
  TypeOK
  OwnAnswers
  ListingsComplete
  DeliveredInOrder
  LookupsKept
  CopyFits
  DescriptorWhole
CHECK_DEADLOCK FALSE
