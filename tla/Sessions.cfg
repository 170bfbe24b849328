CONSTANTS
  s1 = s1
  s2 = s2
  NoSession = NoSession
  Sessions <- MCSessions
  Points <- OnePoint
  Point <- SamePoint
  Process <- OwnProcess
  Unmounters <- OnlyFirst
  Faulty <- OnlyFirst
SPECIFICATION FairSpec
INVARIANTS
  IInv
  DestroyedOnce
  TakesOneVolume
PROPERTIES
  ShutdownWhenQuiet
  JoinEnds
CHECK_DEADLOCK FALSE
