CONSTANTS
  s1 = s1
  s2 = s2
  NoSession = NoSession
  Sessions <- MCSessions
  Points <- TwoPoints
  Point <- OwnPoint
  Process <- SameProcess
  Unmounters <- OnlyFirst
  Faulty <- OnlyFirst
SPECIFICATION Spec
PROPERTY ShutdownWhenQuiet
CHECK_DEADLOCK FALSE
