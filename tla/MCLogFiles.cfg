CONSTANTS
  s1 = s1
  s2 = s2
  Service <- MCService
  Backups = 3
  Limit = 3
  Burst = 1
  MaxSize = 4

SPECIFICATION Spec

INVARIANT TypeOK

PROPERTIES
  LossNeedsOverlap
  FollowerCatchesUp

CHECK_DEADLOCK FALSE
