CONSTANTS
  Interval = 2
  MaxReads = 3

SPECIFICATION FairSpec

INVARIANTS
  TypeOK
  ClientHearsInTime

PROPERTIES
  PingsBetweenEvents
  ClientGetsTheEnd
  NobodyStaysBehind

CHECK_DEADLOCK FALSE
