CONSTANTS
  o1 = o1
  o2 = o2
  a1 = a1
  a2 = a2
  Operator <- MCOperator
  Addr <- MCAddr
  NoAddr = NoAddr
  MaxProcess = 3
  MaxCommands = 3

SPECIFICATION Spec

SYMMETRY Symmetry

INVARIANTS
  TypeOK
  NoOrphan

PROPERTIES
  StopHitsItsOwn
  StartedMeansServing

CHECK_DEADLOCK FALSE
