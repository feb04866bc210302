CONSTANTS
  p1 = p1
  p2 = p2
  m1 = m1
  Process <- MCProcess
  Model <- MCModel
  a1 = a1
  a2 = a2
  Addr <- MCOneAddr
  DefaultAddr = a1
  Nothing = Nothing
  Empty = Empty
  Mixed = Mixed
  MaxStarts = 4
  MaxTokens = 2
  MaxKeys = 2

SPECIFICATION Spec

SYMMETRY Processes

INVARIANT RestartLoadsNewKey

CHECK_DEADLOCK FALSE
