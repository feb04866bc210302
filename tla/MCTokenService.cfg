CONSTANTS
  r1 = r1
  Request <- MCRequest
  Main = Main
  Loop = Loop
  NoOne = NoOne
  MaxPairs = 3

SPECIFICATION FairSpec

INVARIANTS
  TypeOK
  RefreshTokenUsedOnce
  FileKeepsUp
  LogoutNeedsMishap

PROPERTIES
  EveryCallerAnswered
  LoopRefreshes
