CONSTANTS
  r1 = r1
  r2 = r2
  m1 = m1
  m2 = m2
  Request <- MCRequest
  Model <- MCModel
  Lists <- MCLists
  Wanted <- MCWanted
  Family <- MCFamily
  Overrides <- MCOverrides
  Fallbacks <- MCFallbacks
  TTL = 2
  Retry = 1
  MaxTime = 2
  NoName = NoName
  NoOne = NoOne

SPECIFICATION PathSpec

INVARIANTS
  TypeOK
  ForwardsAvailable
  ChoiceRespected
  UpstreamBodyFits
  EntriesAgree

PROPERTIES
  FetchesAreSpaced
  RequestsGetThrough
