CONSTANTS
  Tool <- MCTool
  Chunk <- MCChunk
  Answer <- MCAnswer
  MaxChunks = 4

SPECIFICATION Spec

INVARIANTS
  TypeOK
  DeltasAddUp
  EndTellsUpstream
  NextRequestIsAccepted
  PlainAnswerAgrees

PROPERTY ImplementsEventStream

CHECK_DEADLOCK FALSE
