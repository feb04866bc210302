CONSTANTS
  Tool <- MCTool
  Chunk <- MCChunk
  Answer <- MCAnswer
  MaxChunks = 3

SPECIFICATION Spec

INVARIANT CutIsNotCompleted

CHECK_DEADLOCK FALSE
