CONSTANTS
  Tool <- MCTool
  Chunk <- MCChunk
  Answer <- MCAnswer
  MaxChunks = 3

SPECIFICATION Spec

INVARIANT ListedResponseIsAccepted

CHECK_DEADLOCK FALSE
