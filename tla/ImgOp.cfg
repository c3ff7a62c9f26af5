SPECIFICATION ChunkSpec
CONSTANTS
  Byte = {0, 255}
  FF = 255
  FaSize = 12
  BufSize = 4
  MaxSize = 13
  Before <- MCBefore
  NChunks = 2
  ChunkBlocks <- MCChunkBlocks
INVARIANTS
  SuccessMeansInstalled
  BlocksInBounds
  ChunksAreInFlash
PROPERTIES
  WriteOnce
  CopiesByChunks
