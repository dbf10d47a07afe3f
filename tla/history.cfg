\* Three blocks, whole headers and parts of them, and what becomes of each byte.
SPECIFICATION FairHistorySpec
CONSTANTS
  Size <- MCSize
  Byte <- MCByte
  Garbage <- MCGarbage
  Chunks <- MCChunks
  Pops <- MCPops
  InOrder = TRUE
  PictureSize <- MCPictureSize
  Blocks <- MCBlocks
  MaxReads <- MCMaxReads
  Word <- MCWord
  FallsOff = FALSE
INVARIANTS
  EveryByteIsKept
  NoPictureSkipped
  PicturesAreGenuine
PROPERTY
  PicturesGetThrough
