\* isClear compiled to code that runs on into what follows it.
SPECIFICATION FairSpec
CONSTANTS
  Size <- MCSize
  Byte <- MCByte
  Garbage <- MCGarbage
  Chunks <- MCChunks
  Pops <- MCPops
  InOrder = TRUE
  PictureSize <- MCPictureSize
  Blocks <- MCBlocks
  MaxReads <- MCMaxReads
  Word <- MCWord
  FallsOff = TRUE
PROPERTY
  ClearReturns
