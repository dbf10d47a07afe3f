\* Both threads of a channel, stores seen in program order, each thread
\* running on.
SPECIFICATION FairSpec
CONSTANTS
  Size <- MCSize
  Byte <- MCByte
  Garbage <- MCGarbage
  Chunks <- MCChunks
  Pops <- MCPops
  InOrder = TRUE
  PictureSize <- MCPictureSize
  Blocks <- MCBlocks
  MaxReads <- MCMaxReads
  Word <- MCWord
  FallsOff = FALSE
INVARIANTS
  ChannelTypeOK
  LengthIsSound
PROPERTIES
  ChannelIsStream
  BlockIsStored
  RoomIsMade
  QuitEnds
  QuitIsPrompt
