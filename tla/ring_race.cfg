\* Stores of one push become visible in any order: the bytes.
SPECIFICATION RingSpec
CONSTANTS
  Size <- MCSize
  Byte <- MCByte
  Garbage <- MCByte
  Chunks <- MCChunks
  Pops <- MCPops
  InOrder = FALSE
INVARIANT
  CountedIsWritten
