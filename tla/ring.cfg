\* One producer and one consumer whose stores are seen in program order.
SPECIFICATION RingSpec
CONSTANTS
  Size <- MCSize
  Byte <- MCByte
  Garbage <- MCByte
  Chunks <- MCChunks
  Pops <- MCPops
  InOrder = TRUE
INVARIANTS
  CountedIsWritten
PROPERTIES
  RingIsFifo
  NoOverrun
