\* Transfers of up to three chunks, and a driver that moves the file
\* position by a read or leaves it.
SPECIFICATION TransferSpec
CONSTANTS
  MaxSize <- MCMaxSize
  Sizes <- MCSizes
  Bases <- MCBases
  MaxAddress <- MCMaxAddress
INVARIANTS
  TransferTypeOK
  FailureTakesNothing
  NoGapInBuffer
