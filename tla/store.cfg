\* Two pictures of each channel, for every set of enabled channels and every
\* pair of resolutions.
SPECIFICATION StoreSpec
CONSTANT
  MaxPictures = 2
INVARIANTS
  StoreTypeOK
  FramesAreWhole
  FramesAreNotEmpty
  LockLostByWidthsOnly
  NewestIsKept
  WaitStacksAlike
PROPERTIES
  StoreIsBoard
  PicturesDoNotGoBack
  PicturesAreServed
\* A process that has come to its end stops.
CHECK_DEADLOCK FALSE
