\* One writer and one reader who wait with and without a timeout.
SPECIFICATION RwSpec
INVARIANT
  TurnsAreTaken
PROPERTY
  FramesKeepPassing
