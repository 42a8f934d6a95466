\* Three files: all the shapes of input, broken frames and failing writes.
SPECIFICATION Spec
CONSTANTS
  Files <- MCFiles
  Disks <- MCDisks
  EventIds <- MCEventIds
  IndexDepth = 2
  FramesPerRound = 2
  QueueCapacity = 2
  CacheSize = 2
  EvtIdMod = 8
  WriteFaults = {"std", "h5"}
  MaxFrames = 10
INVARIANTS
  FramesConserved EventsConserved NoNameCollision
  ReadInStep CompleteAtExit AlignedNothingLate
  OnlyRecentEventsWait
PROPERTY Termination
