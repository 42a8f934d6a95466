\* The constants of the code, and two files that start one event apart.
SPECIFICATION Spec
CONSTANTS
  Files <- MCRunFiles
  Disks <- MCRunDisks
  EventIds <- MCRunEventIds
  IndexDepth = 20
  FramesPerRound = 8
  QueueCapacity = 100
  CacheSize = 10
  EvtIdMod = 64
  WriteFaults = {}
  MaxFrames = 48
INVARIANTS CombinesAllFiles
