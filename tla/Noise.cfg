SPECIFICATION Spec
CONSTANTS
  Agets <- MCAgets
  KnownAgets <- MCKnownAgets
  Channels <- MCChannels
  FPNChannels <- MCFPNChannels
  TimeBuckets <- MCTimeBuckets
  Garbage <- MCGarbage
  Frames <- MCFrames
  Tables <- MCTables
  MissingValue = 20000
  MaxFrames = 3
INVARIANTS
  TypeOK
  LastSampleKept
  OneRowPerTrace
  CompleteEventsSurvive
