\* A cache of two events, four event ids.
SPECIFICATION Spec
CONSTANTS
  CacheSize = 2
  MaxFrames = 5
  EventIds <- MCEventIds
  Frames <- MCFrames
INVARIANTS
  TypeOK CacheCoherent PublishedOnce
  FramesFiledOnce FramesInTheirEvent LateOnlyWhenIdle
PROPERTIES EverythingIsPublished ImplementsAssembly
