SPECIFICATION Spec
CONSTANTS
  Contents <- MCContents
  EventIds <- MCEventIds
  IndexDepth = 2
  SizeMod = 8
INVARIANT RewoundAfterIndexing
