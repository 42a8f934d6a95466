\* Partial and full readouts of four AGETs with five channels and six time
\* buckets, intact and damaged.
SPECIFICATION Spec
CONSTANTS
  RawFrames <- MCRawFrames
  Strays <- MCStrays
  SizeUnit = 16
  UintMod = 1024
  NumAgets = 4
  NumChannels = 5
  NumTbs = 6
INVARIANTS
  TypeOK
  ItemsInsideFrame
  PartialItemsRead
  NothingLostWhenCorrected
  FullReadoutInPlace
