SPECIFICATION CallSpec
CONSTANTS
  NoFile = NoFile
  Garbage = Garbage
  Images <- MCImages
  HwNames <- MCHwNames
  Factory <- MCFactory
  Deliverable <- CallKinds
  Prefix <- MCPrefix
  DowngradePrevention = TRUE
  NChunks = 2
  InfoChunk = 2
  MaxCuts = 1
  MaxFaults = 2
  MaxUploads = 3
INVARIANTS
  CallTypeOK
  HandlesClosed
PROPERTIES
  ChecksAreAtomic
