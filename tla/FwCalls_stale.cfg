SPECIFICATION CallSpec
CONSTANTS
  NoFile = NoFile
  Garbage = Garbage
  Images <- MCImages
  HwNames <- MCHwNames
  Factory <- MCFactory
  Deliverable <- CallKinds
  Prefix <- MCPrefix
  DowngradePrevention = TRUE
  NChunks = 2
  InfoChunk = 2
  MaxCuts = 0
  MaxFaults = 0
  MaxUploads = 2
INVARIANTS
  B0VerdictIsOfTheFile
